----------------------------- MODULE SyncProofs -----------------------------
(***************************************************************************)
(* The labs implement the shared resource, for any finite number of        *)
(* threads and any number of rounds; no wake-up is lost, and the result    *)
(* that is reported is right.                                              *)
(*                                                                         *)
(* The inductive invariant has a part for each protocol, which says what   *)
(* its primitives count: the holder of a lock, the readers behind the      *)
(* semaphores, the threads behind the condition variable.                  *)
(***************************************************************************)
EXTENDS SyncLabs, FiniteSetTheorems, TLAPS

SemLabels == {"first", "entered", "left"}
CdvLabels == {"test", "wait", "woken", "signal"}
Section3 == {"in", "store", "leave"}

(* Types, and where the labels of one protocol may occur.                   *)
Basic ==
    /\ job \in Jobs /\ ended \in BOOLEAN
    /\ pc \in [Threads -> PCs] /\ left \in [Threads -> Int]
    /\ lock \in Threads \cup {NoOne} /\ holders \subseteq Threads
    /\ rSem \in Int /\ wSem \in Int /\ rCount \in Int
    /\ readerCount \in Int /\ writerCount \in Int
    /\ shared \in Nat /\ copy \in [Threads -> Nat]
    /\ \A t \in Threads :
         /\ pc[t] \in SemLabels => job.type = "sem" /\ t \in Readers
         /\ pc[t] \in CdvLabels => job.type = "cdv"
         /\ pc[t] = "store" => t \in Writers

(* The mutex and the spin lock are held by the thread that is inside.       *)
MutexInv ==
    job.type \in {"mtx", "spl"} => \A t \in Threads : pc[t] \in Section3 <=> lock = t

RwlockInv ==
    job.type = "rwl" => /\ \A t \in Threads : pc[t] \in Section3 <=> t \in holders
                        /\ \A w \in Writers \cap holders : holders = {w}

(* r_sem is held by one thread at most; r_count counts the readers from     *)
(* their first look at it to their last; w_sem is taken while a writer or   *)
(* any reader past the first wait is inside.                                *)
Holds(t) == pc[t] \in SemLabels
Group  == {t \in Readers : pc[t] \in {"first", "entered"} \cup Section3}
Passed == {t \in Readers : pc[t] \in {"entered"} \cup Section3}
Writing == {t \in Writers : pc[t] \in Section3}
SemInv ==
    job.type = "sem" =>
      /\ rSem \in {0, 1} /\ wSem \in {0, 1}
      /\ \A t, u \in Threads : Holds(t) /\ Holds(u) => t = u
      /\ rSem = 1 => \A t \in Threads : ~Holds(t)
      /\ rCount = Cardinality(Group)
      /\ \A t \in Readers : pc[t] = "first" => Group = {t}
      /\ wSem = 1 => Writing = {} /\ Passed = {}
      /\ Passed # {} => Writing = {}
      /\ \A t, u \in Writing : t = u

(* The counts are the threads inside, and change under the mutex.           *)
In(kind) == {t \in kind : pc[t] \in Section3 \cup {"signal"}}
CdvInv ==
    job.type = "cdv" =>
      /\ \A t \in Threads : pc[t] \in {"test", "signal"} <=> lock = t
      /\ readerCount = Cardinality(In(Readers))
      /\ writerCount = Cardinality(In(Writers))
      /\ In(Readers) # {} => In(Writers) = {}
      /\ \A t, u \in In(Writers) : t = u
      /\ NoLostWakeup

(* What a writer has loaded is still what is stored.                        *)
CopyInv == job.type # "none" => \A t \in Threads : pc[t] = "store" => copy[t] = shared

Protocols == MutexInv /\ RwlockInv /\ SemInv /\ CdvInv
SyncInv == Basic /\ Protocols /\ CopyInv

(* Nobody is inside with a writer.                                          *)
Excluded == \A t, u \in Inside : t # u => t \notin Writers /\ u \notin Writers

-----------------------------------------------------------------------------
LEMMA JobTypes ==
  ASSUME NEW j \in Jobs
  PROVE  /\ j.type \in {"mtx", "spl", "sem", "cdv", "rwl", "none"}
         /\ j.threads \subseteq Threads /\ j.rounds \in Nat \ {0}
  BY RoundAssumption DEF Jobs, ReadWriteJobs, MtxJobs, SplJobs, SemJobs, CndJobs, ExampleJobs,
     Counting, Threads

(* A step of one thread leaves the others where they are, but for one       *)
(* waiter that CdvSignal wakes.                                             *)
LEMMA OthersStay ==
  ASSUME Basic, NEW t \in Threads, Create(t) \/ Step(t) \/ SpuriousWake(t)
  PROVE  /\ job' = job
         /\ \A u \in Threads : u # t => \/ pc'[u] = pc[u]
                                        \/ CdvSignal(t) /\ pc[u] = "wait" /\ pc'[u] = "woken"
<1> USE DEF Goto, Again, Basic
<1>1. CASE Create(t) \/ SpuriousWake(t)
  BY <1>1 DEF Create, SpuriousWake
<1>2. CASE Section(t) \/ Unprotected(t) \/ MutexEnter(t) \/ MutexLeave(t)
           \/ RwlockEnter(t) \/ RwlockLeave(t)
  BY <1>2 DEF Section, Load, Store, ReadFile, Unprotected, MutexEnter, MutexLeave,
     RwlockEnter, RwlockLeave
<1>3. CASE WriteSem(t) \/ ReadSemEnter(t) \/ ReadSemFirst(t) \/ ReadSemEntered(t)
           \/ ReadSemLeave(t) \/ ReadSemLeft(t)
  BY <1>3 DEF WriteSem, ReadSemEnter, ReadSemFirst, ReadSemEntered, ReadSemLeave, ReadSemLeft
<1>4. CASE CdvLock(t) \/ CdvWait(t) \/ CdvEnter(t)
  BY <1>4 DEF CdvLock, CdvWait, CdvEnter
<1>5. CASE CdvSignal(t)
  BY <1>5 DEF CdvSignal, Waiting
<1> QED BY <1>1, <1>2, <1>3, <1>4, <1>5 DEF Step

LEMMA ExcludedHolds == ASSUME SyncInv, job.type # "none"  PROVE Excluded
<1> USE ThreadAssumption
<1>0. job.type \in {"mtx", "spl", "sem", "cdv", "rwl"}
  BY JobTypes DEF SyncInv, Basic
<1>1. CASE job.type \in {"mtx", "spl"}
  BY <1>1 DEF SyncInv, Basic, Protocols, MutexInv, Excluded, Inside, Section3, CdvLabels
<1>2. CASE job.type = "rwl"
  BY <1>2 DEF SyncInv, Basic, Protocols, RwlockInv, Excluded, Inside, Section3, CdvLabels
<1>3. CASE job.type = "sem"
  <2>1. \A t \in Inside : IF t \in Writers THEN t \in Writing ELSE t \in Passed
    BY <1>3 DEF SyncInv, Basic, Inside, Section3, CdvLabels, Writing, Passed, Threads
  <2> QED BY <1>3, <2>1 DEF SyncInv, Protocols, SemInv, Excluded
<1>4. CASE job.type = "cdv"
  <2>1. \A t \in Inside : IF t \in Writers THEN t \in In(Writers) ELSE t \in In(Readers)
    BY DEF Inside, In, Section3, Threads
  <2> QED BY <1>4, <2>1 DEF SyncInv, Protocols, CdvInv, Excluded
<1> QED BY <1>0, <1>1, <1>2, <1>3, <1>4

-----------------------------------------------------------------------------
(* The steps that each protocol can take.                                   *)
LEMMA StepKinds ==
  ASSUME Basic, NEW t \in Threads, Create(t) \/ Step(t) \/ SpuriousWake(t)
  PROVE  \/ Create(t)
         \/ Section(t)
         \/ job.type = "none" /\ Unprotected(t)
         \/ job.type \in {"mtx", "spl"} /\ (MutexEnter(t) \/ MutexLeave(t))
         \/ job.type = "rwl" /\ (RwlockEnter(t) \/ RwlockLeave(t))
         \/ job.type = "sem" /\ \/ WriteSem(t) \/ ReadSemEnter(t) \/ ReadSemFirst(t)
                                \/ ReadSemEntered(t) \/ ReadSemLeave(t) \/ ReadSemLeft(t)
         \/ job.type = "cdv" /\ \/ CdvLock(t) \/ CdvWait(t) \/ CdvEnter(t)
                                \/ CdvSignal(t) \/ SpuriousWake(t)
<1> USE DEF Basic, SemLabels, CdvLabels, At
<1>1. ASSUME Unprotected(t)  PROVE job.type = "none"
  BY <1>1 DEF Unprotected
<1>2. ASSUME MutexEnter(t) \/ MutexLeave(t)  PROVE job.type \in {"mtx", "spl"}
  BY <1>2 DEF MutexEnter, MutexLeave
<1>3. ASSUME RwlockEnter(t) \/ RwlockLeave(t)  PROVE job.type = "rwl"
  BY <1>3 DEF RwlockEnter, RwlockLeave
<1>4. ASSUME \/ WriteSem(t) \/ ReadSemEnter(t) \/ ReadSemFirst(t)
             \/ ReadSemEntered(t) \/ ReadSemLeave(t) \/ ReadSemLeft(t)
      PROVE  job.type = "sem"
  BY <1>4 DEF WriteSem, ReadSemEnter, ReadSemFirst, ReadSemEntered, ReadSemLeave, ReadSemLeft
<1>5. ASSUME CdvLock(t) \/ CdvWait(t) \/ CdvEnter(t) \/ CdvSignal(t) \/ SpuriousWake(t)
      PROVE  job.type = "cdv"
  BY <1>5 DEF CdvLock, CdvWait, CdvEnter, CdvSignal, SpuriousWake
<1> QED BY <1>1, <1>2, <1>3, <1>4, <1>5 DEF Step

(* A thread inside moves on inside: nothing but the data changes.           *)
LEMMA SectionMoves ==
  ASSUME Basic, NEW t \in Threads, Section(t)
  PROVE  /\ UNCHANGED <<job, ended, left, lock, holders, semaphores, condition>>
         /\ pc[t] \in Section3 /\ pc'[t] \in Section3
         /\ pc' = [pc EXCEPT ![t] = pc'[t]]
  BY DEF Section, Load, Store, ReadFile, Goto, Section3, Basic

LEMMA BasicNext == Basic /\ Next => Basic'
<1> SUFFICES ASSUME Basic, Next  PROVE Basic'
  OBVIOUS
<1>1. CASE Join
  BY <1>1 DEF Join, Basic, semaphores, condition, data
<1>2. ASSUME NEW t \in Threads, Create(t) \/ Step(t) \/ SpuriousWake(t)
      PROVE  Basic'
  <2>0. Rest(t) \in PCs /\ Rest(t) \notin SemLabels \cup CdvLabels \cup {"store"}
    BY DEF Rest, PCs, SemLabels, CdvLabels
  <2> USE DEF Goto, Again, PCs, SemLabels, CdvLabels, At, semaphores, condition, data
  <2>1. CASE Create(t)
    BY <2>1 DEF Create, Basic
  <2>2. CASE Load(t)
    BY <2>2 DEF Load, Basic
  <2>3. CASE Store(t)
    BY <2>3 DEF Store, Basic
  <2>4. CASE ReadFile(t)
    BY <2>4 DEF ReadFile, Basic
  <2>5. CASE Unprotected(t)
    BY <2>0, <2>5 DEF Unprotected, Basic
  <2>6. CASE MutexEnter(t) \/ MutexLeave(t)
    BY <2>0, <2>6 DEF MutexEnter, MutexLeave, Basic
  <2>7. CASE RwlockEnter(t) \/ RwlockLeave(t)
    BY <2>0, <2>7 DEF RwlockEnter, RwlockLeave, Basic
  <2>8. CASE WriteSem(t)
    BY <2>0, <2>8 DEF WriteSem, Basic
  <2>9. CASE ReadSemEnter(t) \/ ReadSemFirst(t) \/ ReadSemEntered(t)
    BY <2>9 DEF ReadSemEnter, ReadSemFirst, ReadSemEntered, Basic
  <2>10. CASE ReadSemLeave(t) \/ ReadSemLeft(t)
    BY <2>0, <2>10 DEF ReadSemLeave, ReadSemLeft, LastPosts, Basic
  <2>11. CASE CdvLock(t) \/ CdvWait(t)
    BY <2>11 DEF CdvLock, CdvWait, Basic
  <2>12. CASE CdvEnter(t)
    BY <2>12 DEF CdvEnter, Counts, Basic
  <2>13. CASE CdvSignal(t)
    <3>1. /\ pc' \in [Threads -> PCs]
          /\ \A u \in Threads : pc'[u] = pc[u] \/ pc'[u] = Rest(t)
                                \/ (pc[u] = "wait" /\ pc'[u] = "woken")
      BY <2>0, <2>13 DEF CdvSignal, Waiting, Basic
    <3> QED BY <2>0, <2>13, <3>1 DEF CdvSignal, Counts, Basic
  <2>14. CASE SpuriousWake(t)
    BY <2>14 DEF SpuriousWake, Basic
  <2> QED BY <1>2, <2>1, <2>2, <2>3, <2>4, <2>5, <2>6, <2>7, <2>8, <2>9, <2>10, <2>11, <2>12,
             <2>13, <2>14 DEF Step, Section
<1> QED BY <1>1, <1>2 DEF Next

LEMMA MutexNext ==
  ASSUME Basic, MutexInv, NEW t \in Threads, Create(t) \/ Step(t) \/ SpuriousWake(t)
  PROVE  MutexInv'
<1>0. job' = job
  BY OthersStay
<1> SUFFICES ASSUME job.type \in {"mtx", "spl"}
             PROVE  \A u \in Threads : pc'[u] \in Section3 <=> lock' = u
  BY <1>0 DEF MutexInv
<1> USE DEF Basic, MutexInv, Section3, Goto, Again, At
<1>1. CASE Create(t)
  BY <1>1 DEF Create
<1>2. CASE Section(t)
  BY <1>2, SectionMoves
<1>3. CASE MutexEnter(t)
  BY <1>3, ThreadAssumption DEF MutexEnter
<1>4. CASE MutexLeave(t)
  BY <1>4, ThreadAssumption DEF MutexLeave, Rest
<1> QED BY <1>1, <1>2, <1>3, <1>4, StepKinds

LEMMA RwlockNext ==
  ASSUME Basic, RwlockInv, NEW t \in Threads, Create(t) \/ Step(t) \/ SpuriousWake(t)
  PROVE  RwlockInv'
<1>0. job' = job
  BY OthersStay
<1> SUFFICES ASSUME job.type = "rwl"
             PROVE  /\ \A u \in Threads : pc'[u] \in Section3 <=> u \in holders'
                    /\ \A w \in Writers \cap holders' : holders' = {w}
  BY <1>0 DEF RwlockInv
<1> USE DEF Basic, RwlockInv, Section3, Goto, Again, At
<1>1. CASE Create(t)
  BY <1>1 DEF Create
<1>2. CASE Section(t)
  BY <1>2, SectionMoves
<1>3. CASE RwlockEnter(t)
  BY <1>3, ThreadAssumption DEF RwlockEnter, Threads
<1>4. CASE RwlockLeave(t)
  BY <1>4, ThreadAssumption DEF RwlockLeave, Rest
<1> QED BY <1>1, <1>2, <1>3, <1>4, StepKinds

-----------------------------------------------------------------------------
(* The numbers of readers that r_count, reader_count and writer_count name. *)
LEMMA CountOne ==
  ASSUME NEW S, IsFiniteSet(S)
  PROVE  /\ Cardinality(S) \in Nat
         /\ Cardinality(S) = 0 <=> S = {}
         /\ \A x \in S : Cardinality(S \ {x}) = Cardinality(S) - 1
         /\ \A x : x \notin S => Cardinality(S \cup {x}) = Cardinality(S) + 1
  BY FS_CardinalityType, FS_EmptySet, FS_RemoveElement, FS_AddElement

LEMMA SemNext ==
  ASSUME IsFiniteSet(Threads), Basic, SemInv,
         NEW t \in Threads, Create(t) \/ Step(t) \/ SpuriousWake(t)
  PROVE  SemInv'
<1>0. job' = job
  BY OthersStay
<1> SUFFICES ASSUME job.type = "sem"  PROVE SemInv'
  BY <1>0 DEF SemInv
<1>1. /\ IsFiniteSet(Group) /\ Group \subseteq Threads
      /\ \A u \in Group : u \in Readers
  <2>1. Group \subseteq Threads
    BY DEF Group, Threads
  <2> QED BY <2>1, FS_Subset DEF Group
<1>2. Passed = {u \in Group : pc[u] # "first"}
  BY DEF Passed, Group, Section3
<1> USE ThreadAssumption DEF Basic, Goto, Again, At
<1>3. CASE Create(t) \/ Section(t)
  <2>1. /\ UNCHANGED semaphores
        /\ \A u \in Threads : /\ Holds(u)' <=> Holds(u)
                              /\ pc'[u] = "first" <=> pc[u] = "first"
                              /\ pc'[u] \in Section3 <=> pc[u] \in Section3
                              /\ pc'[u] = "entered" <=> pc[u] = "entered"
    <3>1. CASE Create(t)
      BY <3>1 DEF Create, Holds, SemLabels, Section3
    <3>2. CASE Section(t)
      BY <3>2, SectionMoves DEF Holds, SemLabels, Section3
    <3> QED BY <1>3, <3>1, <3>2
  <2>2. Group' = Group /\ Passed' = Passed /\ Writing' = Writing
    BY <2>1 DEF Group, Passed, Writing, Threads
  <2> QED BY <1>0, <2>1, <2>2 DEF SemInv, semaphores, Threads
<1>4. CASE WriteSem(t)
  <2>1. /\ Group' = Group /\ Passed' = Passed /\ UNCHANGED <<rSem, rCount>>
        /\ \A u \in Threads : /\ Holds(u)' <=> Holds(u)
                              /\ pc'[u] = "first" <=> pc[u] = "first"
    BY <1>4 DEF WriteSem, Group, Passed, Holds, SemLabels, Rest, Threads
  <2>2. CASE pc[t] = "enter"
    <3>1. wSem = 1 /\ wSem' = 0 /\ Writing = {} /\ Passed = {}
      BY <1>4, <2>2 DEF WriteSem, SemInv
    <3>2. Writing' = {t}
      BY <1>4, <2>2, <3>1 DEF WriteSem, Writing, Section3, Threads
    <3> QED BY <1>0, <2>1, <3>1, <3>2 DEF SemInv, Threads
  <2>3. CASE pc[t] = "leave"
    <3>1. t \in Writing
      BY <1>4, <2>3 DEF WriteSem, Writing, Section3
    <3>2. wSem = 0 /\ wSem' = 1 /\ Writing = {t} /\ Passed = {}
      BY <1>4, <2>3, <3>1 DEF WriteSem, SemInv
    <3>3. Writing' = {}
      BY <1>4, <2>3, <3>2 DEF WriteSem, Writing, Section3, Threads, Rest
    <3> QED BY <1>0, <2>1, <3>2, <3>3 DEF SemInv, Threads
  <2> QED BY <1>4, <2>2, <2>3 DEF WriteSem
<1>5. CASE ReadSemEnter(t)
  <2>1. /\ rSem = 1 /\ rSem' = 0 /\ wSem' = wSem /\ rCount' = rCount + 1
        /\ t \in Readers /\ t \notin Group /\ \A u \in Threads : ~Holds(u)
        /\ pc' = [pc EXCEPT ![t] = IF rCount' = 1 THEN "first" ELSE "entered"]
    BY <1>5 DEF ReadSemEnter, SemInv, Group, Section3
  <2>2. Group' = Group \cup {t} /\ Writing' = Writing
    BY <2>1 DEF Group, Writing, Threads, Section3
  <2>3. rCount' = Cardinality(Group') /\ (rCount = 0 <=> Group = {})
    BY <1>1, <2>1, <2>2, CountOne DEF SemInv
  <2>4. \A u \in Threads : /\ Holds(u)' => u = t
                           /\ pc'[u] = "first" => u = t /\ rCount' = 1
    BY <2>1 DEF Holds, SemLabels
  <2>5. \A u \in Group : pc[u] # "first"
    BY <1>1, <2>1 DEF Holds, SemLabels, Threads
  <2>6. CASE rCount' = 1
    <3>1. Group' = {t} /\ Passed = {} /\ Passed' = {}
      <4>1. Group = {}
        BY <2>1, <2>3, <2>6
      <4> QED BY <1>2, <2>1, <2>2, <2>6, <4>1 DEF Passed, Group, Section3
    <3> QED BY <1>0, <2>1, <2>2, <2>3, <2>4, <3>1 DEF SemInv, Threads
  <2>7. CASE rCount' # 1
    <3>1. Passed # {} /\ Writing = {} /\ wSem = 0
      BY <1>2, <2>1, <2>3, <2>5, <2>7 DEF SemInv
    <3> QED BY <1>0, <2>1, <2>2, <2>3, <2>4, <2>7, <3>1 DEF SemInv, Threads
  <2> QED BY <2>6, <2>7
<1>6. CASE ReadSemFirst(t)
  <2>1. /\ wSem = 1 /\ wSem' = 0 /\ UNCHANGED <<rSem, rCount>>
        /\ t \in Readers /\ pc[t] = "first" /\ pc' = [pc EXCEPT ![t] = "entered"]
        /\ Writing = {} /\ Passed = {} /\ Group = {t}
    BY <1>6 DEF ReadSemFirst, SemInv, SemLabels
  <2>2. Group' = {t} /\ Writing' = {} /\ Passed' = {t}
    BY <2>1 DEF Group, Writing, Passed, Threads, Section3
  <2>3. \A u \in Threads : (Holds(u)' <=> Holds(u)) /\ (pc'[u] = "first" => pc[u] = "first")
    BY <2>1 DEF Holds, SemLabels
  <2> QED BY <1>0, <2>1, <2>2, <2>3 DEF SemInv, Threads
<1>7. CASE ReadSemEntered(t)
  <2>1. /\ rSem = 0 /\ rSem' = 1 /\ UNCHANGED <<wSem, rCount>>
        /\ t \in Readers /\ pc[t] = "entered" /\ pc' = [pc EXCEPT ![t] = "in"]
        /\ \A u \in Threads : Holds(u) => u = t
    BY <1>7 DEF ReadSemEntered, SemInv, SemLabels, Holds
  <2>2. Group' = Group /\ Writing' = Writing /\ Passed' = Passed
    BY <2>1 DEF Group, Writing, Passed, Threads, Section3
  <2>3. \A u \in Threads : ~Holds(u)' /\ pc'[u] # "first"
    BY <2>1 DEF Holds, SemLabels
  <2> QED BY <1>0, <2>1, <2>2, <2>3 DEF SemInv, Threads
<1>8. CASE ReadSemLeave(t)
  <2>1. /\ rSem = 1 /\ rSem' = 0 /\ rCount' = rCount - 1 /\ wSem' = LastPosts
        /\ t \in Readers /\ t \in Group /\ t \in Passed /\ \A u \in Threads : ~Holds(u)
        /\ pc' = [pc EXCEPT ![t] = "left"]
    BY <1>8 DEF ReadSemLeave, SemInv, Group, Passed, Section3
  <2>2. /\ Group' = Group \ {t} /\ Passed' = Passed \ {t}
        /\ Writing' = Writing /\ Writing = {} /\ wSem = 0
    BY <2>1 DEF Group, Writing, Passed, Threads, Section3, SemInv
  <2>3. rCount' = Cardinality(Group') /\ (rCount' = 0 <=> Group' = {})
    <3>1. rCount = Cardinality(Group) /\ Cardinality(Group \ {t}) = Cardinality(Group) - 1
      BY <1>1, <2>1, CountOne DEF SemInv
    <3>2. IsFiniteSet(Group \ {t})
      BY <1>1, FS_Subset
    <3>3. Cardinality(Group \ {t}) = 0 <=> Group \ {t} = {}
      BY <3>2, CountOne
    <3> QED BY <2>1, <2>2, <3>1, <3>3
  <2>4. \A u \in Threads : (Holds(u)' => u = t) /\ pc'[u] # "first"
    BY <2>1 DEF Holds, SemLabels
  <2>5. wSem' \in {0, 1} /\ (wSem' = 1 => Passed' = {})
    BY <1>2, <2>1, <2>2, <2>3 DEF LastPosts
  <2> QED BY <1>0, <2>1, <2>2, <2>3, <2>4, <2>5 DEF SemInv, Threads
<1>9. CASE ReadSemLeft(t)
  <2>1. /\ rSem = 0 /\ rSem' = 1 /\ UNCHANGED <<wSem, rCount>>
        /\ t \in Readers /\ pc[t] = "left" /\ pc' = [pc EXCEPT ![t] = Rest(t)]
        /\ \A u \in Threads : Holds(u) => u = t
    BY <1>9 DEF ReadSemLeft, SemInv, SemLabels, Holds
  <2>2. Group' = Group /\ Writing' = Writing /\ Passed' = Passed
    BY <2>1 DEF Group, Writing, Passed, Threads, Section3, Rest
  <2>3. \A u \in Threads : ~Holds(u)' /\ pc'[u] # "first"
    BY <2>1 DEF Holds, SemLabels, Rest
  <2> QED BY <1>0, <2>1, <2>2, <2>3 DEF SemInv, Threads
<1> QED BY <1>3, <1>4, <1>5, <1>6, <1>7, <1>8, <1>9, StepKinds

LEMMA CdvNext ==
  ASSUME IsFiniteSet(Threads), Basic, CdvInv,
         NEW t \in Threads, Create(t) \/ Step(t) \/ SpuriousWake(t)
  PROVE  CdvInv'
<1>0. job' = job
  BY OthersStay
<1> SUFFICES ASSUME job.type = "cdv"  PROVE CdvInv'
  BY <1>0 DEF CdvInv
<1>1. IsFiniteSet(In(Readers)) /\ IsFiniteSet(In(Writers))
  <2>1. In(Readers) \subseteq Threads /\ In(Writers) \subseteq Threads
    BY DEF In, Threads
  <2> QED BY <2>1, FS_Subset
<1>2. (readerCount = 0 <=> In(Readers) = {}) /\ (writerCount = 0 <=> In(Writers) = {})
      /\ readerCount \in Nat /\ writerCount \in Nat
  BY <1>1, CountOne DEF CdvInv
<1>3. Inside = In(Readers) \cup In(Writers)
  BY DEF Inside, In, Section3, Threads
<1> USE ThreadAssumption DEF Basic, Goto, Again, At
<1>4. CASE Create(t) \/ Section(t)
  <2>1. /\ UNCHANGED <<lock, condition>>
        /\ \A u \in Threads : /\ pc'[u] \in CdvLabels => pc'[u] = pc[u]
                              /\ pc[u] \in CdvLabels => pc'[u] = pc[u]
                              /\ pc'[u] \in Section3 <=> pc[u] \in Section3
    <3>1. CASE Create(t)
      BY <3>1 DEF Create, CdvLabels, Section3
    <3>2. CASE Section(t)
      BY <3>2, SectionMoves DEF CdvLabels, Section3
    <3> QED BY <1>4, <3>1, <3>2
  <2>2. In(Readers)' = In(Readers) /\ In(Writers)' = In(Writers) /\ Waiting' = Waiting
    BY <2>1 DEF In, Waiting, Threads, CdvLabels
  <2>3. NoLostWakeup'
    BY <1>3, <2>1, <2>2 DEF CdvInv, NoLostWakeup, Inside, In, CdvLabels, Section3
  <2> QED BY <1>0, <2>1, <2>2, <2>3 DEF CdvInv, condition, CdvLabels
<1>5. CASE CdvLock(t)
  <2>1. /\ lock = NoOne /\ lock' = t /\ UNCHANGED condition
        /\ \/ pc[t] \in {"enter", "woken"} /\ pc' = [pc EXCEPT ![t] = "test"]
           \/ pc[t] = "leave" /\ pc' = [pc EXCEPT ![t] = "signal"]
    BY <1>5 DEF CdvLock
  <2>2. In(Readers)' = In(Readers) /\ In(Writers)' = In(Writers)
    BY <2>1 DEF In, Section3, Threads
  <2>3. \A u \in Threads : pc'[u] \in {"test", "signal"} <=> lock' = u
    BY <2>1 DEF CdvInv
  <2>4. NoLostWakeup'
    BY <2>1 DEF NoLostWakeup, Inside
  <2> QED BY <1>0, <2>1, <2>2, <2>3, <2>4 DEF CdvInv, condition
<1>6. CASE CdvWait(t)
  <2>1. /\ lock' = NoOne /\ UNCHANGED condition
        /\ pc[t] = "test" /\ pc' = [pc EXCEPT ![t] = "wait"] /\ Blocked(t)
    BY <1>6 DEF CdvWait
  <2>2. In(Readers)' = In(Readers) /\ In(Writers)' = In(Writers)
    BY <2>1 DEF In, Section3, Threads
  <2>3. \A u \in Threads : pc'[u] \in {"test", "signal"} <=> lock' = u
    BY <2>1 DEF CdvInv
  <2>4. NoLostWakeup'
    <3>1. PICK u \in Inside : TRUE
      BY <1>2, <1>3, <2>1 DEF Blocked
    <3>2. u \in Threads /\ u \in Inside'
      BY <2>1, <3>1 DEF Inside
    <3> QED BY <3>2 DEF NoLostWakeup
  <2> QED BY <1>0, <2>1, <2>2, <2>3, <2>4 DEF CdvInv, condition
<1>7. CASE CdvEnter(t)
  <2>1. /\ lock' = NoOne /\ Counts(t, 1)
        /\ pc[t] = "test" /\ pc' = [pc EXCEPT ![t] = "in"] /\ ~Blocked(t)
    BY <1>7 DEF CdvEnter
  <2>2. /\ In(Writers) = {} /\ (t \in Writers => In(Readers) = {})
        /\ t \notin In(Readers) /\ t \notin In(Writers)
    BY <1>2, <2>1 DEF Blocked, In, Section3
  <2>3. /\ In(Readers)' = IF t \in Writers THEN In(Readers) ELSE In(Readers) \cup {t}
        /\ In(Writers)' = IF t \in Writers THEN In(Writers) \cup {t} ELSE In(Writers)
    BY <2>1, <2>2 DEF In, Section3, Threads
  <2>4. readerCount' = Cardinality(In(Readers)') /\ writerCount' = Cardinality(In(Writers)')
    <3>1. /\ Cardinality(In(Readers) \cup {t}) = readerCount + 1
          /\ Cardinality(In(Writers) \cup {t}) = writerCount + 1
      BY <1>1, <2>2, CountOne DEF CdvInv
    <3> QED BY <2>1, <2>3, <3>1 DEF Counts, CdvInv
  <2>5. \A u \in Threads : pc'[u] \in {"test", "signal"} <=> lock' = u
    BY <2>1 DEF CdvInv
  <2>6. NoLostWakeup'
    BY <2>1 DEF NoLostWakeup, Inside
  <2>7. /\ In(Readers)' # {} => In(Writers)' = {}
        /\ \A u, v \in In(Writers)' : u = v
    BY <2>2, <2>3
  <2> QED BY <1>0, <2>4, <2>5, <2>6, <2>7 DEF CdvInv
<1>8. CASE CdvSignal(t)
  <2>1. /\ lock' = NoOne /\ Counts(t, -1) /\ pc[t] = "signal"
        /\ pc' \in [Threads -> PCs] /\ pc'[t] = Rest(t)
        /\ \A u \in Threads : u # t => \/ pc'[u] = pc[u]
                                       \/ pc[u] = "wait" /\ pc'[u] = "woken"
        /\ Waiting # {} => \E u \in Threads : pc'[u] = "woken"
    BY <1>8 DEF CdvSignal, Waiting, Rest, PCs
  <2>2. /\ In(Readers)' = In(Readers) \ {t} /\ In(Writers)' = In(Writers) \ {t}
        /\ IF t \in Writers THEN t \in In(Writers) /\ t \notin In(Readers)
                            ELSE t \in In(Readers) /\ t \notin In(Writers)
    BY <2>1 DEF In, Section3, Threads, Rest
  <2>3. readerCount' = Cardinality(In(Readers)') /\ writerCount' = Cardinality(In(Writers)')
    <3>1. CASE t \in Writers
      <4>1. Cardinality(In(Writers) \ {t}) = writerCount - 1 /\ In(Readers) \ {t} = In(Readers)
        BY <1>1, <2>2, <3>1, CountOne DEF CdvInv
      <4> QED BY <2>1, <2>2, <3>1, <4>1 DEF Counts, CdvInv
    <3>2. CASE t \notin Writers
      <4>1. Cardinality(In(Readers) \ {t}) = readerCount - 1 /\ In(Writers) \ {t} = In(Writers)
        BY <1>1, <2>2, <3>2, CountOne DEF CdvInv
      <4> QED BY <2>1, <2>2, <3>2, <4>1 DEF Counts, CdvInv
    <3> QED BY <3>1, <3>2
  <2>4. \A u \in Threads : pc'[u] \in {"test", "signal"} <=> lock' = u
    BY <2>1 DEF CdvInv, Rest
  <2>5. NoLostWakeup'
    <3>1. Waiting' \subseteq Waiting
      BY <2>1 DEF Waiting, Rest
    <3> QED BY <2>1, <3>1 DEF NoLostWakeup
  <2> QED BY <1>0, <2>2, <2>3, <2>4, <2>5 DEF CdvInv
<1>9. CASE SpuriousWake(t)
  <2>1. /\ UNCHANGED <<lock, condition>>
        /\ pc[t] = "wait" /\ pc' = [pc EXCEPT ![t] = "woken"]
    BY <1>9 DEF SpuriousWake
  <2>2. In(Readers)' = In(Readers) /\ In(Writers)' = In(Writers)
    BY <2>1 DEF In, Section3, Threads
  <2>3. \A u \in Threads : pc'[u] \in {"test", "signal"} <=> lock' = u
    BY <2>1 DEF CdvInv
  <2>4. NoLostWakeup'
    BY <2>1 DEF NoLostWakeup
  <2> QED BY <1>0, <2>1, <2>2, <2>3, <2>4 DEF CdvInv, condition
<1> QED BY <1>4, <1>5, <1>6, <1>7, <1>8, <1>9, StepKinds

-----------------------------------------------------------------------------
(* What a writer has loaded nobody changes, since nobody else is inside.    *)
LEMMA CopyNext ==
  ASSUME SyncInv, NEW t \in Threads, Create(t) \/ Step(t) \/ SpuriousWake(t)
  PROVE  CopyInv'
<1>0. job' = job
  BY OthersStay DEF SyncInv
<1> SUFFICES ASSUME job.type # "none", NEW u \in Threads, pc'[u] = "store"
             PROVE  copy'[u] = shared'
  BY <1>0 DEF CopyInv
<1>1. CASE Section(t)
  <2>1. CASE u = t
    BY <1>1, <2>1 DEF Section, Load, Store, ReadFile, Goto, SyncInv, Basic
  <2>2. CASE u # t
    <3>1. pc[u] = "store" /\ u \in Writers /\ u \in Inside /\ t \in Inside
      BY <1>1, <2>2, SectionMoves DEF SyncInv, Basic, Inside, Section3
    <3> QED BY <2>2, <3>1, ExcludedHolds DEF Excluded
  <2> QED BY <2>1, <2>2
<1>2. CASE ~Section(t)
  <2>1. UNCHANGED data /\ (pc'[t] # "store")
    BY <1>2 DEF Create, Step, Unprotected, MutexEnter, MutexLeave, RwlockEnter, RwlockLeave,
       WriteSem, ReadSemEnter, ReadSemFirst, ReadSemEntered, ReadSemLeave, ReadSemLeft,
       CdvLock, CdvWait, CdvEnter, CdvSignal, SpuriousWake, Goto, Again, Rest, SyncInv, Basic,
       Waiting
  <2>2. u # t /\ pc[u] = "store"
    BY <2>1, OthersStay DEF SyncInv
  <2> QED BY <2>1, <2>2 DEF SyncInv, CopyInv, data
<1> QED BY <1>1, <1>2

-----------------------------------------------------------------------------
LEMMA SyncInit == Init => SyncInv
<1> SUFFICES ASSUME Init  PROVE SyncInv
  OBVIOUS
<1>1. Basic
  <2>1. /\ job \in Jobs /\ job.rounds \in Int
        /\ pc = [t \in Threads |-> "new"] /\ left = [t \in Threads |-> job.rounds]
        /\ copy = [t \in Threads |-> 0]
    BY JobTypes DEF Init
  <2>2. pc \in [Threads -> PCs] /\ left \in [Threads -> Int] /\ copy \in [Threads -> Nat]
    BY <2>1 DEF PCs
  <2>3. ended \in BOOLEAN /\ lock \in Threads \cup {NoOne} /\ holders \subseteq Threads
    BY DEF Init
  <2>4. \A t \in Threads : pc[t] \notin SemLabels \cup CdvLabels \cup {"store"}
    BY <2>1 DEF SemLabels, CdvLabels
  <2> QED BY <2>1, <2>2, <2>3, <2>4 DEF Init, Basic
<1>2. MutexInv /\ RwlockInv /\ CopyInv
  BY ThreadAssumption DEF Init, MutexInv, RwlockInv, CopyInv, Section3
<1>3. Group = {} /\ Passed = {} /\ Writing = {} /\ In(Readers) = {} /\ In(Writers) = {}
  BY DEF Init, Group, Passed, Writing, In, Section3, Threads
<1>4. SemInv
  BY <1>3, FS_EmptySet DEF Init, SemInv, Holds, SemLabels, Threads
<1>5. CdvInv
  BY <1>3, FS_EmptySet, ThreadAssumption DEF Init, CdvInv, NoLostWakeup, Waiting
<1> QED BY <1>1, <1>2, <1>4, <1>5 DEF SyncInv, Protocols

LEMMA SyncNext ==
  ASSUME IsFiniteSet(Threads)  PROVE SyncInv /\ [Next]_vars => SyncInv'
<1> SUFFICES ASSUME SyncInv, [Next]_vars  PROVE SyncInv'
  OBVIOUS
<1>1. CASE UNCHANGED <<job, pc, left, lock, holders, semaphores, condition, data>>
           /\ ended' \in BOOLEAN
  BY <1>1 DEF SyncInv, Protocols, Basic, MutexInv, RwlockInv, SemInv, CdvInv, CopyInv,
     NoLostWakeup, Waiting, Inside, Holds, Group, Passed, Writing, In, semaphores, condition, data
<1>2. CASE Join
  BY <1>1, <1>2 DEF Join
<1>3. CASE UNCHANGED vars
  BY <1>1, <1>3 DEF vars, SyncInv, Basic
<1>4. ASSUME NEW t \in Threads, Create(t) \/ Step(t) \/ SpuriousWake(t)
      PROVE  SyncInv'
  <2>1. Basic'
    BY <1>4, BasicNext DEF SyncInv, Next
  <2>2. Protocols'
    BY <1>4, MutexNext, RwlockNext, SemNext, CdvNext DEF SyncInv, Protocols
  <2> QED BY <1>4, <2>1, <2>2, CopyNext DEF SyncInv
<1> QED BY <1>2, <1>3, <1>4 DEF Next

(* With the condition variable one signal at each exit is enough, for any   *)
(* number of readers, writers and rounds and with spurious wake-ups: while  *)
(* a thread waits, another one will signal or is about to look.             *)
THEOREM NoWakeupLost ==
  ASSUME IsFiniteSet(Threads)  PROVE Spec => []NoLostWakeup
<1>1. SyncInv => NoLostWakeup
  <2> SUFFICES ASSUME SyncInv, Waiting # {}  PROVE NoLostWakeup
    BY DEF NoLostWakeup
  <2>1. job.type = "cdv"
    BY DEF SyncInv, Basic, Waiting, CdvLabels
  <2> QED BY <2>1 DEF SyncInv, Protocols, CdvInv
<1> QED BY <1>1, SyncInit, SyncNext, PTL DEF Spec

(* Under every protocol a writer is inside alone.                           *)
THEOREM MutualExclusion ==
  ASSUME IsFiniteSet(Threads)  PROVE Spec => [](job.type # "none" => Excluded)
<1>1. SyncInv => (job.type # "none" => Excluded)
  BY ExcludedHolds
<1> QED BY <1>1, SyncInit, SyncNext, PTL DEF Spec

-----------------------------------------------------------------------------
(* What a step does to the threads inside and to the shared variable.       *)
LEMMA InsideMoves ==
  ASSUME Basic, NEW t \in Threads, Create(t) \/ Step(t) \/ SpuriousWake(t)
  PROVE  \/ Inside' = Inside /\ shared' = shared
         \/ t \notin Inside /\ Inside' = Inside \cup {t} /\ shared' = shared
         \/ t \in Inside /\ Inside' = Inside \ {t} /\ shared' = shared
         \/ t \in Inside /\ Inside' = Inside /\ Store(t)
<1> USE DEF Basic, Goto, Again, At, data, Rest
<1>1. CASE Create(t) \/ SpuriousWake(t)
  BY <1>1 DEF Create, SpuriousWake, Inside
<1>2. CASE Load(t) \/ ReadFile(t)
  BY <1>2 DEF Load, ReadFile, Inside
<1>3. CASE Store(t)
  BY <1>3 DEF Store, Inside
<1>4. CASE MutexEnter(t) \/ MutexLeave(t)
  BY <1>4 DEF MutexEnter, MutexLeave, Inside
<1>5. CASE RwlockEnter(t) \/ RwlockLeave(t) \/ Unprotected(t)
  BY <1>5 DEF RwlockEnter, RwlockLeave, Unprotected, Inside
<1>6. CASE WriteSem(t) \/ ReadSemEnter(t) \/ ReadSemFirst(t)
  BY <1>6 DEF WriteSem, ReadSemEnter, ReadSemFirst, Inside
<1>7. CASE ReadSemEntered(t) \/ ReadSemLeave(t) \/ ReadSemLeft(t)
  BY <1>7 DEF ReadSemEntered, ReadSemLeave, ReadSemLeft, Inside
<1>8. CASE CdvLock(t) \/ CdvWait(t) \/ CdvEnter(t)
  BY <1>8 DEF CdvLock, CdvWait, CdvEnter, Inside
<1>9. CASE CdvSignal(t)
  <2>1. /\ pc[t] = "signal" /\ pc'[t] \in {"enter", "exit"} /\ shared' = shared
        /\ \A u \in Threads : u # t => \/ pc'[u] = pc[u]
                                       \/ pc[u] = "wait" /\ pc'[u] = "woken"
    BY <1>9 DEF CdvSignal, Waiting
  <2> QED BY <2>1 DEF Inside
<1> QED BY <1>1, <1>2, <1>3, <1>4, <1>5, <1>6, <1>7, <1>8, <1>9 DEF Step, Section

(* The labs implement the shared resource: every step enters, writes,       *)
(* leaves or does not show; no reader is ever inside with a writer, no two  *)
(* writers are, and each write adds one to the value the last one left.     *)
THEOREM LabsImplementResource ==
  ASSUME IsFiniteSet(Threads)  PROVE Spec => ImplementsResource
<1> DEFINE Protected == job.type # "none" => Excluded
<1>1. Init => Resource!Init
  BY DEF Init, Resource!Init, Inside
<1>2. SyncInv /\ Protected' /\ [Next]_vars => [Resource!Next]_(Resource!vars)
  <2> SUFFICES ASSUME SyncInv, Protected', [Next]_vars
               PROVE  Resource!Next \/ UNCHANGED Resource!vars
    BY DEF Resource!vars
  <2>1. CASE Join \/ UNCHANGED vars
    BY <2>1 DEF Join, vars, data, Inside, Resource!vars
  <2>2. ASSUME NEW t \in Threads, Create(t) \/ Step(t) \/ SpuriousWake(t)
        PROVE  Resource!Next \/ UNCHANGED Resource!vars
    <3>1. job' = job /\ shared \in Nat /\ shared' \in Nat /\ t \in Readers \cup Writers
      <4>1. Next
        BY <2>2 DEF Next
      <4>2. Basic'
        BY <4>1, BasicNext DEF SyncInv
      <4>3. job' = job
        BY <2>2, OthersStay DEF SyncInv
      <4> QED BY <4>2, <4>3 DEF SyncInv, Basic, Threads
    <3>2. CASE Inside' = Inside /\ shared' = shared
      BY <3>1, <3>2 DEF Resource!vars
    <3>3. CASE t \notin Inside /\ Inside' = Inside \cup {t} /\ shared' = shared
      <4>1. (job.type # "none") => Resource!Admits(t)
        <5> SUFFICES ASSUME job.type # "none"  PROVE Resource!Admits(t)
          OBVIOUS
        <5>1. \A u, v \in Inside' : u # v => u \notin Writers /\ v \notin Writers
          BY <3>1 DEF Excluded
        <5> QED BY <3>3, <5>1 DEF Resource!Admits
      <4> QED BY <3>1, <3>3, <4>1 DEF Resource!Enter, Resource!Next
    <3>4. CASE t \in Inside /\ Inside' = Inside \ {t} /\ shared' = shared
      BY <3>1, <3>4 DEF Resource!Leave, Resource!Next
    <3>5. CASE t \in Inside /\ Inside' = Inside /\ Store(t)
      <4>1. t \in Writers /\ shared' = copy[t] + 1 /\ (job.type # "none" => copy[t] = shared)
        BY <3>5 DEF Store, SyncInv, Basic, CopyInv
      <4> QED BY <3>1, <3>5, <4>1 DEF Resource!Write, Resource!Next
    <3> QED BY <2>2, <3>2, <3>3, <3>4, <3>5, InsideMoves DEF SyncInv
  <2> QED BY <2>1, <2>2 DEF Next
<1>3. SyncInv => Protected
  BY ExcludedHolds
<1> HIDE DEF Protected
<1> QED BY <1>1, <1>2, <1>3, SyncInit, SyncNext, PTL
      DEF Spec, ImplementsResource, Resource!Spec

-----------------------------------------------------------------------------
(* What the programs report.  A write is a writer and the number of rounds  *)
(* it had left: Done are those whose store has happened.                    *)
Stored == {"leave", "signal"}
DoneBy(t, k) == k > left[t] \/ (k = left[t] /\ pc[t] \in Stored)
Writes == Writers \X (1..job.rounds)
Done == {s \in Writes : DoneBy(s[1], s[2])}

(* A primitive that the program does not use is as it was initialized.      *)
Untouched ==
    /\ job.type # "sem" => rSem = 1 /\ wSem = 1 /\ rCount = 0
    /\ job.type # "cdv" => readerCount = 0 /\ writerCount = 0

(* The rounds a thread has left, and the end of the program.                *)
RoundInv ==
    /\ \A t \in Threads : left[t] \in 0..job.rounds /\ (left[t] = 0 <=> pc[t] = "exit")
    /\ ended => \A t \in Writers : pc[t] = "exit"

(* No increment is counted twice; under a protocol none is lost.            *)
CountInv ==
    /\ shared <= Cardinality(Done)
    /\ \A t \in Writers : pc[t] = "store" => copy[t] <= Cardinality(Done)
    /\ job.type # "none" => shared = Cardinality(Done)

(* The first store leaves at least 1, which every later round loads: the    *)
(* last store of all is some writer's last, and leaves at least 2.          *)
AtLeastTwo ==
    /\ Done # {} => shared >= 1
    /\ \A t \in Writers : pc[t] = "store" /\ left[t] < job.rounds => copy[t] >= 1
    /\ job.rounds >= 2 /\ Writers # {} => shared >= 2 \/ \E t \in Writers : ~DoneBy(t, 1)

ResultInv == Untouched /\ RoundInv /\ CountInv /\ AtLeastTwo

LEMMA JobRounds ==
  ASSUME NEW j \in Jobs
  PROVE  /\ Writers \subseteq j.threads
         /\ j.rounds \in 1..Rounds
  BY RoundAssumption DEF Jobs, ReadWriteJobs, MtxJobs, SplJobs, SemJobs, CndJobs, ExampleJobs,
     Counting, Threads

LEMMA UntouchedNext ==
  ASSUME Basic, Untouched, NEW t \in Threads, Create(t) \/ Step(t) \/ SpuriousWake(t)
  PROVE  Untouched'
<1>0. job' = job
  BY OthersStay
<1>1. UNCHANGED semaphores \/ job.type = "sem"
  BY StepKinds DEF Create, Section, Load, Store, ReadFile, Unprotected, MutexEnter, MutexLeave,
     RwlockEnter, RwlockLeave, CdvLock, CdvWait, CdvEnter, CdvSignal, SpuriousWake
<1>2. UNCHANGED condition \/ job.type = "cdv"
  BY StepKinds DEF Create, Section, Load, Store, ReadFile, Unprotected, MutexEnter, MutexLeave,
     RwlockEnter, RwlockLeave, WriteSem, ReadSemEnter, ReadSemFirst, ReadSemEntered,
     ReadSemLeave, ReadSemLeft
<1> QED BY <1>0, <1>1, <1>2 DEF Untouched, semaphores, condition

(* What a step does to the round of its thread: it loads, it stores, it     *)
(* moves on within the round, or it ends the round.                         *)
LEMMA RoundMoves ==
  ASSUME Basic, NEW t \in Threads, Create(t) \/ Step(t) \/ SpuriousWake(t)
  PROVE  /\ ended' = ended
         /\ \/ Load(t)
            \/ Store(t)
            \/ /\ UNCHANGED <<data, left>> /\ pc[t] # "exit" /\ pc'[t] \notin {"exit", "store"}
               /\ t \in Writers => (pc'[t] \in Stored <=> pc[t] \in Stored)
            \/ /\ UNCHANGED data /\ pc[t] # "exit" /\ pc'[t] = Rest(t)
               /\ left' = [left EXCEPT ![t] = @ - 1]
               /\ t \in Writers => pc[t] \in Stored
<1> USE DEF Basic, Goto, Again, At, Stored, SemLabels, CdvLabels
<1>0. t \in Writers => t \notin Readers
  BY ThreadAssumption
<1>1. CASE Create(t) \/ SpuriousWake(t)
  BY <1>1 DEF Create, SpuriousWake
<1>2. CASE Load(t) \/ Store(t)
  BY <1>2 DEF Load, Store
<1>3. CASE ReadFile(t)
  BY <1>0, <1>3 DEF ReadFile
<1>4. CASE Unprotected(t)
  BY <1>4 DEF Unprotected
<1>5. CASE MutexEnter(t) \/ MutexLeave(t)
  BY <1>5 DEF MutexEnter, MutexLeave
<1>6. CASE RwlockEnter(t) \/ RwlockLeave(t)
  BY <1>6 DEF RwlockEnter, RwlockLeave
<1>7. CASE WriteSem(t)
  BY <1>7 DEF WriteSem
<1>8. CASE ReadSemEnter(t) \/ ReadSemFirst(t) \/ ReadSemEntered(t)
  BY <1>0, <1>8 DEF ReadSemEnter, ReadSemFirst, ReadSemEntered
<1>9. CASE ReadSemLeave(t) \/ ReadSemLeft(t)
  BY <1>0, <1>9 DEF ReadSemLeave, ReadSemLeft
<1>10. CASE CdvLock(t) \/ CdvWait(t) \/ CdvEnter(t)
  BY <1>10 DEF CdvLock, CdvWait, CdvEnter
<1>11. CASE CdvSignal(t)
  <2>1. pc[t] = "signal" /\ pc'[t] = Rest(t)
    BY <1>11 DEF CdvSignal, Waiting
  <2> QED BY <1>11, <2>1 DEF CdvSignal
<1> QED BY <1>1, <1>2, <1>3, <1>4, <1>5, <1>6, <1>7, <1>8, <1>9, <1>10, <1>11 DEF Step, Section

LEMMA RoundNext ==
  ASSUME Basic, RoundInv, NEW t \in Threads, Create(t) \/ Step(t) \/ SpuriousWake(t)
  PROVE  RoundInv'
<1>0. /\ job' = job /\ ended' = ended /\ job.rounds \in Nat /\ Writers \subseteq Threads
      /\ \A u \in Threads : u # t => \/ pc'[u] = pc[u]
                                     \/ pc[u] = "wait" /\ pc'[u] = "woken"
  BY OthersStay, RoundMoves, JobTypes DEF Basic, Threads
<1>1. /\ pc[t] # "exit"
      /\ left'[t] \in 0..job.rounds /\ (left'[t] = 0 <=> pc'[t] = "exit")
      /\ \A u \in Threads : u # t => left'[u] = left[u]
  <2>1. CASE Load(t) \/ Store(t)
    BY <1>0, <2>1 DEF Load, Store, Goto, Basic, RoundInv
  <2>2. CASE UNCHANGED left /\ pc[t] # "exit" /\ pc'[t] # "exit"
    BY <1>0, <2>2 DEF RoundInv
  <2>3. CASE /\ pc[t] # "exit" /\ pc'[t] = Rest(t)
             /\ left' = [left EXCEPT ![t] = @ - 1]
    <3>1. left[t] \in 1..job.rounds /\ left'[t] = left[t] - 1
      BY <1>0, <2>3 DEF RoundInv, Basic
    <3> QED BY <1>0, <2>3, <3>1 DEF RoundInv, Rest, Basic
  <2> QED BY <2>1, <2>2, <2>3, RoundMoves
<1> QED BY <1>0, <1>1 DEF RoundInv

(* A store adds one write to those done, and no other step does.            *)
LEMMA DoneMoves ==
  ASSUME Basic, RoundInv, NEW t \in Threads, Create(t) \/ Step(t) \/ SpuriousWake(t)
  PROVE  IF Store(t) THEN /\ t \in Writers /\ left[t] \in 1..job.rounds
                          /\ <<t, left[t]>> \in Writes \ Done
                          /\ Done' = Done \cup {<<t, left[t]>>}
                     ELSE Done' = Done
<1>0. /\ job' = job /\ job.rounds \in Nat /\ Writers \subseteq Threads
      /\ \A u \in Threads : u # t => /\ left'[u] = left[u]
                                     /\ pc'[u] \in Stored <=> pc[u] \in Stored
  <2>1. \A u \in Threads : u # t => left'[u] = left[u]
    BY RoundMoves DEF Load, Store, Basic
  <2> QED BY <2>1, OthersStay, JobTypes DEF Basic, Threads, Stored
<1>1. Writes' = Writes
  BY <1>0 DEF Writes
<1>2. \A u \in Writers, k \in 1..job.rounds : u # t => (DoneBy(u, k)' <=> DoneBy(u, k))
  BY <1>0 DEF DoneBy
<1>3. left[t] \in 0..job.rounds /\ (left[t] = 0 <=> pc[t] = "exit")
  BY DEF RoundInv
<1>4. CASE Store(t)
  <2>1. /\ pc[t] = "store" /\ pc'[t] = "leave" /\ left' = left /\ t \in Writers
    BY <1>4 DEF Store, Goto, Basic
  <2>2. left[t] \in 1..job.rounds
    BY <1>0, <1>3, <2>1
  <2>3. \A k \in 1..job.rounds : /\ DoneBy(t, k) <=> k > left[t]
                                 /\ DoneBy(t, k)' <=> k > left[t] \/ k = left[t]
    BY <2>1 DEF DoneBy, Stored
  <2>4. <<t, left[t]>> \in Writes \ Done
    BY <2>1, <2>2, <2>3 DEF Writes, Done
  <2>5. \A u \in Writers, k \in 1..job.rounds :
          DoneBy(u, k)' <=> DoneBy(u, k) \/ (u = t /\ k = left[t])
    BY <1>2, <2>3
  <2>6. Done' = Done \cup {<<t, left[t]>>}
    BY <1>1, <2>4, <2>5 DEF Done, Writes
  <2> QED BY <1>4, <2>1, <2>2, <2>4, <2>6
<1>5. CASE ~Store(t)
  <2>1. t \in Writers => \A k \in 1..job.rounds : DoneBy(t, k)' <=> DoneBy(t, k)
    <3> SUFFICES ASSUME t \in Writers, NEW k \in 1..job.rounds
                 PROVE  DoneBy(t, k)' <=> DoneBy(t, k)
      OBVIOUS
    <3>1. CASE Load(t)
      BY <3>1 DEF Load, Goto, Basic, DoneBy, Stored
    <3>2. CASE UNCHANGED left /\ (pc'[t] \in Stored <=> pc[t] \in Stored)
      BY <3>2 DEF DoneBy
    <3>3. CASE /\ pc'[t] = Rest(t) /\ pc[t] \in Stored
               /\ left' = [left EXCEPT ![t] = @ - 1]
      <4>1. left'[t] = left[t] - 1 /\ pc'[t] \notin Stored
        BY <3>3 DEF Basic, Rest, Stored
      <4> QED BY <1>3, <3>3, <4>1 DEF DoneBy
    <3> QED BY <1>5, <3>1, <3>2, <3>3, RoundMoves
  <2>2. \A s \in Writes : DoneBy(s[1], s[2])' <=> DoneBy(s[1], s[2])
    BY <1>2, <2>1 DEF Writes
  <2>3. Done' = Done
    BY <1>1, <2>2 DEF Done
  <2> QED BY <1>5, <2>3
<1> QED BY <1>4, <1>5

LEMMA DoneFinite ==
  ASSUME IsFiniteSet(Threads), Basic
  PROVE  /\ IsFiniteSet(Writes) /\ IsFiniteSet(Done) /\ Cardinality(Done) \in Nat
         /\ Cardinality(Done) <= Cardinality(Writes)
         /\ Cardinality(Writes) = Total /\ Total \in Nat
<1>1. IsFiniteSet(Writers)
  BY FS_Subset DEF Threads
<1>2. IsFiniteSet(1..job.rounds) /\ Cardinality(1..job.rounds) = job.rounds
  <2>1. job.rounds \in Nat \ {0}
    BY JobTypes DEF Basic
  <2>2. /\ IsFiniteSet(1..job.rounds)
        /\ Cardinality(1..job.rounds) = IF 1 > job.rounds THEN 0 ELSE job.rounds - 1 + 1
    BY SMTT(20), <2>1, FS_Interval
  <2> QED BY <2>1, <2>2
<1>3. IsFiniteSet(Writes) /\ Cardinality(Writes) = Total
  BY <1>1, <1>2, FS_Product DEF Writes, Total
<1>4. Done \subseteq Writes
  BY DEF Done
<1> QED BY <1>3, <1>4, FS_Subset, FS_CardinalityType

LEMMA CountNext ==
  ASSUME IsFiniteSet(Threads), SyncInv, RoundInv, CountInv,
         NEW t \in Threads, Create(t) \/ Step(t) \/ SpuriousWake(t)
  PROVE  CountInv'
<1>0. /\ job' = job /\ shared \in Nat /\ copy \in [Threads -> Nat] /\ Writers \subseteq Threads
      /\ \A u \in Threads : u # t /\ pc'[u] = "store" => pc[u] = "store"
  BY OthersStay DEF SyncInv, Basic, Threads
<1>1. Cardinality(Done) \in Nat
  BY DoneFinite DEF SyncInv
<1>2. CASE Store(t)
  <2>1. /\ shared' = copy[t] + 1 /\ copy' = copy /\ pc[t] = "store" /\ pc'[t] # "store"
    BY <1>2 DEF Store, Goto, SyncInv, Basic
  <2>2. /\ t \in Writers
        /\ Cardinality(Done') = Cardinality(Done) + 1
    <3>1. /\ t \in Writers /\ <<t, left[t]>> \notin Done
          /\ Done' = Done \cup {<<t, left[t]>>}
      BY <1>2, DoneMoves DEF SyncInv
    <3>2. IsFiniteSet(Done)
      BY DoneFinite DEF SyncInv
    <3> QED BY <3>1, <3>2, CountOne
  <2>3. copy[t] <= Cardinality(Done) /\ (job.type # "none" => copy[t] = shared)
    BY <1>0, <2>1, <2>2 DEF CountInv, SyncInv, CopyInv
  <2>4. \A u \in Writers : pc'[u] = "store" => copy'[u] <= Cardinality(Done)
    BY <1>0, <2>1 DEF CountInv
  <2>5. \A u \in Writers : copy'[u] \in Nat /\ copy[t] \in Nat
    BY <1>0, <2>1
  <2> QED BY <1>0, <1>1, <2>1, <2>2, <2>3, <2>4, <2>5 DEF CountInv
<1>3. CASE ~Store(t)
  <2>1. Done' = Done /\ shared' = shared
    BY <1>3, DoneMoves, RoundMoves DEF SyncInv, data, Load
  <2>2. \A u \in Writers : pc'[u] = "store" => copy'[u] <= Cardinality(Done)
    <3>1. CASE Load(t)
      <4>1. copy' = [copy EXCEPT ![t] = shared]
        BY <3>1 DEF Load
      <4> QED BY <1>0, <4>1 DEF CountInv
    <3>2. CASE UNCHANGED data /\ pc'[t] # "store"
      BY <1>0, <3>2 DEF data, CountInv
    <3> QED BY <1>3, <3>1, <3>2, RoundMoves DEF SyncInv, Rest
  <2> QED BY <1>0, <2>1, <2>2 DEF CountInv
<1> QED BY <1>2, <1>3

LEMMA TwoNext ==
  ASSUME SyncInv, RoundInv, AtLeastTwo,
         NEW t \in Threads, Create(t) \/ Step(t) \/ SpuriousWake(t)
  PROVE  AtLeastTwo'
<1>0. /\ job' = job /\ job.rounds \in Nat \ {0} /\ Writers \subseteq Threads
      /\ shared \in Nat /\ copy \in [Threads -> Nat] /\ left \in [Threads -> Int]
      /\ \A u \in Threads : u # t /\ pc'[u] = "store" => pc[u] = "store"
      /\ \A u \in Threads : u # t => left'[u] = left[u]
  <2>1. \A u \in Threads : u # t => left'[u] = left[u]
    BY RoundMoves DEF Load, Store, SyncInv, Basic
  <2> QED BY <2>1, OthersStay, JobTypes DEF SyncInv, Basic, Threads
<1>1. /\ \A u \in Writers, k \in 1..job.rounds : DoneBy(u, k) <=> <<u, k>> \in Done
      /\ \A u \in Writers, k \in 1..job.rounds : DoneBy(u, k)' <=> <<u, k>> \in Done'
  BY <1>0 DEF Done, Writes
<1>2. CASE Store(t)
  <2>1. /\ shared' = copy[t] + 1 /\ copy' = copy /\ left' = left
        /\ pc[t] = "store" /\ pc'[t] # "store"
    BY <1>2 DEF Store, Goto, SyncInv, Basic
  <2>2. /\ t \in Writers /\ left[t] \in 1..job.rounds
        /\ Done' = Done \cup {<<t, left[t]>>}
    BY <1>2, DoneMoves DEF SyncInv
  <2>3. shared' >= 1
    BY <1>0, <2>1
  <2>4. \A u \in Writers : pc'[u] = "store" /\ left'[u] < job.rounds => copy'[u] >= 1
    BY <1>0, <2>1 DEF AtLeastTwo
  <2>5. job.rounds >= 2 => shared' >= 2 \/ ~DoneBy(t, 1)'
    <3>1. CASE left[t] = 1
      BY <1>0, <2>1, <2>2, <3>1 DEF AtLeastTwo
    <3>2. CASE left[t] # 1
      <4>1. ~(1 > left[t]) /\ left[t] # 1
        BY <2>2, <3>2
      <4> QED BY <2>1, <4>1 DEF DoneBy
    <3> QED BY <3>1, <3>2
  <2> QED BY <1>0, <2>2, <2>3, <2>4, <2>5 DEF AtLeastTwo
<1>3. CASE ~Store(t)
  <2>1. Done' = Done /\ shared' = shared
    BY <1>3, DoneMoves, RoundMoves DEF SyncInv, data, Load
  <2>2. \A u \in Writers : pc'[u] = "store" /\ left'[u] < job.rounds => copy'[u] >= 1
    <3>1. CASE Load(t)
      <4>1. /\ copy' = [copy EXCEPT ![t] = shared] /\ left' = left
        BY <3>1 DEF Load
      <4>2. t \in Writers /\ left[t] < job.rounds => <<t, job.rounds>> \in Done
        <5> SUFFICES ASSUME t \in Writers, left[t] < job.rounds
                     PROVE  <<t, job.rounds>> \in Done
          OBVIOUS
        <5>1. job.rounds \in 1..job.rounds /\ DoneBy(t, job.rounds)
          BY <1>0 DEF DoneBy
        <5> QED BY <1>1, <5>1
      <4> QED BY <1>0, <4>1, <4>2 DEF AtLeastTwo
    <3>2. CASE UNCHANGED data /\ pc'[t] # "store"
      BY <1>0, <3>2 DEF data, AtLeastTwo
    <3> QED BY <1>3, <3>1, <3>2, RoundMoves DEF SyncInv, Rest
  <2>3. 1 \in 1..job.rounds
    BY <1>0
  <2>4. \A u \in Writers : DoneBy(u, 1)' <=> DoneBy(u, 1)
    BY <1>1, <2>1, <2>3
  <2> QED BY <1>0, <2>1, <2>2, <2>4 DEF AtLeastTwo
<1> QED BY <1>2, <1>3

-----------------------------------------------------------------------------
LEMMA ResultInit == IsFiniteSet(Threads) /\ Init => ResultInv
<1> SUFFICES ASSUME IsFiniteSet(Threads), Init  PROVE ResultInv
  OBVIOUS
<1>1. /\ pc = [t \in Threads |-> "new"] /\ left = [t \in Threads |-> job.rounds]
      /\ job.rounds \in Nat \ {0} /\ shared = 0 /\ Writers \subseteq Threads
  BY JobTypes DEF Init, Threads
<1>2. Untouched
  BY DEF Init, Untouched
<1>3. RoundInv
  BY <1>1 DEF Init, RoundInv
<1>4. \A u \in Writers, k \in 1..job.rounds : ~DoneBy(u, k)
  BY <1>1 DEF DoneBy, Stored
<1>5. Done = {}
  BY <1>4 DEF Done, Writes
<1>6. CountInv
  BY <1>1, <1>5, FS_EmptySet DEF CountInv
<1>7. AtLeastTwo
  BY <1>1, <1>4, <1>5 DEF AtLeastTwo
<1> QED BY <1>2, <1>3, <1>6, <1>7 DEF ResultInv

LEMMA ResultNext ==
  ASSUME IsFiniteSet(Threads)  PROVE SyncInv /\ ResultInv /\ [Next]_vars => ResultInv'
<1> SUFFICES ASSUME SyncInv, ResultInv, [Next]_vars  PROVE ResultInv'
  OBVIOUS
<1> USE DEF ResultInv
<1>1. CASE /\ UNCHANGED <<job, pc, left, lock, holders, semaphores, condition, data>>
           /\ ended' => \A t \in Writers : pc[t] = "exit"
  <2>1. Writes' = Writes /\ (\A s \in Writes : DoneBy(s[1], s[2])' <=> DoneBy(s[1], s[2]))
    BY <1>1 DEF Writes, DoneBy
  <2>2. Done' = Done
    BY <2>1 DEF Done
  <2>3. \A u \in Writers : DoneBy(u, 1)' <=> DoneBy(u, 1)
    BY <1>1 DEF DoneBy
  <2> QED BY <1>1, <2>2, <2>3 DEF Untouched, RoundInv, CountInv, AtLeastTwo, semaphores,
             condition, data
<1>2. CASE Join
  <2>1. \A t \in Writers : pc[t] = "exit"
    BY <1>2, JobRounds DEF Join, SyncInv, Basic
  <2> QED BY <1>1, <1>2, <2>1 DEF Join
<1>3. CASE UNCHANGED vars
  BY <1>1, <1>3 DEF vars, RoundInv
<1>4. ASSUME NEW t \in Threads, Create(t) \/ Step(t) \/ SpuriousWake(t)
      PROVE  ResultInv'
  BY <1>4, UntouchedNext, RoundNext, CountNext, TwoNext DEF SyncInv
<1> QED BY <1>2, <1>3, <1>4 DEF Next

(* Every variable keeps its type: no thread runs more rounds than it was    *)
(* given, no semaphore is posted above 1 or taken below 0, and no count of  *)
(* readers or writers falls below 0, however the threads interleave.        *)
THEOREM TypeCorrect ==
  ASSUME IsFiniteSet(Threads)  PROVE Spec => []TypeOK
<1>1. SyncInv /\ ResultInv => TypeOK
  <2> SUFFICES ASSUME SyncInv, ResultInv  PROVE TypeOK
    OBVIOUS
  <2>1. left \in [Threads -> 0..Rounds]
    <3>1. left \in [Threads -> Int] /\ \A t \in Threads : left[t] \in 0..job.rounds
      BY DEF SyncInv, Basic, ResultInv, RoundInv
    <3>2. 0..job.rounds \subseteq 0..Rounds
      BY JobRounds, RoundAssumption DEF SyncInv, Basic
    <3> QED BY <3>1, <3>2
  <2>2. rSem \in 0..1 /\ wSem \in 0..1 /\ rCount \in Nat
    <3>1. Cardinality(Group) \in Nat
      BY FS_Subset, FS_CardinalityType DEF Group, Threads
    <3> QED BY <3>1 DEF SyncInv, Protocols, SemInv, ResultInv, Untouched
  <2>3. readerCount \in Nat /\ writerCount \in Nat
    <3>1. Cardinality(In(Readers)) \in Nat /\ Cardinality(In(Writers)) \in Nat
      BY FS_Subset, FS_CardinalityType DEF In, Threads
    <3> QED BY <3>1 DEF SyncInv, Protocols, CdvInv, ResultInv, Untouched
  <2> QED BY <2>1, <2>2, <2>3 DEF SyncInv, Basic, TypeOK
<1> QED BY <1>1, SyncInit, SyncNext, ResultInit, ResultNext, PTL DEF Spec

(* What the programs report at their end: under a protocol every increment  *)
(* counts, for any number of threads and rounds; without one the result is  *)
(* no more than the expected one, and at least two when there are two       *)
(* rounds or more, since some writer's last store follows its own first.    *)
THEOREM ReportsResult ==
  ASSUME IsFiniteSet(Threads)  PROVE Spec => []ResultRight
<1>1. SyncInv /\ ResultInv => ResultRight
  <2> SUFFICES ASSUME SyncInv, ResultInv, ended  PROVE ResultRight
    BY DEF ResultRight
  <2> USE DEF ResultInv
  <2>1. job.rounds \in Nat \ {0} /\ Writers \subseteq Threads /\ IsFiniteSet(Writers)
    BY JobTypes, FS_Subset DEF SyncInv, Basic, Threads
  <2>2. \A t \in Writers : left[t] = 0
    BY <2>1 DEF RoundInv
  <2>3. \A t \in Writers, k \in 1..job.rounds : DoneBy(t, k)
    BY <2>2 DEF DoneBy
  <2>4. Done = Writes
    BY <2>3 DEF Done, Writes
  <2>5. Total \in Nat /\ Cardinality(Done) = Total
    BY <2>4, DoneFinite DEF SyncInv
  <2>6. Total >= 2 /\ job.rounds >= 2 => shared >= 2
    <3> SUFFICES ASSUME Total >= 2, job.rounds >= 2  PROVE shared >= 2
      OBVIOUS
    <3>1. Writers # {}
      BY <2>1, FS_EmptySet DEF Total
    <3> QED BY <2>1, <2>3, <3>1 DEF AtLeastTwo
  <2> QED BY <2>5, <2>6 DEF CountInv, ResultRight
<1> QED BY <1>1, SyncInit, SyncNext, ResultInit, ResultNext, PTL DEF Spec
=============================================================================
