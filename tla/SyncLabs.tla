------------------------------ MODULE SyncLabs ------------------------------
(***************************************************************************)
(* The synchronization labs: the reader/writer programs of ITRC/all        *)
(* (sync_main.c, sync_funcs.c) and the counter programs of ITRC/sync and   *)
(* DKU_OS_LAB/lab2_example.c.  A main thread creates the others, waits for *)
(* them and reports; the others go through a critical section, once or a   *)
(* number of times, under the protocol the command line chose.             *)
(*                                                                         *)
(* A counter program runs the writers' side of a protocol only.  What a    *)
(* writer does inside is a load and a store in both: shared_variable++, or *)
(* the end of the file that write_file seeks and then writes at.           *)
(***************************************************************************)
EXTENDS Integers, FiniteSets

CONSTANTS
    Readers, Writers,   \* the threads that -r, -w or -t ask for
    Rounds,             \* num_iterations of the counter programs
    NoOne               \* nobody holds the mutex or the spin lock

Threads == Readers \cup Writers

ASSUME ThreadAssumption == Readers \cap Writers = {} /\ NoOne \notin Threads
ASSUME RoundAssumption == Rounds \in Nat \ {0}

VARIABLES
    job,          \* the program: its protocol, its threads, their rounds
    ended,        \* the main thread has joined all others and has reported
    pc, left,     \* where a thread is, and the rounds it has left
    lock,         \* mutex_t, spinlock_t or cv_mutex_t: its holder
    holders,      \* rwlock_t: its holders
    rSem, wSem, rCount,          \* struct semaphore_s
    readerCount, writerCount,    \* struct condition_variable_s
    shared, copy  \* the shared variable, and what a writer has loaded

semaphores == <<rSem, wSem, rCount>>
condition  == <<readerCount, writerCount>>
data       == <<shared, copy>>
vars == <<job, ended, pc, left, lock, holders, semaphores, condition, data>>

-----------------------------------------------------------------------------
(* The programs.                                                            *)
ReadWriteJobs == [type : {"mtx", "spl", "sem", "cdv", "rwl"}, threads : {Threads}, rounds : {1}]

Counting(type) == [type |-> type, threads |-> Writers, rounds |-> Rounds]
MtxJobs == {Counting("mtx"), Counting("none")}
SplJobs == {Counting("spl"), Counting("none")}
SemJobs == {Counting("sem"), Counting("none")}
CndJobs == {Counting("cdv"), Counting("none")}
ExampleJobs == {Counting("mtx"), Counting("none")}
Jobs == ReadWriteJobs \cup MtxJobs \cup SplJobs \cup SemJobs \cup CndJobs \cup ExampleJobs

(* init_sync_func, and the initializers of the counter programs.            *)
Init ==
    /\ job \in Jobs
    /\ ended = FALSE
    /\ pc = [t \in Threads |-> "new"] /\ left = [t \in Threads |-> job.rounds]
    /\ lock = NoOne /\ holders = {}
    /\ rSem = 1 /\ wSem = 1 /\ rCount = 0
    /\ readerCount = 0 /\ writerCount = 0
    /\ shared = 0 /\ copy = [t \in Threads |-> 0]

At(t, type, label) == job.type = type /\ pc[t] = label
Goto(t, label) == pc' = [pc EXCEPT ![t] = label]

(* The end of a round.                                                      *)
Rest(t) == IF left[t] > 1 THEN "enter" ELSE "exit"
Again(t) ==
    /\ Goto(t, Rest(t))
    /\ left' = [left EXCEPT ![t] = @ - 1]

-----------------------------------------------------------------------------
(* The main thread: writers are created before readers.                     *)
Create(t) ==
    /\ ~ended /\ t \in job.threads /\ pc[t] = "new"
    /\ t \in Readers => \A w \in Writers : pc[w] # "new"
    /\ Goto(t, "enter")
    /\ UNCHANGED <<job, ended, left, lock, holders, semaphores, condition, data>>

JoinReaders ==                                              \* mutant
    /\ ~ended /\ \A t \in job.threads \ Writers : pc[t] = "exit"
    /\ ended' = TRUE
    /\ UNCHANGED <<job, pc, left, lock, holders, semaphores, condition, data>>
Join ==
    /\ ~ended /\ \A t \in job.threads : pc[t] = "exit"
    /\ ended' = TRUE
    /\ UNCHANGED <<job, pc, left, lock, holders, semaphores, condition, data>>

-----------------------------------------------------------------------------
(* The critical section.                                                    *)
Load(t) ==
    /\ t \in Writers /\ pc[t] = "in"
    /\ copy' = [copy EXCEPT ![t] = shared]
    /\ Goto(t, "store")
    /\ UNCHANGED <<job, ended, left, lock, holders, semaphores, condition, shared>>

Store(t) ==
    /\ pc[t] = "store"
    /\ shared' = copy[t] + 1
    /\ Goto(t, "leave")
    /\ UNCHANGED <<job, ended, left, lock, holders, semaphores, condition, copy>>

ReadFile(t) ==
    /\ t \in Readers /\ pc[t] = "in"
    /\ Goto(t, "leave")
    /\ UNCHANGED <<job, ended, left, lock, holders, semaphores, condition, data>>

Section(t) == Load(t) \/ Store(t) \/ ReadFile(t)

-----------------------------------------------------------------------------
(* No synchronization: option -s o.                                         *)
Unprotected(t) ==
    /\ \/ At(t, "none", "enter") /\ Goto(t, "in") /\ UNCHANGED left
       \/ At(t, "none", "leave") /\ Again(t)
    /\ UNCHANGED <<job, ended, lock, holders, semaphores, condition, data>>

(* read_mutex, write_mutex, read_spl, write_spl *)
MutexEnter(t) ==
    /\ At(t, "mtx", "enter") \/ At(t, "spl", "enter")
    /\ lock = NoOne
    /\ lock' = t
    /\ Goto(t, "in")
    /\ UNCHANGED <<job, ended, left, holders, semaphores, condition, data>>

MutexLeave(t) ==
    /\ At(t, "mtx", "leave") \/ At(t, "spl", "leave")
    /\ lock' = NoOne
    /\ Again(t)
    /\ UNCHANGED <<job, ended, holders, semaphores, condition, data>>

(* read_rwl, write_rwl *)
RwlockEnter(t) ==
    /\ At(t, "rwl", "enter")
    /\ IF t \in Writers THEN holders = {} ELSE holders \subseteq Readers
    /\ holders' = holders \cup {t}
    /\ Goto(t, "in")
    /\ UNCHANGED <<job, ended, left, lock, semaphores, condition, data>>

RwlockLeave(t) ==
    /\ At(t, "rwl", "leave")
    /\ holders' = holders \ {t}
    /\ Again(t)
    /\ UNCHANGED <<job, ended, lock, semaphores, condition, data>>

-----------------------------------------------------------------------------
(* read_sem and write_sem: the first reader takes w_sem for all of them,    *)
(* while it has r_sem, and the last one gives it back.                      *)
WriteSem(t) ==
    /\ t \in Writers
    /\ \/ /\ At(t, "sem", "enter") /\ wSem > 0
          /\ wSem' = wSem - 1
          /\ Goto(t, "in") /\ UNCHANGED left
       \/ /\ At(t, "sem", "leave")
          /\ wSem' = wSem + 1
          /\ Again(t)
    /\ UNCHANGED <<job, ended, lock, holders, rSem, rCount, condition, data>>

ReadSemEnter(t) ==
    /\ t \in Readers /\ At(t, "sem", "enter") /\ rSem > 0
    /\ rSem' = rSem - 1
    /\ rCount' = rCount + 1
    /\ Goto(t, IF rCount' = 1 THEN "first" ELSE "entered")
    /\ UNCHANGED <<job, ended, left, lock, holders, wSem, condition, data>>

ReadSemFirst(t) ==
    /\ pc[t] = "first" /\ wSem > 0
    /\ wSem' = wSem - 1
    /\ Goto(t, "entered")
    /\ UNCHANGED <<job, ended, left, lock, holders, rSem, rCount, condition, data>>

ReadSemEntered(t) ==
    /\ pc[t] = "entered"
    /\ rSem' = rSem + 1
    /\ Goto(t, "in")
    /\ UNCHANGED <<job, ended, left, lock, holders, wSem, rCount, condition, data>>

LastPosts == IF rCount' = 0 THEN wSem + 1 ELSE wSem
ReadSemLeave(t) ==
    /\ t \in Readers /\ At(t, "sem", "leave") /\ rSem > 0
    /\ rSem' = rSem - 1
    /\ rCount' = rCount - 1
    /\ wSem' = LastPosts
    /\ Goto(t, "left")
    /\ UNCHANGED <<job, ended, left, lock, holders, condition, data>>

LeftHolding(t) ==                                           \* mutant
    /\ pc[t] = "left"
    /\ Again(t)
    /\ UNCHANGED <<job, ended, lock, holders, semaphores, condition, data>>
ReadSemLeft(t) ==
    /\ pc[t] = "left"
    /\ rSem' = rSem + 1
    /\ Again(t)
    /\ UNCHANGED <<job, ended, lock, holders, wSem, rCount, condition, data>>

-----------------------------------------------------------------------------
(* read_cdv and write_cdv, and sync_cnd.c: the counts are looked at and     *)
(* changed under the mutex, which pthread_cond_wait gives up and takes      *)
(* again when the thread has been woken, by a signal or for no reason.      *)
BlockedByWriter(t) == writerCount > 0                        \* mutant
Blocked(t) == writerCount > 0 \/ (t \in Writers /\ readerCount > 0)
Waiting == {t \in Threads : pc[t] = "wait"}

LeavesAsWriter(t, n) ==                                      \* mutant
    IF t \in Writers \/ n < 0 THEN writerCount' = writerCount + n /\ UNCHANGED readerCount
                              ELSE readerCount' = readerCount + n /\ UNCHANGED writerCount
Counts(t, n) ==
    IF t \in Writers THEN writerCount' = writerCount + n /\ UNCHANGED readerCount
                     ELSE readerCount' = readerCount + n /\ UNCHANGED writerCount

CdvLock(t) ==
    /\ job.type = "cdv" /\ lock = NoOne
    /\ lock' = t
    /\ \/ pc[t] \in {"enter", "woken"} /\ Goto(t, "test")
       \/ pc[t] = "leave" /\ Goto(t, "signal")
    /\ UNCHANGED <<job, ended, left, holders, semaphores, condition, data>>

CdvWait(t) ==
    /\ pc[t] = "test" /\ Blocked(t)
    /\ lock' = NoOne
    /\ Goto(t, "wait")
    /\ UNCHANGED <<job, ended, left, holders, semaphores, condition, data>>

CdvEnter(t) ==
    /\ pc[t] = "test" /\ ~Blocked(t)
    /\ Counts(t, 1)
    /\ lock' = NoOne
    /\ Goto(t, "in")
    /\ UNCHANGED <<job, ended, left, holders, semaphores, data>>

LeaveSilent(t) ==                                           \* mutant
    /\ pc[t] = "signal"
    /\ Counts(t, -1)
    /\ Again(t)
    /\ lock' = NoOne
    /\ UNCHANGED <<job, ended, holders, semaphores, data>>
(* pthread_cond_signal wakes one waiter, when there is one.                 *)
CdvSignal(t) ==
    /\ pc[t] = "signal"
    /\ Counts(t, -1)
    /\ \/ Waiting = {} /\ pc' = [pc EXCEPT ![t] = Rest(t)]
       \/ \E w \in Waiting : pc' = [pc EXCEPT ![t] = Rest(t), ![w] = "woken"]
    /\ left' = [left EXCEPT ![t] = @ - 1]
    /\ lock' = NoOne
    /\ UNCHANGED <<job, ended, holders, semaphores, data>>

SpuriousWake(t) ==
    /\ pc[t] = "wait"
    /\ Goto(t, "woken")
    /\ UNCHANGED <<job, ended, left, lock, holders, semaphores, condition, data>>

-----------------------------------------------------------------------------
Step(t) ==
    \/ Section(t) \/ Unprotected(t)
    \/ MutexEnter(t) \/ MutexLeave(t) \/ RwlockEnter(t) \/ RwlockLeave(t)
    \/ WriteSem(t) \/ ReadSemEnter(t) \/ ReadSemFirst(t) \/ ReadSemEntered(t)
    \/ ReadSemLeave(t) \/ ReadSemLeft(t)
    \/ CdvLock(t) \/ CdvWait(t) \/ CdvEnter(t) \/ CdvSignal(t)

Next == Join \/ \E t \in Threads : Create(t) \/ Step(t) \/ SpuriousWake(t)

Spec == Init /\ [][Next]_vars

(* Every thread is scheduled, and a mutex does not pass over a waiter for   *)
(* ever; nobody is woken for no reason unless it happens.                   *)
Fairness ==
    /\ WF_vars(Join)
    /\ \A t \in Threads : WF_vars(Create(t)) /\ WF_vars(Step(t)) /\ SF_vars(CdvLock(t))
FairSpec == Spec /\ Fairness

-----------------------------------------------------------------------------
PCs == {"new", "enter", "in", "store", "leave", "exit", "first", "entered", "left",
        "test", "wait", "woken", "signal"}

(* Every variable has its type; the counts never go below 0.                *)
TypeOK ==
    /\ job \in Jobs /\ ended \in BOOLEAN
    /\ pc \in [Threads -> PCs] /\ left \in [Threads -> 0..Rounds]
    /\ lock \in Threads \cup {NoOne} /\ holders \subseteq Threads
    /\ rSem \in 0..1 /\ wSem \in 0..1 /\ rCount \in Nat
    /\ readerCount \in Nat /\ writerCount \in Nat
    /\ shared \in Nat /\ copy \in [Threads -> Nat]

Inside == {t \in Threads : pc[t] \in {"in", "store", "leave", "signal"}}

(* The labs implement the shared resource: no reader is inside with a       *)
(* writer, no two writers are, and no write is lost.                        *)
Resource == INSTANCE SharedResource WITH
              protected <- job.type # "none", inside <- Inside, value <- shared
ImplementsResource == Resource!Spec

(* No wake-up is lost: while a thread waits for the condition, another one  *)
(* is inside, and will signal, or has been woken or is looking at the       *)
(* counts.  One signal at each exit is enough, although a signal may go to  *)
(* a writer that must wait on while a reader could go in.                   *)
NoLostWakeup ==
    Waiting # {} => \E t \in Threads : t \in Inside \/ pc[t] \in {"woken", "test"}

(* The result the programs report: what they call the expected result, or,  *)
(* without synchronization, at least two increments of a long run.          *)
Total == Cardinality(Writers) * job.rounds
ResultRight ==
    ended => /\ shared <= Total
             /\ job.type # "none" => shared = Total
             /\ Total >= 2 /\ job.rounds >= 2 => shared >= 2

(* The program ends: nobody waits for ever, whatever the order in which     *)
(* threads are created, enter and are woken.                                *)
Finishes == <>ended
=============================================================================
