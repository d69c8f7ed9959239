# Formal models of the T.A. repository

The repository holds the material of an operating-systems course: a FAT file
system driver taken from Linux and turned into an exercise
(`kernel_camp/fat_log_module_practice`), a tool that recovers deleted files, a
pair of kernel probes, and several user-space labs on synchronisation. The
driver is by far the largest part and the one whose correctness is hard to
test; the models start there.

Everything below is TLA+: modules that model the code, TLC runs that check them
on small instances, and theorems that TLAPS proves for every value of the
constants.

    tlc -workers 2 -config FatTableClean.cfg MCFatTable.tla
    tlapm FatTableProofs.tla

## 1. The system

### The FAT driver

| part | code | state | operations |
|---|---|---|---|
| FAT table and free-space counters | `fatent.c` | the table (12, 16 or 32 bits an entry), `free_clusters`, `free_clus_valid`, `prev_free`, `fat_lock` | `fat_alloc_clusters`, `fat_free_clusters`, `fat_count_free_clusters`, `fat_ent_read`, `fat_ent_write`, `fat_mirror_bhs` |
| cluster chains of inodes | `misc.c`, `file.c`, `inode.c`, `dir.c` | `i_start`, `i_logstart`, `i_blocks`, `mmu_private`, `i_size` | `fat_chain_add`, `fat_free`, `fat_truncate_blocks`, the write path (`fat_write_begin`, `fat_get_block`, `fat_write_end`, `fat_write_failed`), directory growth |
| extent cache | `cache.c` | per inode: `cache_lru`, `nr_caches`, `cache_valid_id`, `cache_lru_lock` | `fat_cache_lookup`, `fat_cache_add`, `fat_get_cluster`, `fat_cache_inval_inode` |
| inode hash and write-back | `inode.c` | `inode_hashtable`, `dir_hashtable`, `i_pos` | `fat_attach`, `fat_detach`, `fat_iget`, `fat_build_inode`, `__fat_write_inode`, `fat_evict_inode` |
| mount, remount, FSINFO | `inode.c`, `misc.c` | the dirty flag of the boot sector, the FSINFO sector, mount options | `fat_fill_super`, `fat_set_state`, `fat_remount`, `fat_put_super`, `fat_clusters_flush` |
| directory entries and long names | `dir.c`, `namei_vfat.c` | directory slots | slot search, `fat_add_entries`, `fat_remove_entries` (changed by the exercise), create, mkdir, rmdir, rename |
| NFS export | `nfs.c` | none of its own | file handles, reconnection of dentries |
| MS-DOS names, tracing | `namei_msdos.c`, `fat_trace.h` | – | not built; an empty stub for students |

The parts meet in shared state. A caller that changes a file holds that inode's
`i_mutex`, so **one inode has one operation on its chain at a time**; different
inodes meet in the table, in the counters and in the mutex `fat_lock`. Readers
of a file do not hold `i_mutex`: they share the extent cache with the writer
under the spin lock `cache_lru_lock`, which `fat_cache_add` gives up in its
middle to allocate memory. Lookups of names meet in the inode hash under
`s_lock`. The mount code sets the dirty flag, and reads a free count that may
be stale.

What makes it hard: errors. Every read of the table, every sync of a buffer and
every mirroring of a block can fail, and each caller undoes its own part. The
result must never be a cluster that two chains share, or a free cluster that a
chain still reaches: a lost cluster is the worst that the design allows.

### Beside the driver

| part | code | what it does |
|---|---|---|
| deleted-file recovery | `kernel_camp/fat_recovery_*` | scans the root directory of an unmounted image, restores a name and one table entry |
| jbd2 probes | `kernel_camp/kprobe_module_lecture` | registers a kprobe and a jprobe, removes both |
| reader/writer lab | `ITRC/all` | five protocols (mutex, spin lock, semaphores, condition variable, rwlock) for readers and writers of one resource |
| counter labs | `ITRC/sync`, `DKU_OS_LAB/lab2_example.c`, `DKU_OS_LAB/lab2_sync` | threads increment a shared variable with and without protection |
| tree lab | `DKU_OS_LAB/lab2*` | tree operations are stubs; the test divides the work over threads |
| scheduler, FUSE, IPC skeletons | `DKU_OS_LAB/lab1*`, `lab3*` | option tables and stubs |

### What makes each part correct

- *Table and chains*: no cluster reached from two places; nothing free that
  something refers to; `free_clusters`, once valid, is the number of free
  entries; `-ENOSPC` is true; sizes, `i_blocks`, `mmu_private` and the chain
  agree between operations; every block below `i_size` has a cluster; whatever
  fails, `fat_lock` is given back.
- *Extent cache*: a cached run says what the table says; a walk that began at a
  cached run stands on the chain; `nr_caches` does not drift; there is a run to
  overwrite when the list is full.
- *Inode hash*: one inode per directory entry; an inode is written back to the
  place its entry is at when it is written, through renames.
- *Mount*: a crash between mount and unmount leaves the dirty flag set; the
  FSINFO count is believed only when it may be.
- *Directories*: an addition or a rename that fails half-way leaves the
  directory as it was; no lookup sees a half-written long name.
- *Recovery*: what is restored is what was deleted, as far as its name lets it.
- *Labs*: readers and writers exclude each other; no wake-up is lost; the
  protected counters are exact.

`PROJECT.json` lists the hazards of each part at the line where they bite, with
the properties that cover them.

## 2. Modules

| module | what it is |
|---|---|
| `FatTable` | table, counters, `fat_lock` and the chains of all inodes, a step at a time |
| `ClusterPool` | what chains promise: clusters are free, reserved by a thread, or owned by an inode |
| `FatChains` | properties of whole chains, and `FatTable` implements `ClusterPool` |
| `MCFatTable` | instances of both for TLC |
| `FatTableProofs` | types, ownership of clusters, mutual exclusion, what the wrapped scan has seen, the free counter and `-ENOSPC`; chains implement the pool, back every block, and agree with sizes, `i_blocks` and `mmu_private` |
| `FatCache`, `MCFatCache` | the extent cache of one inode |
| `FatCacheProofs` | the count of its places, the run to overwrite, and for one reader that cache and chain agree |
| `SyncLabs` | the synchronization programs: five reader/writer protocols and the counter programs |
| `SharedResource` | what they promise: who may be inside together, and that no write is lost |
| `SyncProofs` | types, exclusion, no lost wake-up, the reported results, and `SyncLabs` implements `SharedResource` |
| `FatMount`, `MCFatMount` | mount, remount, unmount and crash: dirty flag, FSINFO and `free_clusters` |
| `FatMountProofs` | types, the dirty flag, and the four copies of the free count |
| `FatInodeHash`, `MCFatInodeHash` | inodes by the place of their entry: lookup, create, unlink, rename, write-back, eviction, NFS lookups |
| `NameSpace` | what a directory promises: a name means a file, as it was last changed |
| `FatInodeProofs` | one inode for an entry, none for a free one, clean inodes agree with their entries, and `FatInodeHash` implements `NameSpace` |
| `DirSlots` | the slots of a directory: layout, search, parsing of long names, aliases, deletion, and what slots may be (`Whole`, `Tidy`); operators only |
| `FatDir` | create, mkdir, unlink, rmdir, rename and readdir over those slots, a write at a time |
| `DirTree` | what directories promise: an operation does what it was asked, at once, or nothing |
| `FatRecovery`, `MCFatDir` | `FatDir` with the recovery of a deleted file from the unmounted image; instances |
| `DirProofs` | aliases are unused, the slots to fill free, when a recovered name is exact, and what the parser reads while a name is added or removed |
| `FatDirProofs` | no stray long-name slots, in the buffers and on the disk, through every operation, failure and undo; `DirTree` keeps names distinct |
| `FatNameProofs` | one answer for a name, negative dentries tell the truth, and `FatDir` implements `DirTree`, with the same failures and undos |

Definitions marked `\* mutant` are not part of a specification: each is one
mapped definition as a plausible mistake in the code would make it (a guard
dropped, a reset forgotten, a bound off by one). Put in its place, it makes TLC
report the property it belongs to, which shows the property is sensitive to
that code.

### FatTable: correspondence with the code

One thread per inode. `pc[i]` is where the thread is; the labels are the places
between which other threads can run:

| pc | code |
|---|---|
| `idle` | between operations; `i_mutex` free |
| `block` | the loop of `cont_write_begin` over the blocks of a write, through `__fat_get_block` (`inode.c`) |
| `a_lock`, `a_scan`, `a_unlock`, `a_mirror` | `fat_alloc_clusters`: `lock_fat`, the scan, `out:`, sync and mirroring |
| `chain`, `walk_end`, `link`, `link_sync`, `chain_end` | `fat_chain_add` (`misc.c`) |
| `walk_map` | `fat_bmap` after an allocation, through `fat_get_cluster` |
| `trunc`, `walk_cut`, `cut`, `cut_sync` | `fat_truncate_blocks` and `fat_free` (`file.c`) |
| `f_lock`, `f_step`, `f_unlock` | `fat_free_clusters` |

`fat` holds for each cluster what `ent_get` returns, so every end mark and bad
mark reads as `EOF`. Sizes are in blocks, `i_blocks` in clusters. `freeClusters`
keeps the code's value for "undefined" (`Unknown`, -1), which the code never
counts up or down; a wrong count from FSINFO that is decremented at 0 becomes
that value, as the unsigned field does.

Failures are chosen by the constant `Faults`: a block of the table that cannot
be read (`read`), the I/O that follows an allocation (`alloc_io`), a link
(`chain_io`), an end mark (`cut_io`) or the freeing of entries (`free_io`), and
`fat_sync_inode` (`inode_sync`). With `ErrorsRo` a reported error makes the
volume read-only (`errors=remount-ro`, the default), and only evictions begin
after it. On a failed link the model does what the code does: the entry is
already in the table, the caller frees the cluster.

Left out of `FatTable`: the packing of entries into bytes and the backup tables
(`FatMirror` in the plan); the extent cache, whose effect is only to skip reads
(`FatCache`); the rest of `fat_setattr`, `ioctl` and direct I/O.

### FatCache: correspondence with the code

One inode, a set of `Readers` and one `Writer` (the holder of `i_mutex`). What
happens under one hold of `cache_lru_lock` is one action: `Lookup`
(`fat_cache_lookup`, with the move to the head of the list), `AddRefused`,
`AddMerge`, `AddRoom` and `AddEvict` (`fat_cache_add` up to the unlock), then
`AddInsert` or `AddNoMemory` after the allocation. The loop of
`fat_get_cluster` reads one entry a step. The writer appends a cluster
(`Append1`, `Link`) or cuts the chain: `Truncate` lowers the size and waits for
the readers whose pages it removes (page locks; `fat_get_cluster` "assumes the
requested blocknr isn't truncated"), `Inval` is `fat_cache_inval_inode`, and
`FreeAll` or `SeekEnd` and `Cut` change the table. The table changes of one cut
are a single step here, since `FatTable` has them one by one.

### SyncLabs: correspondence with the code

`job`, chosen once, is the program and its command line: a protocol, the
threads, and the rounds of each (`num_iterations`; 1 for the reader/writer
programs). The main thread is `Create` and `Join` (`sync_test`, `mtx_test` and
so on): writers first, then readers, and a report when all have been joined.
A thread goes through `enter`, `in`, `store`, `leave` and `exit`; the protocols
with more than one wait have labels between:

| pc | code |
|---|---|
| `first`, `entered` | `read_sem` with `r_sem`: before `sem_wait(w_sem)` and before `sem_post(r_sem)` |
| `left` | `read_sem` with `r_sem` again, before its last `sem_post` |
| `test`, `wait`, `woken` | `read_cdv`, `write_cdv`: in the `while` with the mutex, in `pthread_cond_wait`, and woken without the mutex yet |
| `signal` | with the mutex on the way out, before the count goes down and the signal is sent |

What happens under one hold of a mutex, and cannot be seen by a thread that
does not hold it, is one action. A writer's section is a load and a store in
every program: `shared_variable++`, or the seek to the end of the file and the
write there in `write_file`. A counter program is the writers' side of a
protocol with rounds: the semaphore of `sync_sem.c` is `w_sem`, and `count` of
`sync_cnd.c` is `writer_count`. The pthread calls are external: a lock is taken
when it is free, a signal wakes any one waiter, and `SpuriousWake` wakes a
waiter for no reason. Threads are created and files opened and written without
errors; the times that are printed are left out.

### FatMount: correspondence with the code

The volume is three things on the disk (`diskFree`, which entries are free;
`diskDirty`, the flag; `diskCount`, FSINFO), the buffers of the first and the
last (`fat`, `fsinfo`), and `free_clusters`, which reaches the FSINFO buffer
when the inode `fsinfo_inode` is written. The flag has no buffer of its own:
`fat_set_state` syncs it.

| super | code |
|---|---|
| `none` | not mounted: `Mount` is `fat_fill_super` |
| `live` | mounted; `rdonly` is `MS_RDONLY`, set by `__fat_fs_error` too (`FsError`) |
| `remount` | in `fat_remount`, after `sync_filesystem`; `RemountReadOnly` is the rest |
| `put` | the VFS has synced and evicted; `PutSuper` is `fat_put_super` |
| `gone` | `fat_put_super` has returned; `KillSuper` writes the buffers |

A thread (`pc`) is outside any operation (`idle`), in one (`op`), or has
changed `free_clusters` and given `fat_lock` back but not yet called
`mark_fsinfo_dirty` (`mark`; `evict` in the eviction of an unlinked file). An
error does not end an operation that has begun. `torn`, `failed` and `missed`
are history: a crash lost something, I/O failed and the code went on, a change
of the count was not marked. The VFS is external and does what its own code
does: it lets operations begin only on a volume that can be written, keeps them
out of a remount to read-only, and syncs before it unmounts. It may write a
buffer, or the dirty inode, whenever it likes. `parse_options`, the checks of
the boot sector, the root inode and `prev_free` are left out.

### FatInodeHash: correspondence with the code

One directory of `Slots`; an entry holds a name, and of the file what
`__fat_write_inode` writes: which file it is (its start cluster) and in which
version (its size and times). `pos[i]` is `i_pos`, `None` for an inode that is
not in the hash. The labels of a thread are the places between which others can
run:

| pc | code |
|---|---|
| `lock`, `get`, `fill`, `attach`, `unlock` | `fat_build_inode`, for `vfat_lookup` and `vfat_create` (with `s_lock`) or for an NFS handle (without) |
| `unhash` | `vfat_unlink` between `fat_remove_entries` and `fat_detach`; `vfat_rmdir` is the same |
| `move`, `place` | `vfat_rename` before `fat_detach` and before `fat_attach` of the old inode |
| `save`, `remove` | before the sync or dirtying of the inode, and before the removal of the old entry |
| `undo`, `restore` | `error_inode` and `error_dotdot` |

`wb[i]` is `__fat_write_inode`: `read` before `fat_i_pos_read`, then the place it
has read, until it compares it under `inode_hash_lock` and writes, or retries.
Write-back does not take `s_lock`. `mode` is chosen once: with `dirsync` the
syncs of rename and unlink happen and may fail; with `nostale`
(`nfs=nostale_ro`) the volume is read-only, NFS handles build inodes beside
lookups, and only then `nfs_build_inode_lock` is taken. (The mount options make
such a volume read-only; `fat_remount` does not keep it so, which is not
modelled.) The VFS is external: it looks names up before it changes them, one
change of a directory at a time; it keeps dentries, pins inodes in use, writes
an inode once at a time, clears its dirty mark before, and evicts what nobody
uses if it is clean or unlinked. `Create` may lose its inode to `ENOMEM`; the
entry stays, as in the code.

`NameSpace` is the promise, and `KeepsNames` says the whole implements it: a
name's meaning changes only by a create, a remove, a rename or a change, each
with its own effect, and never by write-back, eviction, or lookups. `failed` is
history: I/O failed and the code went on. Changes are followed up to the first
failure and through the undo it causes. Left out: `dir_hashtable`, directories
inside the directory with their `..` (they are in `FatDir`), the root inode,
generations of handles.

### DirSlots and FatDir: correspondence with the code

`DirSlots` has the functions of `dir.c` and `namei_vfat.c` that only read, and
the layouts that are written: `View` of `FatDir` hands them a directory as a
sequence of slots, which is what `fat_get_entry` goes through. A slot is its
first 11 bytes as 3 characters, its attribute, and its start cluster; a
long-name slot also has the name its 13 characters are part of and the short
name its checksum was made from (so checksums never collide). `RecordsFrom` is
`fat_parse_long` in the loop around it, with its restarts and its early ends.
`Form` gives for each name the candidates for a short name, in the order in
which `vfat_create_shortname` tries them: one for a name that needs no numeric
tail, `~1`, `~2`, `~3` for the others (the code has nine, then goes on to tails
made from the time).

`s_lock` admits one operation at a time; what is interleaved with it is the
disk. Without `dirsync` the code waits for no write, so nothing can be seen
between its steps and the disk is written at unmount. With `dirsync` it is cut
wherever it waits: `SyncOk` (all blocks written), `SyncFail` (some were not),
and `Flush`, one block reaching the disk before the others. A write that fails
leaves the block not up to date, so the next `sb_bread` reads the disk again:
the buffer gets the disk's contents. (A write that is reported as failed and
reached the disk all the same is not modelled.)

| pc | code |
|---|---|
| `build` | `vfat_add_entry`: `vfat_build_slots`, and the search for free slots of `fat_add_entries` |
| `fill`, `short` | second stage: the blocks with long-name slots, then the one with the short name |
| `grow`, `link` | third stage: `fat_add_new_entries`, `fat_chain_add` |
| `undo`, `clear` | `error_remove`; `__fat_remove_entries`, a block at a time |
| `added` | `fat_add_entries` has succeeded; `Added` is the rest of create and mkdir |
| `move`, `dotdot`, `count` | `vfat_rename` after the new entry: `fat_detach`, `fat_attach` and the write of the inode; `..`; the link counts |
| `rm`, `cleared` | `fat_remove_entries`: the block of the short name, then the other long-name slots |
| `removed` | `fat_remove_entries` has succeeded; `Removed` is the rest of unlink and rmdir, `Renamed` that of rename |
| `kept` | it has failed |
| `undo_dotdot`, `undo_move` | `error_dotdot` and `error_inode` |
| `refused` | `out:` with an error; mkdir frees its cluster |
| `sync` | waiting for the blocks in `op.sync` |
| `ok`, `error` | returning: `Return` sets `result` and, as history, `listed` |

An object is an inode, at the place of its entry (`ObjectAt` is `fat_iget`).
`links` is `i_nlink` of directories, `neg` the negative dentries that
`vfat_revalidate` still accepts, since `i_version` of their directory has not
changed. `reader` is one readdir that stops whenever it likes, at `StartOf` the
record that did not fit or behind one it has given. Write-back, the first cluster
of a file (`Write`) and eviction (`Evict`) happen between operations.

`fat_chain_add` waits for the entry of a directory only: a file that gets its
first cluster has it in the table and in the inode, which is dirty, with
`dirsync` too. Write-back then puts it in the entry in the buffer (`WriteInode`),
and `WriteBuffer` writes the block, at once if `__fat_write_inode` was asked to
wait, or whenever the block has its turn. If that write fails the block is read
again, and the cluster stays without an entry on the disk: the inode was taken
for clean before. So with `dirsync` the disk names every directory with its
cluster and every file, but a file that was just written to may have no cluster
there, and a power failure then leaves one that no entry names. The code means
it so ("we sync here only directories", `misc.c:147`); `AlwaysNamed` promises the
rest.

`LinkFails` takes a `fat_chain_add` that fails as not having linked. That it can
fail after the link is in the table is in `FatTable` (`chain_io`, finding 1).

`DirTree` is the promise and `KeepsTree` says that `FatDir` keeps it: whatever
fails, the operation returns an error and every name means what it meant. It is
given up only when a write fails that was to undo or to complete an operation
(`broken`): the code then reports "Filesystem corrupted", leaves an entry
without clusters, or says it could not remove the long-name slots. `Restart`
formats the volume then.

`FatRecovery` adds `Unmount`, `Recover` and `Restart`. `Recover` takes the first
slot of the first root cluster that starts with `DELETED_FLAG` and goes on with
the argument, which may be the deleted file's or any other's, moves the name to
the left and writes an end mark into the table entry of its first cluster. The
image is not mounted again after it: `2_restart.sh` formats it.

Any free cluster and any unused inode stand for all, as they are alike. Left
out: reads of directory blocks that fail (the code skips the block);
`fat_build_inode` failing after an entry was made; the directory's own inode,
which is marked for its times; errors and crashes of the table itself, which
`FatTable` has; aliases of positive dentries (`d_move`); `vfat_revalidate_ci`,
which drops more negative dentries than the one modelled; character sets; the
`ioctl` readdir; the fixed root directory of FAT12 and FAT16.

## 3. Runs

| run | instance | asks |
|---|---|---|
| `fat_clean` | a file and a directory, 2 blocks a cluster, 3 good clusters and a bad one, sizes to 3 clusters; FSINFO counts unknown, too small, or one too high for the bad cluster | when no I/O fails: is an error ever reported (`NoFsError`)? do chain, sizes and `i_blocks` agree between operations (`SettledExact`)? is `-ENOSPC` true (`EnospcIsTrue`)? does a write map the cluster it took (`MapsWhatItTook`)? |
| `fat_faults` | a file and a directory, 3 clusters, every failure but `chain_io` | nothing shared, nothing free in use, the counter exact, every block backed, and the chains implement `ClusterPool` |
| `fat_live` | two files, 2 clusters, reads and end marks fail, errors do not stop the volume | every operation that begins returns (`Finishes`), so every error path gives `fat_lock` back |
| `fat_chain_io` | two files, 3 clusters, `chain_io` fails | `NoFreeInUse` is **violated**: see findings |
| `fat_cache` | a reader and the writer, 2 places, a file of up to 4 clusters, 2 truncations, allocations may fail | agreement of cache and table (`CacheAgrees`), walks that stand on the chain (`StandsOnChain`), the count of places (`CountsPlaces`, from which `VictimFound` proves that there is a run to overwrite), merges (`MergeAgrees`) |
| `fat_cache_stale` | two readers, 2 places, up to 5 clusters | `CacheAgrees` is **violated**: see findings |
| `fat_cache_victim` | two readers, 1 place | `VictimExists` is **violated**: see findings |
| `sync_labs` | every program, two readers and three writers, 2 rounds for the counters | `TypeOK` (no count falls below 0, no semaphore rises above 1), `NoLostWakeup`, the reported results (`ResultRight`), `ImplementsResource`, and the program ends (`Finishes`) |
| `fat_mount` | two clusters, two threads, crashes, failing I/O | what the clear flag promises (`CleanIsWhole`), that a crash stays on record (`CrashRemembered`), when FSINFO (`CleanCountRight`) and `free_clusters` (`ValidCountRight`) are right |
| `fat_mount_missed` | the same, no crashes and no failing I/O | `ValidMeansValid` is **violated**: see findings |
| `fat_hash` | two names, three slots, two inodes, two files, two threads, one change a file | one inode for an entry (`OneInode`), none found at a freed slot (`FreeUnhashed`), a clean inode agrees with its entry (`CleanAgrees`), and the directory keeps its promise (`KeepsNames`) |
| `fat_dir` | nine uses of a volume of four clusters with two blocks of two slots each, three inodes; see below | whether operations do what they were asked or nothing (`KeepsTree`), one entry answers to a name (`OneAnswer`), no long-name slots stay behind and none are read as half a name (`NoStrays`), negative dentries are true (`NegativeTrue`), `.`, `..`, link counts and the NFS parent are right (`TreeRight`), readdir lists what stays once (`ListedOnce`), with `dirsync` the disk names every file and directory at any moment and no cluster that was given away, and has all that an operation did when it returns but for first clusters of files (`AlwaysNamed`), and recovery is exact (`RecoveryExact`) |

**Bounds.** A volume needs two clusters for contention and a third for a chain
with a middle; a request for two clusters that gets one happens on any full
volume. `MaxBlocks` lets one inode fill the volume, so that `-ENOSPC`, its undo
and a second inode that takes what was given back all occur. Sizes of two
blocks a cluster make rounding matter. In the cache, two places with runs of
one to four clusters give hits inside a run, hits that end just before the
target, merges, evictions and walks that extend a run; two truncations give a
copy that is two ids old. `MaxId` and `MaxLen` bound the number of truncations
and the length of the file; `Limit` bounds a walk as `s_maxbytes` does. In the
labs, two readers make a first and a last reader differ; with three writers a
signal can go to a writer that must wait on while another waits too; two rounds
let a thread come back before a waiter has gone in, and give an unprotected
counter its worst result, two. `FatMount` bounds nothing but its sets: a volume
may be mounted, torn and mounted again for ever. Two clusters tell "one too
few" from "none", and with two threads one can be before its mark while the
other's change is written.
In `FatInodeHash`, with two names one can be renamed over or beside the other;
the third slot lets a file made later take another slot than the one just
freed, or the same; two inodes suffice for one to be unlinked, replaced or
freed while another is built; `MaxVer`, one change of a file, tells the version
that must survive from the one that must not come back. A slot and a file are
used again without bound.

`fat_dir` chooses one of nine setups, each with the operations and names that
make one thing happen. `L` and `K` have the same first letters, one and two
long-name slots, and aliases with a tail; `t` is the name that one of these
aliases spells; `x` has a long-name slot and no tail; `p` and `q` are short, and
only `p` ends with a character twice.

| setup | what happens in it |
|---|---|
| Aliases | `L`, `K` and `t` made, missed and deleted in any order: aliases collide, negative dentries turn false |
| Listing, Shuffling | a readdir stops between creates, deletes and renames, also over an existing name |
| Growing | with `dirsync`, failing writes and a volume label: names cross a block and the end of the directory, which grows; files get their first cluster, and write-back, which may fail, brings it to the disk or not |
| Nesting | directories in directories: moves, refusals, directories that are not empty, a full volume |
| Moving | moves with `dirsync` and failing writes |
| Replacing | three directories, one renamed over another, the same way; at most five operations (`calls`) |
| Filling | directories fill the volume and grow while nothing is free |
| Undelete | creates, writes, deletions, unmount, recovery |

Blocks of two slots put a name of three slots across blocks and, with four slots
a cluster, across the end of a directory; `MaxSlots` 8 lets a directory be as
long as it may be. `files` bounds the inodes in use at once. Except in
Replacing the operations are not bounded in number. `Counted` stops following
the link counts once the code has got one wrong (see the findings).

**Fairness** (`fat_live` and `sync_labs`; everything else is safety). In the
labs every thread is scheduled (`WF` of its steps, and of the main thread's),
and a mutex does not pass over a waiter for ever (`SF` of `CdvLock`, the one
mutex of which a thread may need several holds while others come and go);
nothing is assumed of semaphores, spin locks and the rwlock beyond that, since
every thread has a bounded number of rounds. `fat_live`: A thread that has begun an operation is
scheduled (`WF` of its steps), and the mutex `fat_lock` does not pass over a
waiter for ever (`SF` of `AllocLock` and `FreeLock`; the kernel's mutex hands
over to a waiter at the head of its queue). Nobody is obliged to start an
operation.

### Findings

1. `fat_chain_add` can fail *after* `fat_ent_write` has put the new link into
   the table, when the sync of the block or its mirroring fails. Its callers
   then free the cluster, and the chain leads to a free entry which the
   allocator can hand to another file. All theorems about ownership assume that
   this one write does not fail; every other failure is allowed.
2. `fat_cache_add` compares the id of its copy before it drops the lock to
   allocate and not after. In the trace, a reader of a block that stays in the
   file copies a listed run that goes on beyond that block; another thread's
   addition takes the run's place in the list; the reader, about to add its
   copy again, waits in the allocation while the file is cut behind its block
   and the cache is invalidated, and then inserts a run over freed clusters.
   It takes a third thread: with one reader and the writer `fat_cache` finds
   no such run.
3. `nr_caches` counts places whose threads still allocate. If they are all of
   that kind the list is empty, and `fat_cache_add` overwrites the entry
   `cache_lru.prev`, which is the list head. It needs more threads than places:
   `VictimFound` proves that with `MaxCache` threads or fewer it cannot happen.
4. `mark_fsinfo_dirty` does nothing on a read-only volume, and an error makes a
   volume read-only under operations that go on: a cluster freed by one of them
   (or by an eviction after it) changes `free_clusters` and is not marked.
   Remounting it read-write, which a comment invites to, and a clean unmount
   leave the old count in FSINFO with the flag clear, and the next mount with
   `usefree` takes it for valid. This is also why `CleanCountRight` and
   `ValidCountRight` except histories with `missed`. With `usefree`,
   `fat_fill_super` believes FSINFO even of a volume whose flag is set; no
   comment promises otherwise, so `ValidCountRight` excepts that too.

More behaviours showed up that no document of the repository contradicts
outright, so no run lists them. In `FatInodeHash`: with `dirsync`, a removal
that fails after the entry was freed in the buffer makes `vfat_unlink` return
without `fat_detach`. If the failed write reached the disk after all (otherwise
the block is read again, with its entry, as in `FatDir`), the inode stays in the
hash at a free slot, and whoever creates a file there gets it. The comment above
the hash in `inode.c` counts on unlink to unhash. And a rename that is undone puts the inode back at its old place but
does not mark it dirty: changes that went to the new entry are gone with it.
`FreeUnhashed`, `CleanAgrees` and `KeepsNames` therefore promise nothing once
I/O has failed.

In `FatDir`: a directory renamed over an empty one in the same directory leaves
the parent's link count one too high, since the replaced directory is not
counted out; and a rename between directories that fails after the counts were
moved moves back `..` but not the counts (`miscount`). Long-name slots that a
failed second stage of `fat_remove_entries` leaves behind can be taken for part
of a new entry with the same alias. Without `dirsync` a renamed entry has no
start cluster until its inode is written, so until then `fat_rebuild_parent`
would not find it; it runs only on read-only volumes.

In `FatRecovery`: the name comes back whole only if its last two characters are
equal, as they are in a name that is padded with at least two blanks
(`RecoveredName`); the comment at `fat_recovery_practice/fat_recovery.c:87`,
"just getting rid of first deleted flag would be enough to recover file", does
not say so. The tool takes the first slot that fits, also the remains of a long
name; it looks only at the first cluster of the root; it restores one cluster of
a chain, in the first table only; for an empty file it writes table entry 0; and
once it has restored a file, a second recovery with the same prefix can restore
an older one that shares the cluster; and it never asks whether the cluster was
given to another file since. `RecoveryExact` therefore speaks of the files deleted
since anything else was done, and of short names; it says nothing of a cluster
that has a new owner.

## 4. Proofs

All statements are for every set of inodes, every size of volume and every
choice of failures, unless an assumption is named.

**Types.** `TypeCorrect` is `Spec => []TypeOK`. It is not inductive on its own:
`TypeInv` adds per-thread facts (`LocalOK`) that say which local is a cluster
at which label. They are what keeps `fat[cluster[i]]` inside the table.

**Ownership** (`NothingShared`, `NothingFreeInUse`; assumption: `chain_io` is
not among the failures). The two properties are only inductive together:
freeing preserves "nothing shared" because nobody refers to the cluster freed,
and allocating preserves it because nobody refers to a free one. `OwnInv` is
their conjunction over the table, `i_start` and the locals; one lemma per group
of actions shows what it moves. `OwnDrop` covers every step that only forgets a
reference, which is what a leak is.

**Scan** (`OneInside`, `ScanMissesNothing`). `LockInv`: a thread at a label
inside the lock holds it. `ScanInv`: the entries between `prev_free` and the
scan, counted with the wrap, are not free; it survives the steps of others
because only the holder of the lock frees or takes.

**Counter** (`CounterCorrect`, `EnospcCorrect`; the same assumption, and a
finite set of clusters, which `MaxCluster \in Nat` gives). Each decrement must
come with an entry that was free and each increment with one that was not, so
the hard part is that no *other* write to the table makes or unmakes a free
entry: `fat_chain_add` and `fat_free` write outside `fat_lock`, with a cluster
they found in an earlier step. `LabelInv` says there is a labelling of the
clusters by inodes such that chains stay inside one label and every local a
thread will write through carries that thread's label; free entries carry none.
A thread that writes outside the lock therefore never meets an entry another
thread has freed or taken. The labelling is existentially quantified; each step
lemma gives the new one.

**Chains** (`ChainsArePool`, `BlocksBacked` without `chain_io`;
`NothingLeftOver`, `NothingReported` and `MapsTheNewCluster` when no call
fails). `ChainFrom(c)` is the least set that holds `c` and that no entry of the
table leads out of. Said that way it needs no recursion, and the lemmas
`FromLeast`, `FromStep`, `FromSame`, `FromApart`, `FromLink` and `FromCut` say
how one changed entry changes a chain. `WalkInv` says where a walk stands, on
the chain of its inode with `fclus` clusters behind it, and how many new
clusters hang beside the chain before they are linked (`Hung`); together with
the types, ownership and labels it is `Sound`. A step of another inode changes
no entry of this one's chain (`Touches`), and `ChainsArePool` follows action by
action. `BackedInv` bounds sizes by the length of the chain, at rest and at each
label of a cut or a growth, where the chain is changed before `i_size` or after
it. `ExactInv` replaces the bounds by equalities and adds that `i_blocks` is the
length; with it no branch that calls `fat_fs_error` can be taken. Each of these
three theorems has the failures it excludes as its hypothesis because the code
really leaves clusters over when a call fails.

**Extent cache** (`PlacesCounted`, `VictimFound` for any readers; `CacheTyped`,
`CacheIsTrue`, `StandsRight` and `MergeIsSafe` for one reader). The count of
places is the length of the list plus the threads at `alloc`; each step changes
both sides alike. From it, and a bound on the number of threads, a full list is
not empty. `CacheInv` says that for some `L` the chain has `L` clusters, each
met once; that every listed run lies on it and no two begin at one cluster; that
every walk stands on it and aims inside it, unless the writer is cutting just
there; and that a copy to be added is a run of the chain or has an id that is
no longer valid. Positions in a chain need induction over the numbers, which
`Steps` derives from the pigeonhole theorem of the library. One reader matters
for the threads that wait in the allocation: a run they have copied from the
list is still there, or the list is full, so whoever must allocate adds a run it
has walked itself, and no truncation can take that away. With a second reader
the same claim is false, which is what `fat_cache_stale` shows.

**Labs** (`MutualExclusion`, `NoWakeupLost`, `LabsImplementResource`,
`TypeCorrect`, `ReportsResult`; any finite sets of threads, any number of
rounds). `SyncInv` has a part for each kind of protocol. The counts must be the
number of threads that are inside: `CdvInv` and `SemInv` say so with
cardinalities of sets of program counters, and the lemma `CountOne` says how a
cardinality moves when one thread does. Exclusion follows from the counts
(`ExcludedHolds`). `CopyInv`, a writer's copy is the shared variable while it is
inside, needs exclusion; with both, every step is a step of `SharedResource` or
does not show. `NoWakeupLost` needs the counts too: a thread waits only while
one of them is above 0, so somebody is inside. `ResultInv` counts the rounds
whose store has happened: a protected counter is their number, an unprotected
one at most that. The first store of an unprotected counter leaves at least 1,
every later round loads at least that, and the last store of all is the last of
some thread, which leaves at least 2. The types come last, since that no count
falls below 0 is a consequence of the others.

**Mount** (`TypeCorrect`, `CleanLosesNothing`, `CrashOnRecord`, `CleanCount`,
`ValidCount`; any finite set of clusters, any threads, crashes and failures or
not). `FlagInv`: a volume that is mounted and can be written has its flag set
unless I/O failed; one that is being taken down has nobody at work and its table
on the disk; a volume that was dirty when mounted stays so. `CountInv` follows
the four copies of the count (`free_clusters`, the FSINFO buffer, FSINFO on the
disk, and the number of free entries itself): `free_clusters` is right or
unknown throughout (`MemoryRight`), the buffer whenever nothing waits to be
written (`BufferRight`), the disk at the moments when everything has been
(`DiskRight`). A thread at work is never at such a moment, which is where the
counts need `FlagInv`.

**Inode hash** (`TypeCorrect`, `OneInodeAlways`, `FreedIsUnhashed`,
`CleanLosesNothing`, `NamesKept`; any names, slots, inodes, files and threads).
`HashInv` has nine parts. `LockInv` says which thread holds `s_lock` and
`nfs_build_inode_lock`; `LookInv`, what a thread that builds an inode knows of
its entry (above all that no inode has its place yet); `MoveInv`, what one that
takes a name away knows. `InodeInv` keeps inodes that are being freed out of
everybody's hands, with nothing to write if they still have a place; `DentryInv`
ties a dentry to the entry of its name, unless a thread is just moving it. With
these, `OneInode`, `NameInv`, `FreeInv` and `CleanInv` are inductive: the last
two are the properties with the two moments excepted at which they are false
(`Leaving`, `Saving`), and both moments are under `s_lock`. There is one lemma
per action. `OneInodeAlways` needs no assumption about I/O. `NamesKept` is the
refinement of `NameSpace`: a name means the file and version in the inode found
at its entry, or in the entry itself when there is none, and while it is renamed
what it meant before (`MeaningInv`). Lookups, handles, write-backs and evictions
do not change a meaning, since a clean inode agrees with its entry; a create, an
unlink and a write change one in a single step, and a rename changes two in its
last.

**Directories** (`NamesDistinct`, `FreeRunFree`, `RecoveredName`). `NamesDistinct` (`Tree!Spec => []Tree!Distinct`) is about
`DirTree`, and so about anything that implements it: a name of a directory is
listed once, and an object has one name in the volume. It is inductive as it
stands; the case that needs work is a rename over an existing name, where one
entry takes the directory and the name of another. The other two are about the operators of `DirSlots`, for
directories of any length: the slots that `fat_add_entries` fills are free, whether the run
was found inside the directory or at its end (lemmas `Least` and `Greatest`
give what the two CHOOSEs in it choose); and a name that was deleted and
recovered is what it was exactly when its last two characters are equal.

**Reading a directory** (`DirectoryRead`, `NameAdded`, `NothingHalfAdded`,
`NameRemoved`, `NothingHalfRemoved`; directories and names of any length).
The parser goes over the slots with a loop that a long-name slot may send back
to its start (`parse_long` in `dir.c`), and `RecordsFrom` is that loop.
`Standing` is what a directory is meant to say: each short entry that is in use,
with the whole run of long-name slots before it if there is one. `DirectoryRead`
proves that the two are equal for every directory that is `Tidy`, where a
long-name slot is part of a whole run or is followed by nothing it could belong
to. The other four take a `Whole` directory, which has no such leftovers, and
compare it with one that differs in the slots of one name: all of them written,
a part of them, all freed, the short one freed and the rest not yet. Their
hypotheses put no order on the writes, so they hold for the buffers, for a block
that reached the disk before another, and for a directory whose new cluster is
not linked yet. That the directories of `FatDir` are as the hypotheses ask is
the next theorem.

**No strays** (`StraysNever`: `SpecRecovery => [](mounted => NoStrays)`; any
volume, any names, with and without `dirsync` and failures). No long-name slot is
left behind in a directory that is at rest, and with `dirsync` the disk is tidy
at any moment, so that a power failure never shows half a name. The property
is about the disk at any moment of an operation too, and about the state when it
has returned, so the invariant has to know where each operation stands. `Shape`
gives the form of `op`, always.
`SlotsInv` says `Core` of a mounted volume on which no undoing write has failed.
`Core` has four parts:

- `Typed`: the table, the slots and the inodes.
- `Synced`: with `dirsync` the disk differs from the buffers only in blocks that
  are being written, and in first clusters (`Likes`).
- `Sound`, at the label where the operation is, or will be when its writes
  succeed: `Owned` (every inode, a directory that is being made and a cluster
  that is being linked have chains of their own), `Knows` (which fields are set)
  and `Fit` (every directory is `Whole`, except that the one at work has a name
  that is partly there, `Adding` and `Cutting`; and the entries of a rename
  stand, `Renaming`).
- `Secure`: for any subset of the blocks being written, the disk with just these
  is tidy, and a volume whose other blocks are lost is `Sound` at the label of
  the error path. This is what a step of `Flush` and a step of `SyncFail` need,
  and it makes the order of the writes irrelevant.

Each action has a lemma; those that write are instances of `NameAdded`,
`NothingHalfAdded`, `NameRemoved` and `NothingHalfRemoved`, and `SyncsAll` and `SyncsOne` turn
"sound before, sound after, secure between" into a step. The assumptions used
are those of the modules: what a setup is (`SetupAssumption`), that a name fits
in one cluster (`ClusterAssumption`), what `vfat_create_shortname` returns
(`FormAssumption`), that clusters and inodes are finitely many and not confused
with other values. The invariant was a property of a run of `fat_dir` before it
was proved, which found what the first version of it lacked. The hypothesis
`mounted` is needed for the proof because `fat_recovery` ends the chain of a
cluster without asking whose it is. `SlotsAreDone` follows from the same
invariant: `Synced` with nothing left to write is `DoneOnDisk`, the part of `AlwaysNamed`
about rest, but for the first clusters. Since no directory is read by what its entries have for those
(`LikesSound`), the disk may be behind in them anywhere in the proof.

**Names** (`OneAnswers`, `NegativesTrue`: `SpecRecovery => [](mounted => ...)`;
`TreeKept`: `SpecRecovery => KeepsTree`; `ListedDistinct`; any volume, names,
setup and failures). `SlotsInv` says where the slots of an operation stand, not
whose they are. `NamesInv` is the second invariant, on top of it. It looks at a
directory as a set of `Spots`, one for each short entry: where it is, its text,
and the name that the long slot before it belongs to. `SpotsOut`, `SpotsFull`
and `SpotsHalf` say what writing or deleting a run of slots does to that set,
and from there on the proofs are about sets and not about slots. At the label where the operation
stands, or will stand when its writes succeed, and again at the label of the
error path for every subset of the blocks that may not have been written
(`Told`), `Known` says:

- `Sorted`: no two entries of a directory have the same text or belong to one
  long name, and an entry with a long name has an alias of that name;
- `Posted`: each entry has exactly one inode or none needs it, and each inode
  with a place has an entry there, but for the entry an operation has added and
  the one it is about to take away (`Loose`);
- `Renames`: where the two inodes of a rename are at each label;
- `Awaited`: the name that is being added is not there yet and its alias is on
  no entry, the entry to be removed is the only one that answers to the name,
  and a directory that goes has nothing in it;
- `Denied`: no negative dentry is for a name that is there, the alias of a new
  name included;
- `Recorded`: what was listed when the operation began is what the entries say
  now, or said before, or is related to it as the request asked (`Meant`).

`OneAnswer` and `NegativeTrue` are `Sorted` and `Denied` at rest. For `TreeKept`
every step must be a step of `DirTree` or none: a request is asked, `Return`
with `ok` answers by `Meant`, `Return` with an error refuses, and a write that
fails while it undoes or completes an operation is `Fail`. `ListedDistinct`
follows from it and `NamesDistinct`. Beyond the assumptions above these theorems
use that the short name of a name without long slots is that name's own, that
no name has the short name `.` or `..` (`vfat_create_shortname` skips dots), and
that `None` is not a place, an inode's contents or a request.

**Readdir** (`ReadOnce`: `SpecRecovery => []ListedOnce`; any volume, names, setup
and failures). A position in a directory means something only together with what
was there: `FollowedInv`, on top of `NamesInv`, follows each entry that was
listed when the directory was opened and is listed still (`stay`). There is a slot
where its inode has its place or, while a rename has taken it elsewhere, from
which the rename took it (`InPlace`; `Home` has the labels at which the inode is
where it was); and that slot is behind the position if the entry was given, or
all of the name is in front of it if not (`Passed`). `Labelled`
says that the first long slot of any name has the number of slots of it, on the
disk too, so that `StartOf` is where the name begins also after a write that
failed. A name that an operation takes away leaves `stay` when the operation
returns; a rename that is undone leaves it there, and has the inode in its place
again by then.

**Only model-checked.** Liveness (both `Finishes`), which is out of the prover's
reach, and four properties of `fat_dir`. `TypeOK` and `TreeRight` count
subdirectories (the bound of `links` in `TypeOK` is about that count).
`AlwaysNamed` is about first clusters on the disk, which the invariants leave
open; its part about names is `StraysNever` and `SlotsAreDone`.
`RecoveryExact` follows what `lost` remembers of a deleted name through later
operations; the theorem about the shift itself is `RecoveredName`.

## 5. Plan

In order of importance to the system:

1. `FatTable` with `ClusterPool`, `FatChains` and proofs – done.
2. `FatCache` with proofs – done.
3. `SyncLabs` with `SharedResource` and proofs – done.
4. `FatMount` with proofs – done. It hands `FatTable` its initial counters: any
   that `Mount` can leave.
5. `FatInodeHash` with `NameSpace` and proofs – done, the refinement
   included.
6. Directories (`DirSlots`, `FatDir`, `DirTree`) and `FatRecovery`, with proofs
   about `DirTree`, the slots, and through every operation of `FatDir` `NoStrays`,
   `OneAnswer`, `NegativeTrue`, `KeepsTree` and `ListedOnce` – done. Left: proofs
   about the counts of links (`TreeRight`) and about first clusters on the disk
   (`AlwaysNamed`).
7. Left: backup tables (`FatMirror`), 12-bit packing, and the pure algorithms: time
   conversion, short names, the division of work in the tree lab; the probes.

Abstract specifications: `ClusterPool`, `SharedResource`, `NameSpace`, a map
from names to files, and `DirTree`, the same for a tree of directories (done).
All four refinements are theorems.

### Not modelled

The backup tables and the packing of 12-bit entries; `statfs`, which may report
any count that was right at some moment; the jbd2 probes, whose registration
returns with the kprobe still registered when the jprobe fails
(`jbd2_probe.c:70`), a matter of two calls; the division of work in the tree lab.

Formatting and parsing of options, character-set tables, `ioctl` volume ids and
attributes, usage texts and option tables of the labs (no state worth a model);
`namei_msdos.c` (not built); the stubs that students fill in, among them the
lock of `lab2_bonus.c`; `lab2_sync/lab2_example.c`, an experiment with alarms
whose threads never end.
