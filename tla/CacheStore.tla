----------------------------- MODULE CacheStore -----------------------------
(***************************************************************************)
(* The cache of configs and services and its copy on disk                  *)
(* (src/common/cache/mod.rs, src/common/cache/disk.rs).                    *)
(*                                                                         *)
(* Changes of the map spawn a task each that writes the entry to a         *)
(* temporary file, syncs it and renames it; every await of it is a step of *)
(* its own.  The name of the temporary file is the key with what follows   *)
(* its last dot replaced, so that keys may share one (TmpOf).  The n-th    *)
(* change writes the value n.  The process may end at any step, or the     *)
(* machine with it, and starts again with or without loading.  Nothing     *)
(* syncs the directory: the end of the machine may undo a rename or a      *)
(* removal of a file long after it was done.                               *)
(***************************************************************************)
EXTENDS Naturals, FiniteSets, Sequences

CONSTANTS
    Keys,        \* cache keys, which are file names
    TmpOf,       \* the temporary file of each key
    MaxRetries,  \* MAX_RETRIES of save and remove
    MaxChanges,  \* bound: changes of the map
    MaxTasks,    \* bound: tasks at a time
    MaxFaults,   \* bound: operations on files and the directory that fail
    MaxCrashes   \* bound: ends of the process

ASSUME StoreAssumption ==
    /\ DOMAIN TmpOf = Keys /\ IsFiniteSet(Keys)
    /\ MaxRetries \in Nat \ {0}
    /\ MaxChanges \in Nat /\ MaxTasks \in Nat /\ MaxFaults \in Nat /\ MaxCrashes \in Nat

Tmps == {TmpOf[k] : k \in Keys}
Changes == 1..MaxChanges

Missing == 0          \* no value, no file, no inode, an empty file
Torn == MaxChanges + 1 \* a content that does not deserialise

\* Enough inodes: one for each file name, those a crash may bring back among
\* them, and each open handle.
Inodes == 1..(3 * Cardinality(Keys) + MaxChanges)

VARIABLES
    mode,    \* "down", or what the cache is kept in
    mem,     \* Cache.inner
    tasks,   \* the spawned tasks, by the change that spawned them
    changes, \* changes made
    dir,     \* the directory of the store exists
    making,  \* the task that makes it has not ended
    file,    \* the inode each key's file name leads to
    tmp,     \* the inode each temporary file name leads to
    content, \* what each inode holds
    synced,  \* the inodes whose content is on the disk
    journal, \* the inode each key's file name leads to on the disk
    faults, crashes,
    held,    \* history: the values each key has had
    removed, \* history: the changes that removed each key
    saved,   \* history: the change of each key that was done last
    settled, \* history: the same, as the end of the machine leaves it
    raced,   \* history: the temporary files that tasks have used at once
    unwritten\* history: the changes of which a write has failed unseen

memVars == <<mode, mem, changes, held, removed>>
dirVars == <<dir, making>>
diskVars == <<dirVars, file, tmp, content, synced, journal>>
bounds == <<faults, crashes>>
history == <<saved, settled, raced, unwritten>>
vars == <<memVars, tasks, diskVars, bounds, history>>

Modes == {"memory", "disk"}
Steps == {"none", "spawned", "ready", "opened", "written", "synced", "sleeping"}
Task == [op : {"save", "remove"}, st : Steps, key : Keys,
         val : 0..MaxChanges, attempt : 1..MaxRetries, fd : {0} \cup Inodes]
NoTask == [st |-> "none"]

StoreTypeOK ==
    /\ mode \in Modes \cup {"down"}
    /\ mem \in [Keys -> 0..MaxChanges]
    /\ tasks \in [Changes -> Task \cup {NoTask}]
    /\ changes \in 0..MaxChanges
    /\ dir \in BOOLEAN /\ making \in BOOLEAN
    /\ file \in [Keys -> {0} \cup Inodes]
    /\ tmp \in [Tmps -> {0} \cup Inodes]
    /\ content \in [Inodes -> 0..Torn]
    /\ synced \in SUBSET Inodes
    /\ journal \in [Keys -> {0} \cup Inodes]
    /\ faults \in 0..MaxFaults /\ crashes \in 0..MaxCrashes
    /\ held \in [Keys -> SUBSET Changes]
    /\ removed \in [Keys -> SUBSET Changes]
    /\ saved \in [Keys -> 0..MaxChanges] /\ settled \in [Keys -> 0..MaxChanges]
    /\ raced \in SUBSET Tmps
    /\ unwritten \in SUBSET Changes

Init ==
    /\ mode = "down"
    /\ mem = [k \in Keys |-> Missing]
    /\ tasks = [n \in Changes |-> NoTask]
    /\ changes = 0
    /\ dir = FALSE /\ making = FALSE
    /\ file = [k \in Keys |-> Missing] /\ journal = [k \in Keys |-> Missing]
    /\ tmp = [t \in Tmps |-> Missing]
    /\ content = [i \in Inodes |-> Missing]
    /\ synced = {}
    /\ faults = 0 /\ crashes = 0
    /\ held = [k \in Keys |-> {}]
    /\ removed = [k \in Keys |-> {}]
    /\ saved = [k \in Keys |-> 0] /\ settled = [k \in Keys |-> 0]
    /\ raced = {} /\ unwritten = {}

-----------------------------------------------------------------------------
(* The life of the process.                                                *)

\* What load finds under k: temporary files are not looked at, and what does
\* not deserialise is left out.
Loaded(k) ==
    IF file[k] # Missing /\ content[file[k]] \in Changes
    THEN content[file[k]] ELSE Missing

Fault == faults < MaxFaults /\ faults' = faults + 1

\* CacheBuilder::store chooses the store, which spawns a task that makes its
\* directory; build loads what can be read when it is asked to.
Begin(m, read) ==
    /\ mode = "down" /\ mode' = m
    /\ mem' = [k \in Keys |-> IF k \in read THEN Loaded(k) ELSE Missing]
    /\ making' = (m = "disk")
    /\ UNCHANGED <<changes, held, removed, tasks, file, tmp, content, synced, journal,
                   crashes, history>>

StartEmpty(m) == Begin(m, {}) /\ UNCHANGED <<dir, faults>>

\* load makes a missing directory itself.
StartLoaded ==
    /\ Begin("disk", Keys)
    /\ dir' = TRUE
    /\ UNCHANGED faults

\* It cannot, or the directory or a file of it cannot be read.
LoadFails(read) ==
    /\ Begin("disk", read)
    /\ Fault
    /\ UNCHANGED dir

\* The task of DiskStore::new.
MakeDir ==
    /\ mode # "down" /\ making
    /\ making' = FALSE /\ dir' = TRUE
    /\ UNCHANGED <<memVars, tasks, file, tmp, content, synced, journal, bounds, history>>

\* Its error is dropped, and nobody tries again.
MakeDirFails ==
    /\ mode # "down" /\ making /\ ~dir
    /\ Fault
    /\ making' = FALSE
    /\ UNCHANGED <<memVars, tasks, dir, file, tmp, content, synced, journal, crashes, history>>

\* The name of a file reaches the disk at any time, and in any order, for
\* nothing syncs the directory.  (After the last crash it makes no difference.)
Journal(k) ==
    /\ crashes < MaxCrashes
    /\ journal' = [journal EXCEPT ![k] = file[k]]
    /\ settled' = [settled EXCEPT ![k] = saved[k]]
    /\ UNCHANGED <<memVars, tasks, dirVars, file, tmp, content, synced, bounds, saved, raced,
                   unwritten>>

\* The process ends, with the map and the tasks.
End ==
    /\ mode # "down" /\ crashes < MaxCrashes
    /\ crashes' = crashes + 1
    /\ mode' = "down"
    /\ mem' = [k \in Keys |-> Missing]
    /\ tasks' = [n \in Changes |-> NoTask]
    /\ making' = FALSE
    /\ UNCHANGED <<changes, held, removed, dir, tmp, journal, faults, settled, raced, unwritten>>

Killed == End /\ UNCHANGED <<file, content, synced, saved>>

\* The machine ends with it: any content that was not synced may be lost, and
\* the files are those of the disk.  (Of temporary files, which are truncated
\* before they are used, it does not matter which are left; and an empty
\* directory stands for a lost one.)
PowerFails(lost) ==
    /\ End
    /\ file' = journal /\ saved' = settled
    /\ content' = [i \in Inodes |-> IF i \in lost THEN Torn ELSE content[i]]
    /\ synced' = Inodes

-----------------------------------------------------------------------------
(* Changes of the map.                                                     *)

Busy(n) == tasks[n].st # "none"

\* A change and the task it spawns, if there is a store to write to.
Spawn(k, value, task) ==
    /\ mode # "down" /\ changes < MaxChanges
    /\ Cardinality({n \in Changes : Busy(n)}) < MaxTasks
    /\ changes' = changes + 1
    /\ mem' = [mem EXCEPT ![k] = value]
    /\ tasks' = IF mode = "memory" THEN tasks
                ELSE [tasks EXCEPT ![changes + 1] = task]
    /\ held' = [held EXCEPT ![k] = @ \cup ({value} \ {Missing})]
    /\ removed' = [removed EXCEPT ![k] = @ \cup IF value = Missing THEN {changes + 1} ELSE {}]
    /\ UNCHANGED <<mode, diskVars, bounds, history>>

NewTask(o, st, k, v) ==
    [op |-> o, st |-> st, key |-> k, val |-> v, attempt |-> 1, fd |-> 0]

\* Cache::insert: the bytes are those of the inserted value.
Insert(k) == Spawn(k, changes + 1, NewTask("save", "ready", k, changes + 1))

\* A variant of Modify that takes the bytes before the entry is changed.
ModifyEarly(k) ==
    /\ mem[k] # Missing
    /\ Spawn(k, changes + 1, NewTask("save", "ready", k, mem[k]))

\* get_mut and the drop of the CacheRefMut: the task takes the bytes later.
Modify(k) ==
    /\ mem[k] # Missing
    /\ Spawn(k, changes + 1, NewTask("save", "spawned", k, 0))

\* Cache::remove.
Remove(k) ==
    /\ mem[k] # Missing
    /\ Spawn(k, Missing, NewTask("remove", "ready", k, 0))

-----------------------------------------------------------------------------
(* The tasks.                                                              *)

TmpName(n) == TmpOf[tasks[n].key]

\* Nothing makes the tasks of one temporary file take turns in the order they
\* were spawned: a task that starts before its turn is remembered.
Turn(n) == \A m \in Changes \ {n} :
    Busy(m) => TmpName(m) # TmpName(n) \/ (m > n /\ tasks[m].fd = 0)
Starting(n) == raced' = IF Turn(n) THEN raced ELSE raced \cup {TmpName(n)}

At(n, o, st) ==
    /\ mode # "down" /\ Busy(n)
    /\ tasks[n].op = o /\ tasks[n].st = st

Goto(n, st) == tasks' = [tasks EXCEPT ![n].st = st]
Done(n) == tasks' = [tasks EXCEPT ![n] = NoTask]

\* What change n asked for is on disk.
Saved(n) == saved' = [saved EXCEPT ![tasks[n].key] = IF @ < n THEN n ELSE @]

\* The task of a dropped CacheRefMut reads the entry there is now.
TakeBytes(n) ==
    /\ At(n, "save", "spawned")
    /\ LET v == mem[tasks[n].key] IN
       IF v = Missing THEN Done(n)
       ELSE tasks' = [tasks EXCEPT ![n].st = "ready", ![n].val = v]
    /\ UNCHANGED <<memVars, diskVars, bounds, history>>

Referenced ==
    {file[k] : k \in Keys} \cup {journal[k] : k \in Keys} \cup {tmp[t] : t \in Tmps}
        \cup {tasks[n].fd : n \in {m \in Changes : Busy(m)}}

FreeInode == CHOOSE i \in Inodes : i \notin Referenced

\* open with create and truncate: a temporary file left behind is reused.
OpenTmp(n) ==
    /\ At(n, "save", "ready") /\ dir
    /\ Starting(n)
    /\ LET i == IF tmp[TmpName(n)] # Missing THEN tmp[TmpName(n)] ELSE FreeInode IN
       /\ tasks' = [tasks EXCEPT ![n].st = "opened", ![n].fd = i]
       /\ tmp' = [tmp EXCEPT ![TmpName(n)] = i]
       /\ content' = [content EXCEPT ![i] = Missing]
       /\ synced' = synced \ {i}
    /\ UNCHANGED <<memVars, dirVars, file, journal, bounds, saved, settled, unwritten>>

\* write_all from offset 0.  Over the bytes of another handle the tail of a
\* longer content stays.
WriteAll(n) ==
    /\ At(n, "save", "opened")
    /\ LET i == tasks[n].fd IN
       /\ \E c \in {tasks[n].val, Torn} :
             /\ c = Torn => content[i] # Missing
             /\ content' = [content EXCEPT ![i] = c]
       /\ synced' = synced \ {i}
    /\ Goto(n, "written")
    /\ UNCHANGED <<memVars, dirVars, file, tmp, journal, bounds, history>>

\* write_all only hands the bytes over.  When the write fails, sync_all puts
\* its error aside and reports how the sync went: the task goes on.
WriteFails(n) ==
    /\ At(n, "save", "opened") /\ Fault
    /\ content' = [content EXCEPT ![tasks[n].fd] = Torn]
    /\ synced' = synced \ {tasks[n].fd}
    /\ unwritten' = unwritten \cup {n}
    /\ Goto(n, "written")
    /\ UNCHANGED <<memVars, dirVars, file, tmp, journal, crashes, saved, settled, raced>>

\* A variant of SyncAll that only flushes.
SyncNothing(n) ==
    /\ At(n, "save", "written")
    /\ Goto(n, "synced")
    /\ UNCHANGED <<memVars, diskVars, bounds, history>>

SyncAll(n) ==
    /\ At(n, "save", "written")
    /\ synced' = synced \cup {tasks[n].fd}
    /\ Goto(n, "synced")
    /\ UNCHANGED <<memVars, dirVars, file, tmp, content, journal, bounds, history>>

\* rename takes whatever the temporary name leads to.
Rename(n) ==
    /\ At(n, "save", "synced") /\ tmp[TmpName(n)] # Missing
    /\ file' = [file EXCEPT ![tasks[n].key] = tmp[TmpName(n)]]
    /\ tmp' = [tmp EXCEPT ![TmpName(n)] = Missing]
    /\ Done(n) /\ Saved(n)
    /\ UNCHANGED <<memVars, dirVars, content, synced, journal, bounds, settled, raced,
                   unwritten>>

\* A variant of AttemptFailed that gives up one attempt early.
GiveUpEarly(n) ==
    IF tasks[n].attempt + 1 >= MaxRetries THEN Done(n)
    ELSE tasks' = [tasks EXCEPT ![n].st = "sleeping", ![n].fd = 0]

\* A variant of AttemptFailed whose loop has one attempt too many.
GiveUpLate(n) ==
    IF tasks[n].attempt > MaxRetries THEN Done(n)
    ELSE tasks' = [tasks EXCEPT ![n].st = "sleeping", ![n].fd = 0]

\* The retry loop of save and remove: the last attempt is not repeated.
AttemptFailed(n) ==
    IF tasks[n].attempt = MaxRetries THEN Done(n)
    ELSE tasks' = [tasks EXCEPT ![n].st = "sleeping", ![n].fd = 0]

\* The directory is not there, or the temporary file was renamed by
\* another task.
CannotProceed(n) ==
    /\ \/ At(n, "save", "ready") /\ ~dir
       \/ At(n, "save", "synced") /\ tmp[TmpName(n)] = Missing
    /\ AttemptFailed(n)
    /\ UNCHANGED <<memVars, diskVars, bounds, history>>

\* Any file operation of an attempt fails and the attempt with it.  A write of
\* more than tokio's buffer of 2 MB waits for its first part, and sees its error.
IoFault(n) ==
    /\ Fault
    /\ \/ At(n, "save", "ready") /\ content' = content
       \/ At(n, "save", "opened")
          /\ content' = [content EXCEPT ![tasks[n].fd] = Torn]
       \/ \E st \in {"written", "synced"} : At(n, "save", st) /\ content' = content
       \/ At(n, "remove", "ready") /\ content' = content
    /\ AttemptFailed(n)
    /\ UNCHANGED <<memVars, dirVars, file, tmp, synced, journal, crashes, history>>

WakeUp(n) ==
    /\ mode # "down" /\ tasks[n].st = "sleeping"
    /\ tasks' = [tasks EXCEPT ![n].st = "ready", ![n].attempt = @ + 1]
    /\ UNCHANGED <<memVars, diskVars, bounds, history>>

\* try_remove: no file is no error.
Unlink(n) ==
    /\ At(n, "remove", "ready")
    /\ Starting(n)
    /\ file' = [file EXCEPT ![tasks[n].key] = Missing]
    /\ Done(n) /\ Saved(n)
    /\ UNCHANGED <<memVars, dirVars, tmp, content, synced, journal, bounds, settled,
                   unwritten>>

-----------------------------------------------------------------------------
SaveTask(n) ==
    \/ TakeBytes(n) \/ OpenTmp(n) \/ WriteAll(n) \/ SyncAll(n) \/ Rename(n)
    \/ CannotProceed(n) \/ WakeUp(n) \/ Unlink(n)

Next ==
    \/ StartLoaded \/ \E m \in Modes : StartEmpty(m)
    \/ \E read \in SUBSET Keys : LoadFails(read)
    \/ MakeDir \/ MakeDirFails
    \/ Killed
    \/ \E lost \in SUBSET {i \in Inodes \ synced : content[i] # Missing} :
          PowerFails(lost)
    \/ \E k \in Keys : Journal(k) \/ Insert(k) \/ Modify(k) \/ Remove(k)
    \/ \E n \in Changes : SaveTask(n) \/ IoFault(n) \/ WriteFails(n)

Spec == Init /\ [][Next]_vars

\* Spawned tasks run to their end.  Nobody need change the map or start the
\* process again.
Fairness ==
    /\ WF_vars(MakeDir)
    /\ \A n \in Changes : WF_vars(SaveTask(n))

FairSpec == Spec /\ Fairness

-----------------------------------------------------------------------------
(* Properties.                                                             *)

\* Files whose temporary name no two tasks have used at once.
Undisturbed(k) == TmpOf[k] \notin raced
OnDisk(k) == IF file[k] = Missing THEN Missing ELSE content[file[k]]

\* As long as its temporary file is used by one task at a time, the file of a
\* key holds a value the key has had, at every step of every task and after the
\* end of the process or the machine, or what load leaves out because a write
\* of the change saved last has failed unseen: what load gives back is genuine.
\* Nor is it older than the change that was done last, whatever saves are
\* repeated after a failure or take their bytes late.  (It may be newer for a
\* while: a late save writes the value of a later change, and an insert spawned
\* between the two puts its own in its place.)
Genuine(k, i, n) ==
    \/ content[i] \in held[k] /\ n <= content[i]
    \/ content[i] = Torn /\ n \in unwritten
FilesGenuine ==
    \A k \in Keys : Undisturbed(k) /\ file[k] # Missing => Genuine(k, file[k], saved[k])

\* As long as fewer operations fail than a task has attempts, the disk always
\* catches up with the map: the file of a cached key holds the cached value.
\* Where the directory could not be made no file is ever written, and a write
\* that fails unseen is not repeated: there is nothing to catch up with then.  Nor
\* is a file promised when making the directory outlasts the first sleep of a task.
CaughtUp(k) == mode = "memory" \/ mem[k] \in {Missing, OnDisk(k)}
Writable(k) == Undisturbed(k) /\ saved[k] \notin unwritten /\ (dir \/ making)
MadeTooLate == making /\ \E n \in Changes : Busy(n) /\ tasks[n].attempt > 1
DiskCatchesUp == \A k \in Keys : <>MadeTooLate \/ []<>(Writable(k) => CaughtUp(k))

\* The awaits of a save, the failures of its operations, its retries and the
\* ends of the process cannot be told from a store that replaces each file in
\* one step: nothing but a save or a removal that is done touches what a file
\* holds, and the end of the machine leaves each file as it once was.
Files(inode, change) == [k \in Keys |->
    IF Undisturbed(k)
    THEN [value |-> IF inode[k] = Missing THEN Missing ELSE content[inode[k]],
          change |-> change[k]]
    ELSE [value |-> Missing, change |-> 0]]
Disk == Files(file, saved)
Kept == Files(journal, settled)
Disturbed == {k \in Keys : ~Undisturbed(k)}
Atomic == INSTANCE AtomicStore
             WITH up <- mode # "down", disk <- Disk, kept <- Kept, free <- Disturbed

StoreRefined == Atomic!StoreSpec

\* "Ensure data is flushed to disk before renaming", says the comment in
\* try_save: what is renamed into place is what the key was to be given.  Not
\* kept: the failure of a buffered write is not seen.
FlushedBeforeRename ==
    \A k \in Keys : Undisturbed(k) /\ file[k] # Missing => content[file[k]] \in held[k]
=============================================================================
