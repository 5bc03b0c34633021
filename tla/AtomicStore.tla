---------------------------- MODULE AtomicStore ----------------------------
(***************************************************************************)
(* What the cache promises of its copy on disk (src/common/cache): the     *)
(* file of a key is replaced as a whole, and vanishes only for a removal   *)
(* of the key; neither undoes a change that is done.  When the process     *)
(* ends no file changes; when the machine does, each file is what it was   *)
(* when it was last settled, which nobody waits for.  A write that fails   *)
(* unseen leaves what load does not take.  Of a free key, whose temporary  *)
(* file two tasks have used at once, nothing is promised.                  *)
(***************************************************************************)
EXTENDS Naturals

CONSTANTS Keys, MaxChanges

Missing == 0
Torn == MaxChanges + 1

VARIABLES
    up,       \* the process runs
    mem,      \* Cache.inner
    changes,  \* changes made
    held,     \* the changes of each key that gave it a value: their own number
    removed,  \* the changes of each key that removed it
    unwritten,\* the changes of which a write has failed unseen
    disk,     \* the file of each key: its value, and the change done last
    kept,     \* the same, as the end of the machine leaves it
    free      \* the keys of which nothing is promised

storeVars == <<up, mem, changes, held, removed, unwritten, disk, kept, free>>

AtNothing == [k \in Keys |-> Missing]
NoFile == [value |-> Missing, change |-> 0]

StoreInit ==
    /\ up = FALSE /\ mem = AtNothing
    /\ changes = 0 /\ held = [k \in Keys |-> {}] /\ removed = [k \in Keys |-> {}]
    /\ unwritten = {}
    /\ disk = [k \in Keys |-> NoFile] /\ kept = [k \in Keys |-> NoFile]
    /\ free = {}

\* The process starts, with values of the disk or without.
Begin ==
    /\ ~up /\ up' = TRUE
    /\ mem' \in [Keys -> 0..MaxChanges]
    /\ \A k \in Keys \ free : mem'[k] \in {Missing, disk[k].value}
    /\ UNCHANGED <<changes, held, removed, unwritten, disk, kept, free>>

\* The process ends: the map is gone, and nothing else.  With the machine go
\* the changes of files that are not settled.
Lose ==
    /\ up /\ up' = FALSE
    /\ mem' = AtNothing
    /\ disk' \in {disk, kept}
    /\ UNCHANGED <<changes, held, removed, unwritten, kept, free>>

Settle(k) ==
    /\ kept' = [kept EXCEPT ![k] = disk[k]]
    /\ UNCHANGED <<up, mem, changes, held, removed, unwritten, disk, free>>

Put(k) ==
    /\ up /\ changes' = changes + 1
    /\ mem' = [mem EXCEPT ![k] = changes + 1]
    /\ held' = [held EXCEPT ![k] = @ \cup {changes + 1}]
    /\ UNCHANGED <<up, removed, unwritten, disk, kept, free>>

Take(k) ==
    /\ up /\ changes' = changes + 1
    /\ mem' = [mem EXCEPT ![k] = Missing]
    /\ removed' = [removed EXCEPT ![k] = @ \cup {changes + 1}]
    /\ UNCHANGED <<up, held, unwritten, disk, kept, free>>

WriteLost ==
    /\ up /\ \E n \in 1..changes : unwritten' = unwritten \cup {n}
    /\ UNCHANGED <<up, mem, changes, held, removed, disk, kept, free>>

\* Change n of k is done, which no change done before comes after.
Persist(k, n, v) ==
    /\ up /\ k \notin free /\ disk[k].change < n
    /\ disk' = [disk EXCEPT ![k] = [value |-> v, change |-> n]]
    /\ UNCHANGED <<up, mem, changes, held, removed, unwritten, kept, free>>

\* A save leaves the value of its change or of a later one.
Save(k) == \E n \in held[k] :
    \/ \E v \in held[k] : n <= v /\ Persist(k, n, v)
    \/ n \in unwritten /\ Persist(k, n, Torn)
Unlink(k) == \E n \in removed[k] : Persist(k, n, Missing)

\* Keys become free; what their files hold is of no interest any more.
Disturb ==
    /\ up /\ free' \in SUBSET Keys /\ free \subseteq free'
    /\ disk' = [k \in Keys |-> IF k \in free' THEN NoFile ELSE disk[k]]
    /\ kept' = [k \in Keys |-> IF k \in free' THEN NoFile ELSE kept[k]]
    /\ UNCHANGED <<up, mem, changes, held, removed, unwritten>>

StoreNext ==
    \/ Begin \/ Lose \/ WriteLost \/ Disturb
    \/ \E k \in Keys : Settle(k) \/ Put(k) \/ Take(k) \/ Save(k) \/ Unlink(k)

StoreSpec == StoreInit /\ [][StoreNext]_storeVars
=============================================================================
