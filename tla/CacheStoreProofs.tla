-------------------------- MODULE CacheStoreProofs --------------------------
(***************************************************************************)
(* Theorems of CacheStore, for any keys, however they share temporary      *)
(* files, and any number of attempts, changes, tasks, faults and crashes.  *)
(***************************************************************************)
EXTENDS CacheStore, FiniteSetTheorems, TLAPS

-----------------------------------------------------------------------------
(* The invariant.                                                          *)

Working == {"opened", "written", "synced"}

\* A task has a handle while it works on its temporary file; its bytes are
\* those of its change or of a later one of its key, and so is the entry while
\* the task lives; whoever sleeps has an attempt left.
TaskInv(n) ==
    /\ n <= changes /\ mode = "disk"
    /\ tasks[n].fd # 0 <=> tasks[n].st \in Working
    /\ tasks[n].op = "save" /\ tasks[n].st # "spawned" =>
          tasks[n].val >= n /\ tasks[n].val \in held[tasks[n].key]
    /\ tasks[n].op = "remove" => tasks[n].st \notin Working
    /\ tasks[n].st = "sleeping" => tasks[n].attempt < MaxRetries
    /\ mem[tasks[n].key] # Missing =>
          mem[tasks[n].key] >= n /\ mem[tasks[n].key] \in held[tasks[n].key]
TasksInv == \A n \in Changes : Busy(n) => TaskInv(n)

\* An inode has one name, what the disk has of it included, and whoever has a
\* handle to it came by the temporary name of the tasks that have one.
NamesApart ==
    /\ \A k, l \in Keys : file[k] # 0 /\ file[k] \in {file[l], journal[l]} => k = l
    /\ \A k, l \in Keys : journal[k] # 0 /\ journal[k] = journal[l] => k = l
    /\ \A t, u \in Tmps : tmp[t] # 0 /\ tmp[t] = tmp[u] => t = u
    /\ \A k \in Keys, t \in Tmps : tmp[t] # 0 => tmp[t] \notin {file[k], journal[k]}
HandlesApart == \A n \in Changes : Busy(n) /\ tasks[n].fd # 0 =>
    /\ \A t \in Tmps : tasks[n].fd = tmp[t] => t = TmpName(n)
    /\ \A k \in Keys : tasks[n].fd \in {file[k], journal[k]} => TmpOf[k] = TmpName(n)
    /\ \A m \in Changes : Busy(m) /\ tasks[m].fd = tasks[n].fd => TmpName(m) = TmpName(n)

\* What a task has written, or has failed to.
Written(n, i) == content[i] = tasks[n].val \/ (content[i] = Torn /\ n \in unwritten)

\* Where tasks take turns: the task at work is the first of them and has the
\* temporary file for itself, with what it has written and synced.
WorkInv(n) ==
    /\ tmp[TmpName(n)] = tasks[n].fd
    /\ Turn(n)
    /\ tasks[n].st = "opened" => content[tasks[n].fd] = Missing
    /\ tasks[n].st # "opened" => Written(n, tasks[n].fd)
    /\ tasks[n].st = "synced" => tasks[n].fd \in synced
TurnsInv == \A n \in Changes : Busy(n) /\ TmpName(n) \notin raced =>
    /\ saved[tasks[n].key] < n
    /\ tasks[n].fd # 0 => WorkInv(n)

\* And the files, those of the disk too, are genuine, not behind, and synced.
NameInv(k, i, n) == i # 0 => Genuine(k, i, n) /\ i \in synced
FilesInv == \A k \in Keys : Undisturbed(k) =>
    NameInv(k, file[k], saved[k]) /\ NameInv(k, journal[k], settled[k])

SavedInv == \A k \in Keys :
    saved[k] <= changes /\ settled[k] <= changes /\ held[k] \in SUBSET (1..changes)

\* A task does a change of its key.
AskedInv ==
    /\ \A k \in Keys : removed[k] \in SUBSET (1..changes)
    /\ \A n \in Changes : Busy(n) =>
          n \in (IF tasks[n].op = "save" THEN held[tasks[n].key] ELSE removed[tasks[n].key])

IInv == StoreTypeOK /\ TasksInv /\ NamesApart /\ HandlesApart
            /\ TurnsInv /\ FilesInv /\ SavedInv /\ AskedInv

-----------------------------------------------------------------------------
(* The helpers of the model.                                               *)

\* The values of a function of a finite set are no more than its arguments.
LEMMA FiniteImage ==
    ASSUME NEW S, IsFiniteSet(S), NEW f, DOMAIN f = S, f = [x \in S |-> f[x]]
    PROVE  LET T == {f[x] : x \in S} IN
           IsFiniteSet(T) /\ Cardinality(T) \in Nat /\ Cardinality(T) <= Cardinality(S)
<1> DEFINE T == {f[x] : x \in S}
<1>1. f \in Surjection(S, T)
  BY DEF Surjection
<1>2. IsFiniteSet(T) /\ Cardinality(T) <= Cardinality(S)
  BY <1>1, FS_Surjection
<1>3. QED
  BY <1>2, FS_CardinalityType

LEMMA UnionSize ==
    ASSUME NEW S, NEW T, IsFiniteSet(S), IsFiniteSet(T)
    PROVE  /\ IsFiniteSet(S \cup T) /\ Cardinality(S \cup T) \in Nat
           /\ Cardinality(S \cup T) <= Cardinality(S) + Cardinality(T)
<1>1. S \cap T \in SUBSET S
  OBVIOUS
<1>2. IsFiniteSet(S \cap T) /\ Cardinality(S \cap T) \in Nat
  BY <1>1, FS_Subset, FS_CardinalityType
<1>3. /\ IsFiniteSet(S \cup T)
      /\ Cardinality(S \cup T) = Cardinality(S) + Cardinality(T) - Cardinality(S \cap T)
  BY FS_Union
<1>4. Cardinality(S \cup T) \in Nat /\ Cardinality(S) \in Nat /\ Cardinality(T) \in Nat
  BY <1>3, FS_CardinalityType
<1>5. QED
  BY <1>2, <1>3, <1>4

\* The sizes behind the numbers.
LEMMA Numbers ==
    /\ Inodes \in SUBSET (Nat \ {0}) /\ Changes \in SUBSET (Nat \ {0})
    /\ Cardinality(Keys) \in Nat
    /\ \A k \in Keys : TmpOf[k] \in Tmps
    /\ MaxChanges \in Nat /\ Torn \notin Changes /\ Torn > 0
<1>1. Cardinality(Keys) \in Nat
  BY StoreAssumption, FS_CardinalityType
<1>2. QED
  BY <1>1, StoreAssumption DEF Inodes, Changes, Tmps, Torn

\* What a task that is there is made of.
LEMMA TaskFacts ==
    ASSUME StoreTypeOK, NEW n \in Changes, Busy(n)
    PROVE  /\ tasks[n] \in Task
           /\ tasks[n].key \in Keys /\ TmpName(n) \in Tmps
           /\ tasks[n].fd \in {0} \cup Inodes
           /\ tasks[n].val \in 0..MaxChanges
           /\ tasks[n].attempt \in 1..MaxRetries
           /\ tasks[n].op \in {"save", "remove"}
<1>1. tasks[n] \in Task \cup {NoTask}
  BY DEF StoreTypeOK
<1>2. NoTask.st = "none"
  BY DEF NoTask
<1>3. tasks[n] \in Task
  BY <1>1, <1>2 DEF Busy
<1>4. QED
  BY <1>3, Numbers DEF Task, TmpName

\* There is an inode for whoever creates a temporary file.
LEMMA FreeInodeIsFree ==
    ASSUME StoreTypeOK, NEW n \in Changes, tasks[n].fd = 0
    PROVE  FreeInode \in Inodes /\ FreeInode \notin Referenced
<1> DEFINE others == Changes \ {n}
           handle == [m \in others |-> tasks[m].fd]
           F == {file[k] : k \in Keys}
           J == {journal[k] : k \in Keys}
           T == {tmp[t] : t \in Tmps}
           H == {handle[m] : m \in others}
<1>1. Referenced \subseteq F \cup J \cup T \cup H \cup {0}
  BY DEF Referenced
<1>2. /\ IsFiniteSet(F) /\ Cardinality(F) \in Nat /\ Cardinality(F) <= Cardinality(Keys)
      /\ IsFiniteSet(J) /\ Cardinality(J) \in Nat /\ Cardinality(J) <= Cardinality(Keys)
  <2>1. /\ DOMAIN file = Keys /\ file = [k \in Keys |-> file[k]]
        /\ DOMAIN journal = Keys /\ journal = [k \in Keys |-> journal[k]]
    BY DEF StoreTypeOK
  <2>2. IsFiniteSet(F) /\ Cardinality(F) \in Nat /\ Cardinality(F) <= Cardinality(Keys)
    BY <2>1, FiniteImage, StoreAssumption
  <2>3. IsFiniteSet(J) /\ Cardinality(J) \in Nat /\ Cardinality(J) <= Cardinality(Keys)
    BY <2>1, FiniteImage, StoreAssumption
  <2>4. QED
    BY <2>2, <2>3
<1>3. IsFiniteSet(T) /\ Cardinality(T) \in Nat /\ Cardinality(T) <= Cardinality(Keys)
  <2>1. DOMAIN tmp = Tmps /\ tmp = [t \in Tmps |-> tmp[t]]
    BY DEF StoreTypeOK
  <2>2. DEFINE g == [k \in Keys |-> TmpOf[k]]
  <2>3. Tmps = {g[k] : k \in Keys} /\ g = [k \in Keys |-> g[k]] /\ DOMAIN g = Keys
    BY DEF Tmps
  <2> HIDE DEF g
  <2>4. IsFiniteSet(Tmps) /\ Cardinality(Tmps) \in Nat
           /\ Cardinality(Tmps) <= Cardinality(Keys)
    BY <2>3, FiniteImage, StoreAssumption
  <2>5. IsFiniteSet(T) /\ Cardinality(T) \in Nat /\ Cardinality(T) <= Cardinality(Tmps)
    BY <2>1, <2>4, FiniteImage
  <2>6. QED
    BY <2>4, <2>5, Numbers
<1>4. IsFiniteSet(H) /\ Cardinality(H) \in Nat /\ Cardinality(H) <= MaxChanges - 1
  <2>1. IsFiniteSet(Changes) /\ Cardinality(Changes) = MaxChanges
    BY FS_Interval, Numbers, StoreAssumption DEF Changes
  <2>2. IsFiniteSet(others) /\ Cardinality(others) = MaxChanges - 1
    BY <2>1, FS_RemoveElement
  <2>3. DOMAIN handle = others /\ handle = [m \in others |-> handle[m]]
    OBVIOUS
  <2> HIDE DEF handle, others
  <2>4. IsFiniteSet(H) /\ Cardinality(H) \in Nat /\ Cardinality(H) <= Cardinality(others)
    BY <2>2, <2>3, FiniteImage
  <2>5. QED
    BY <2>2, <2>4
<1> HIDE DEF F, J, T, H
<1>5. /\ IsFiniteSet(((F \cup J) \cup T) \cup H)
      /\ Cardinality(((F \cup J) \cup T) \cup H) <= 3 * Cardinality(Keys) + MaxChanges - 1
  <2>1. IsFiniteSet(F \cup J) /\ Cardinality(F \cup J) <= Cardinality(F) + Cardinality(J)
           /\ Cardinality(F \cup J) \in Nat
    BY <1>2, UnionSize
  <2>2. /\ IsFiniteSet((F \cup J) \cup T) /\ Cardinality((F \cup J) \cup T) \in Nat
        /\ Cardinality((F \cup J) \cup T) <= Cardinality(F \cup J) + Cardinality(T)
    BY <1>3, <2>1, UnionSize
  <2>3. /\ IsFiniteSet(((F \cup J) \cup T) \cup H)
        /\ Cardinality(((F \cup J) \cup T) \cup H) \in Nat
        /\ Cardinality(((F \cup J) \cup T) \cup H) <= Cardinality((F \cup J) \cup T) + Cardinality(H)
    BY <1>4, <2>2, UnionSize
  <2>4. QED
    BY <1>2, <1>3, <1>4, <2>1, <2>2, <2>3, Numbers
<1>6. Cardinality(Inodes) = 3 * Cardinality(Keys) + MaxChanges
  <2>1. DEFINE last == 3 * Cardinality(Keys) + MaxChanges
  <2>2. last \in Int /\ last >= 0
    BY Numbers
  <2> HIDE DEF last
  <2>3. Cardinality(1..last) = last
    BY <2>2, FS_Interval
  <2>4. QED
    BY <2>3 DEF Inodes, last
<1>7. ~(Inodes \subseteq Referenced)
  <2>1. SUFFICES ASSUME Inodes \subseteq Referenced PROVE FALSE
    OBVIOUS
  <2>2. Inodes \in SUBSET (((F \cup J) \cup T) \cup H)
    BY <1>1, <2>1, Numbers
  <2>3. Cardinality(Inodes) <= Cardinality(((F \cup J) \cup T) \cup H)
    BY <1>5, <2>2, FS_Subset
  <2>4. Cardinality(((F \cup J) \cup T) \cup H) \in Nat
    BY <1>5, FS_CardinalityType
  <2>5. QED
    BY <1>5, <1>6, <2>3, <2>4, Numbers
<1>8. QED
  BY <1>7 DEF FreeInode

\* A name that leads to an inode nobody touches keeps what it promises.
LEMMA NameKept ==
    ASSUME NEW k \in Keys, NEW i, NEW n, NameInv(k, i, n),
           held[k] \subseteq held'[k], unwritten \subseteq unwritten',
           i # 0 => content'[i] = content[i] /\ (i \in synced => i \in synced')
    PROVE  NameInv(k, i, n)'
  BY DEF NameInv, Genuine

-----------------------------------------------------------------------------
(* The life of the process.                                                *)

LEMMA NoTaskIsIdle ==
    ASSUME NEW n \in Changes, tasks[n] = NoTask
    PROVE  ~Busy(n)
  BY DEF Busy, NoTask

LEMMA InitInv == Init => IInv
<1> SUFFICES ASSUME Init PROVE IInv
  OBVIOUS
<1>1. \A n \in Changes : ~Busy(n)
  BY NoTaskIsIdle DEF Init
<1>2. StoreTypeOK
  <2>1. mem \in [Keys -> 0..MaxChanges] /\ saved \in [Keys -> 0..MaxChanges]
    BY Numbers DEF Init, Missing
  <2>2. settled \in [Keys -> 0..MaxChanges]
    BY Numbers DEF Init
  <2>3. content \in [Inodes -> 0..Torn]
    BY Numbers DEF Init, Missing, Torn
  <2>4. /\ file \in [Keys -> {0} \cup Inodes] /\ tmp \in [Tmps -> {0} \cup Inodes]
        /\ journal \in [Keys -> {0} \cup Inodes]
        /\ tasks \in [Changes -> Task \cup {NoTask}]
        /\ held \in [Keys -> SUBSET Changes] /\ removed \in [Keys -> SUBSET Changes]
    BY DEF Init, Missing
  <2>5. changes \in 0..MaxChanges /\ faults \in 0..MaxFaults /\ crashes \in 0..MaxCrashes
    BY StoreAssumption DEF Init
  <2>6. QED
    BY <2>1, <2>2, <2>3, <2>4, <2>5 DEF Init, StoreTypeOK
<1>3. TasksInv /\ HandlesApart /\ TurnsInv
  BY <1>1 DEF TasksInv, HandlesApart, TurnsInv
<1>4. NamesApart /\ FilesInv
  BY DEF Init, NamesApart, FilesInv, NameInv, Missing
<1>5. SavedInv /\ AskedInv
  BY <1>1, Numbers DEF Init, SavedInv, AskedInv
<1>6. QED
  BY <1>2, <1>3, <1>4, <1>5 DEF IInv

LEMMA FaultFacts ==
    ASSUME StoreTypeOK, Fault \/ UNCHANGED faults
    PROVE  faults' \in 0..MaxFaults
  BY StoreAssumption DEF Fault, StoreTypeOK

\* While the process is down there is no task.
LEMMA BeginInv ==
    ASSUME IInv, NEW m \in Modes, NEW read, Begin(m, read), dir' \in BOOLEAN,
           faults' \in 0..MaxFaults
    PROVE  IInv'
<1> USE DEF IInv, Begin, history
<1>1. \A n \in Changes : ~Busy(n) /\ ~Busy(n)'
  BY DEF TasksInv, TaskInv, Busy
<1>2. StoreTypeOK'
  <2>1. \A k \in Keys : Loaded(k) \in 0..MaxChanges
    BY Numbers DEF Loaded, Missing, Changes
  <2>2. mem' \in [Keys -> 0..MaxChanges]
    BY <2>1, Numbers DEF Missing
  <2>3. QED
    BY <2>2 DEF StoreTypeOK
<1>3. TasksInv' /\ HandlesApart' /\ TurnsInv'
  BY <1>1 DEF TasksInv, HandlesApart, TurnsInv
<1>4. NamesApart'
  BY DEF NamesApart
<1>5. FilesInv' /\ SavedInv' /\ AskedInv'
  BY <1>1 DEF FilesInv, NameInv, Genuine, SavedInv, AskedInv, Undisturbed
<1>6. QED
  BY <1>2, <1>3, <1>4, <1>5

LEMMA StartInv ==
    ASSUME IInv,
           \/ StartLoaded
           \/ \E m \in Modes : StartEmpty(m)
           \/ \E read \in SUBSET Keys : LoadFails(read)
    PROVE  IInv'
<1>1. /\ dir' \in BOOLEAN
      /\ Fault \/ UNCHANGED faults
  BY DEF StartLoaded, StartEmpty, LoadFails, IInv, StoreTypeOK
<1>2. PICK m \in Modes, read \in SUBSET Keys : Begin(m, read)
  BY DEF StartLoaded, StartEmpty, LoadFails, Modes
<1>3. QED
  BY <1>1, <1>2, BeginInv, FaultFacts DEF IInv

LEMMA MakeDirInv ==
    ASSUME IInv, MakeDir \/ MakeDirFails \/ UNCHANGED vars
    PROVE  IInv'
<1>1. /\ UNCHANGED <<mode, mem, changes, held, removed, tasks, file, tmp, content, synced,
                     journal, crashes, saved, settled, raced, unwritten>>
      /\ dir' \in BOOLEAN /\ making' \in BOOLEAN
      /\ Fault \/ UNCHANGED faults
  BY DEF MakeDir, MakeDirFails, vars, memVars, dirVars, diskVars, bounds, history, IInv,
         StoreTypeOK
<1> USE DEF IInv
<1>2. StoreTypeOK'
  BY <1>1, FaultFacts DEF StoreTypeOK
<1>3. TasksInv'
  BY <1>1 DEF TasksInv, TaskInv, Busy
<1>4. NamesApart' /\ HandlesApart'
  BY <1>1 DEF NamesApart, HandlesApart, Busy, TmpName
<1>5. TurnsInv'
  BY <1>1 DEF TurnsInv, WorkInv, Written, Turn, Busy, TmpName
<1>6. FilesInv' /\ SavedInv' /\ AskedInv'
  BY <1>1 DEF FilesInv, NameInv, Genuine, SavedInv, AskedInv, Undisturbed, Busy
<1>7. QED
  BY <1>2, <1>3, <1>4, <1>5, <1>6

\* What reaches the disk is what there is.
LEMMA JournalInv ==
    ASSUME IInv, NEW k \in Keys, Journal(k)
    PROVE  IInv'
<1>1. /\ UNCHANGED <<mode, mem, changes, held, removed, tasks, dir, making, file, tmp, content,
                     synced, faults, crashes, saved, raced, unwritten>>
      /\ journal' = [journal EXCEPT ![k] = file[k]]
      /\ settled' = [settled EXCEPT ![k] = saved[k]]
  BY DEF Journal, memVars, dirVars, bounds
<1>2. \A l \in Keys : journal'[l] = (IF l = k THEN file[k] ELSE journal[l])
                      /\ settled'[l] = (IF l = k THEN saved[k] ELSE settled[l])
  BY <1>1 DEF IInv, StoreTypeOK
<1>3. StoreTypeOK'
  BY <1>1 DEF IInv, StoreTypeOK
<1>4. TasksInv' /\ SavedInv' /\ AskedInv'
  BY <1>1, <1>2 DEF IInv, TasksInv, TaskInv, SavedInv, AskedInv, Busy
<1>5. NamesApart'
  BY <1>1, <1>2 DEF IInv, NamesApart
<1>6. HandlesApart'
  BY <1>1, <1>2 DEF IInv, HandlesApart, Busy, TmpName
<1>7. TurnsInv'
  BY <1>1 DEF IInv, TurnsInv, WorkInv, Written, Turn, Busy, TmpName
<1>8. FilesInv'
  BY <1>1, <1>2 DEF IInv, FilesInv, NameInv, Genuine, Undisturbed
<1>9. QED
  BY <1>3, <1>4, <1>5, <1>6, <1>7, <1>8 DEF IInv

\* What is lost was not synced, and the files are.
LEMMA EndInv ==
    ASSUME IInv, Killed \/ \E lost \in SUBSET (Inodes \ synced) : PowerFails(lost)
    PROVE  IInv'
<1>1. /\ mem' = [k \in Keys |-> Missing] /\ tasks' = [n \in Changes |-> NoTask]
      /\ mode' = "down" /\ making' = FALSE
      /\ crashes < MaxCrashes /\ crashes' = crashes + 1
      /\ UNCHANGED <<changes, held, removed, dir, tmp, journal, faults, settled, raced, unwritten>>
  BY DEF Killed, PowerFails, End
<1>2. \/ UNCHANGED <<file, content, synced, saved>>
      \/ /\ file' = journal /\ saved' = settled /\ synced' = Inodes
         /\ content' \in [Inodes -> 0..Torn]
         /\ \A i \in synced : content'[i] = content[i]
  <2>1. ASSUME NEW lost \in SUBSET (Inodes \ synced), PowerFails(lost)
        PROVE  /\ content' \in [Inodes -> 0..Torn]
               /\ \A i \in synced : content'[i] = content[i]
    BY <2>1, Numbers DEF PowerFails, IInv, StoreTypeOK, Torn
  <2>2. QED
    BY <2>1 DEF Killed, PowerFails
<1>3. \A n \in Changes : ~Busy(n)'
  BY <1>1 DEF Busy, NoTask
<1>4. StoreTypeOK'
  <2>1. mem' \in [Keys -> 0..MaxChanges]
    BY <1>1, Numbers DEF Missing
  <2>2. crashes' \in 0..MaxCrashes
    BY <1>1, StoreAssumption DEF IInv, StoreTypeOK
  <2>3. tasks' \in [Changes -> Task \cup {NoTask}]
    BY <1>1
  <2>4. QED
    BY <1>1, <1>2, <2>1, <2>2, <2>3 DEF IInv, StoreTypeOK
<1>5. TasksInv' /\ HandlesApart' /\ TurnsInv'
  BY <1>3 DEF TasksInv, HandlesApart, TurnsInv
<1>6. NamesApart'
  BY <1>1, <1>2 DEF IInv, NamesApart
<1>7. FilesInv'
  <2>1. SUFFICES ASSUME NEW k \in Keys, TmpOf[k] \notin raced
                 PROVE  NameInv(k, file[k], saved[k])' /\ NameInv(k, journal[k], settled[k])'
    BY <1>1 DEF FilesInv, Undisturbed
  <2>2. NameInv(k, file[k], saved[k]) /\ NameInv(k, journal[k], settled[k])
    BY <2>1 DEF IInv, FilesInv, Undisturbed
  <2>3. file[k] \in {0} \cup Inodes /\ journal[k] \in {0} \cup Inodes /\ synced \in SUBSET Inodes
    BY DEF IInv, StoreTypeOK
  <2>4. QED
    BY <1>1, <1>2, <2>2, <2>3 DEF NameInv, Genuine
<1>8. SavedInv' /\ AskedInv'
  BY <1>1, <1>2, <1>3 DEF IInv, SavedInv, AskedInv
<1>9. QED
  BY <1>4, <1>5, <1>6, <1>7, <1>8 DEF IInv

-----------------------------------------------------------------------------
(* Changes of the map.                                                     *)

\* The new task is behind all others, and its value newer than all others.
LEMMA SpawnInv ==
    ASSUME IInv, NEW k \in Keys, NEW value \in {Missing, changes + 1},
           NEW o \in {"save", "remove"}, NEW st \in {"ready", "spawned"},
           NEW v \in {0, changes + 1},
           o = "save" => value # Missing /\ (st = "ready" => v = value),
           o = "remove" => value = Missing,
           Spawn(k, value, NewTask(o, st, k, v))
    PROVE  IInv'
<1> DEFINE c == changes + 1
           new == NewTask(o, st, k, v)
<1>1. c \in Changes /\ changes \in Nat /\ c <= MaxChanges
  BY Numbers DEF IInv, StoreTypeOK, Spawn, Changes
<1>2. /\ new \in Task /\ new.st \notin Working /\ new.st # "none" /\ new.fd = 0
      /\ new.op = o /\ new.st = st /\ new.key = k /\ new.val = v
  BY <1>1, Numbers, StoreAssumption DEF NewTask, Task, Steps, Working
<1> HIDE DEF new
<1>3. /\ changes' = c /\ mem' = [mem EXCEPT ![k] = value]
      /\ held' = [held EXCEPT ![k] = @ \cup ({value} \ {Missing})]
      /\ removed' = [removed EXCEPT ![k] = @ \cup IF value = Missing THEN {c} ELSE {}]
      /\ UNCHANGED <<mode, dir, making, file, tmp, content, synced, journal, faults, crashes,
                     saved, settled, raced, unwritten>>
  BY DEF Spawn, dirVars, diskVars, bounds, history
<1>4. /\ mode = "memory" => tasks' = tasks
      /\ mode # "memory" => tasks' = [tasks EXCEPT ![c] = new]
  BY DEF Spawn, new
<1>5. StoreTypeOK'
  <2>1. mem' \in [Keys -> 0..MaxChanges] /\ held' \in [Keys -> SUBSET Changes]
           /\ removed' \in [Keys -> SUBSET Changes]
    BY <1>1, <1>3, Numbers DEF IInv, StoreTypeOK, Missing
  <2>2. tasks' \in [Changes -> Task \cup {NoTask}]
    BY <1>1, <1>2, <1>4 DEF IInv, StoreTypeOK
  <2>3. changes' \in 0..MaxChanges
    BY <1>1, <1>3, Numbers
  <2>4. QED
    BY <1>3, <2>1, <2>2, <2>3 DEF IInv, StoreTypeOK
<1>6. \A n \in Changes : Busy(n)' =>
         \/ n = c /\ tasks'[n] = new /\ mode = "disk"
         \/ n # c /\ n < c /\ tasks'[n] = tasks[n] /\ Busy(n)
  <2>1. \A n \in Changes : Busy(n) => n < c
    BY <1>1 DEF IInv, TasksInv, TaskInv, Changes
  <2>2. mode # "down" /\ mode \in {"down", "memory", "disk"}
    BY DEF Spawn, IInv, StoreTypeOK, Modes
  <2>3. CASE mode = "memory"
    <3>1. tasks' = tasks /\ \A n \in Changes : n < c => n # c
      BY <1>1, <1>4, <2>3, Numbers
    <3>2. QED
      BY <2>1, <3>1 DEF Busy
  <2>4. CASE mode # "memory"
    <3>1. \A n \in Changes : tasks'[n] = IF n = c THEN new ELSE tasks[n]
      BY <1>4, <2>4 DEF IInv, StoreTypeOK
    <3>2. QED
      BY <2>1, <2>2, <2>4, <3>1 DEF Busy
  <2>5. QED
    BY <2>3, <2>4
<1>7. TasksInv'
  <2>1. SUFFICES ASSUME NEW n \in Changes, Busy(n)'
                 PROVE  TaskInv(n)'
    BY DEF TasksInv
  <2>2. CASE n = c
    <3>1. /\ tasks'[n] = new /\ mode' = "disk"
      BY <1>3, <1>6, <2>1, <2>2
    <3>2. mem'[k] = value /\ (value # Missing => value \in held'[k])
      BY <1>3 DEF IInv, StoreTypeOK
    <3>3. QED
      BY <1>1, <1>2, <1>3, <2>2, <3>1, <3>2 DEF TaskInv, Missing
  <2>3. CASE n # c
    <3>1. tasks'[n] = tasks[n] /\ Busy(n) /\ n < c /\ TaskInv(n) /\ tasks[n].key \in Keys
      BY <1>6, <2>1, <2>3, TaskFacts DEF IInv, TasksInv
    <3>2. /\ held[tasks[n].key] \subseteq held'[tasks[n].key]
          /\ mem'[tasks[n].key] \in {mem[tasks[n].key], Missing, c}
          /\ mem'[tasks[n].key] = c => mem'[tasks[n].key] = mem[tasks[n].key] \/ c \in held'[tasks[n].key]
      BY <1>1, <1>3, <3>1 DEF IInv, StoreTypeOK, Missing
    <3>3. n <= changes' /\ n <= c
      BY <1>1, <1>3, <3>1, Numbers
    <3>4. QED
      BY <1>3, <3>1, <3>2, <3>3 DEF TaskInv, Missing
  <2>4. QED
    BY <2>2, <2>3
<1>8. NamesApart'
  BY <1>3 DEF IInv, NamesApart
<1>9. HandlesApart'
  BY <1>2, <1>3, <1>6 DEF IInv, HandlesApart, TmpName
<1>10. TurnsInv'
  <2>1. SUFFICES ASSUME NEW n \in Changes, Busy(n)', TmpName(n)' \notin raced
                 PROVE  /\ saved[tasks'[n].key] < n
                        /\ tasks'[n].fd # 0 => WorkInv(n)'
    BY <1>3 DEF TurnsInv
  <2>2. CASE n = c
    <3>1. saved[k] <= changes /\ saved[k] \in Nat
      BY DEF IInv, SavedInv, StoreTypeOK
    <3>2. QED
      BY <1>1, <1>2, <1>6, <2>1, <2>2, <3>1
  <2>3. CASE n # c
    <3>1. /\ tasks'[n] = tasks[n] /\ Busy(n) /\ n < c /\ TmpName(n)' = TmpName(n)
          /\ saved[tasks[n].key] < n
          /\ tasks[n].fd # 0 => WorkInv(n)
      BY <1>6, <2>1, <2>3 DEF IInv, TurnsInv, TmpName
    <3>2. ASSUME tasks[n].fd # 0, Turn(n) PROVE Turn(n)'
      BY <1>2, <1>6, <3>1, <3>2 DEF Turn, TmpName
    <3>3. QED
      BY <1>3, <3>1, <3>2 DEF WorkInv, Written
  <2>4. QED
    BY <2>2, <2>3
<1>11. FilesInv'
  <2>1. \A l \in Keys : held[l] \subseteq held'[l]
    BY <1>3 DEF IInv, StoreTypeOK
  <2>2. QED
    BY <1>3, <2>1, NameKept DEF IInv, FilesInv, Undisturbed
<1>12. SavedInv'
  <2>1. SUFFICES ASSUME NEW l \in Keys
                 PROVE  saved[l] <= c /\ settled[l] <= c /\ held'[l] \in SUBSET (1..c)
    BY <1>3 DEF SavedInv
  <2>2. /\ saved[l] \in Nat /\ saved[l] <= changes /\ held[l] \in SUBSET (1..changes)
        /\ settled[l] \in Nat /\ settled[l] <= changes
    BY DEF IInv, SavedInv, StoreTypeOK
  <2>3. held'[l] \subseteq held[l] \cup {c}
    BY <1>3 DEF IInv, StoreTypeOK
  <2>4. QED
    BY <1>1, <2>2, <2>3
<1>13. AskedInv'
  <2>1. ASSUME NEW l \in Keys
        PROVE  /\ removed'[l] \in SUBSET (1..c)
               /\ held[l] \subseteq held'[l] /\ removed[l] \subseteq removed'[l]
    <3>1. removed'[l] \subseteq removed[l] \cup {c} /\ removed[l] \in SUBSET (1..changes)
      BY <1>3 DEF IInv, StoreTypeOK, AskedInv
    <3>2. QED
      BY <1>1, <1>3, <3>1 DEF IInv, StoreTypeOK
  <2>2. ASSUME NEW n \in Changes, Busy(n)'
        PROVE  n \in (IF tasks'[n].op = "save" THEN held'[tasks'[n].key]
                      ELSE removed'[tasks'[n].key])
    <3>1. CASE n = c
      <4>1. tasks'[n].key = k /\ tasks'[n].op = o
        BY <1>2, <1>6, <2>2, <3>1
      <4>2. o = "save" => c \in held'[k]
        BY <1>3 DEF IInv, StoreTypeOK
      <4>3. o = "remove" => c \in removed'[k]
        BY <1>3 DEF IInv, StoreTypeOK
      <4>4. QED
        BY <3>1, <4>1, <4>2, <4>3
    <3>2. CASE n # c
      <4>1. tasks'[n] = tasks[n] /\ Busy(n) /\ tasks[n].key \in Keys
        BY <1>6, <2>2, <3>2, TaskFacts DEF IInv
      <4>2. QED
        BY <2>1, <4>1 DEF IInv, AskedInv
    <3>3. QED
      BY <3>1, <3>2
  <2>3. QED
    BY <1>3, <2>1, <2>2 DEF AskedInv
<1>14. QED
  BY <1>5, <1>7, <1>8, <1>9, <1>10, <1>11, <1>12, <1>13 DEF IInv

-----------------------------------------------------------------------------
(* The tasks.                                                              *)

\* No task has the file of an undisturbed key open.
LEMMA FilesUntouched ==
    ASSUME IInv, NEW n \in Changes, Busy(n), tasks[n].fd # 0, NEW k \in Keys, Undisturbed(k)
    PROVE  tasks[n].fd \notin {file[k], journal[k]}
<1>1. SUFFICES ASSUME tasks[n].fd \in {file[k], journal[k]} PROVE FALSE
  OBVIOUS
<1>2. TmpOf[k] = TmpName(n) /\ TmpName(n) \in Tmps
  BY <1>1, TaskFacts DEF IInv, HandlesApart
<1>3. tmp[TmpName(n)] = tasks[n].fd
  BY <1>1, <1>2 DEF IInv, TurnsInv, WorkInv, Undisturbed
<1>4. QED
  BY <1>1, <1>2, <1>3 DEF IInv, NamesApart

\* So what it does to the file it has open breaks none of their promises.
LEMMA FilesKept ==
    ASSUME IInv, NEW n \in Changes, Busy(n),
           UNCHANGED <<held, file, journal, saved, settled, raced>>,
           unwritten \subseteq unwritten',
           \A i \in Inodes : i # tasks[n].fd =>
              content'[i] = content[i] /\ (i \in synced => i \in synced')
    PROVE  FilesInv'
<1>1. SUFFICES ASSUME NEW k \in Keys, Undisturbed(k)
               PROVE  NameInv(k, file[k], saved[k])' /\ NameInv(k, journal[k], settled[k])'
  BY DEF FilesInv, Undisturbed
<1>2. NameInv(k, file[k], saved[k]) /\ NameInv(k, journal[k], settled[k])
  BY <1>1 DEF IInv, FilesInv
<1>3. \A i \in {file[k], journal[k]} : i # 0 =>
         content'[i] = content[i] /\ (i \in synced => i \in synced')
  <2>1. \A i \in {file[k], journal[k]} : i # 0 => i \in Inodes /\ i # tasks[n].fd
    BY <1>1, FilesUntouched DEF IInv, StoreTypeOK
  <2>2. QED
    BY <2>1
<1>4. QED
  BY <1>2, <1>3 DEF NameInv, Genuine

\* A task that lets go of its file, or has none, and has at most written to it.
Retires(n, next) ==
    /\ Busy(n)
    /\ tasks' = [tasks EXCEPT ![n] = next]
    /\ \/ next = NoTask
       \/ /\ next \in Task /\ next.st \in {"ready", "sleeping"} /\ next.fd = 0
          /\ next.op = tasks[n].op /\ next.key = tasks[n].key
          /\ next.op = "save" => next.val >= n /\ next.val \in held[next.key]
          /\ next.st = "sleeping" => next.attempt < MaxRetries
    /\ \A i \in Inodes : i # tasks[n].fd => content'[i] = content[i]

LEMMA RetiresInv ==
    ASSUME IInv, NEW n \in Changes, NEW next, Retires(n, next),
           content' \in [Inodes -> 0..Torn], faults' \in 0..MaxFaults,
           UNCHANGED <<memVars, dirVars, file, tmp, synced, journal, crashes, history>>
    PROVE  IInv'
<1>1. UNCHANGED <<mode, mem, changes, held, removed, dir, making, file, tmp, synced, journal,
                  crashes, saved, settled, raced, unwritten>>
  BY DEF memVars, dirVars, history
<1>2. tasks'[n] = next /\ \A m \in Changes \ {n} : tasks'[m] = tasks[m]
  BY DEF Retires, IInv, StoreTypeOK
<1>3. \A m \in Changes : Busy(m)' =>
         /\ Busy(m) /\ TmpName(m)' = TmpName(m) /\ tasks'[m].key = tasks[m].key
         /\ m # n => tasks'[m] = tasks[m]
         /\ m = n => /\ next \in Task /\ next.st \in {"ready", "sleeping"} /\ next.fd = 0
                     /\ next.op = tasks[n].op
                     /\ next.op = "save" => next.val >= n /\ next.val \in held[next.key]
                     /\ next.st = "sleeping" => next.attempt < MaxRetries
  BY <1>2 DEF Retires, Busy, NoTask, TmpName
<1>4. StoreTypeOK'
  <2>1. tasks' \in [Changes -> Task \cup {NoTask}]
    BY DEF Retires, IInv, StoreTypeOK
  <2>2. QED
    BY <1>1, <2>1 DEF IInv, StoreTypeOK
<1>5. TasksInv'
  <2>1. ASSUME NEW m \in Changes, Busy(m)' PROVE TaskInv(m)'
    <3>1. TaskInv(m)
      BY <1>3, <2>1 DEF IInv, TasksInv
    <3>2. CASE m = n
      BY <1>1, <1>2, <1>3, <2>1, <3>1, <3>2 DEF TaskInv, Working
    <3>3. CASE m # n
      BY <1>1, <1>3, <2>1, <3>1, <3>3 DEF TaskInv
    <3>4. QED
      BY <3>2, <3>3
  <2>2. QED
    BY <2>1 DEF TasksInv
<1>6. NamesApart'
  BY <1>1 DEF IInv, NamesApart
<1>7. HandlesApart'
  BY <1>1, <1>2, <1>3 DEF IInv, HandlesApart
<1>8. \A m \in Changes \ {n} : Busy(m) /\ TmpName(m) \notin raced /\ tasks[m].fd # 0
         => content'[tasks[m].fd] = content[tasks[m].fd]
  <2>1. SUFFICES ASSUME NEW m \in Changes \ {n}, Busy(m), TmpName(m) \notin raced,
                        tasks[m].fd # 0
                 PROVE  tasks[m].fd # tasks[n].fd /\ tasks[m].fd \in Inodes
    BY DEF Retires
  <2>2. Turn(m) /\ tasks[m].fd \in Inodes
    BY <2>1, TaskFacts DEF IInv, TurnsInv, WorkInv
  <2>3. tasks[n].fd = 0 \/ TmpName(n) # TmpName(m)
    BY <2>1, <2>2 DEF Turn, Retires
  <2>4. QED
    BY <2>1, <2>2, <2>3 DEF IInv, HandlesApart, Retires
<1>9. TurnsInv'
  <2>1. SUFFICES ASSUME NEW m \in Changes, Busy(m)', TmpName(m)' \notin raced
                 PROVE  /\ saved[tasks'[m].key] < m
                        /\ tasks'[m].fd # 0 => WorkInv(m)'
    BY <1>1 DEF TurnsInv
  <2>2. Busy(m) /\ TmpName(m) \notin raced /\ saved[tasks[m].key] < m
           /\ tasks'[m].key = tasks[m].key /\ TmpName(m)' = TmpName(m)
    BY <1>3, <2>1 DEF IInv, TurnsInv
  <2>3. ASSUME tasks'[m].fd # 0 PROVE WorkInv(m)'
    <3>1. m # n /\ tasks'[m] = tasks[m] /\ WorkInv(m)
      BY <1>2, <1>3, <2>1, <2>2, <2>3 DEF IInv, TurnsInv
    <3>2. content'[tasks[m].fd] = content[tasks[m].fd]
      BY <1>8, <2>2, <2>3, <3>1
    <3>3. Turn(m)'
      <4>1. SUFFICES ASSUME NEW p \in Changes \ {m}, Busy(p)', TmpName(p)' = TmpName(m)
                     PROVE  p > m /\ tasks'[p].fd = 0
        BY <2>2 DEF Turn
      <4>2. Busy(p) /\ TmpName(p) = TmpName(m) /\ (tasks'[p] = tasks[p] \/ tasks'[p].fd = 0)
        BY <1>2, <1>3, <4>1
      <4>3. p > m /\ tasks[p].fd = 0
        BY <3>1, <4>1, <4>2 DEF WorkInv, Turn
      <4>4. QED
        BY <4>2, <4>3
    <3>4. QED
      BY <1>1, <2>2, <3>1, <3>2, <3>3 DEF WorkInv, Written
  <2>4. QED
    BY <2>2, <2>3
<1>10. FilesInv'
  BY <1>1, FilesKept DEF Retires
<1>11. SavedInv' /\ AskedInv'
  BY <1>1, <1>2, <1>3 DEF IInv, SavedInv, AskedInv
<1>12. QED
  BY <1>4, <1>5, <1>6, <1>7, <1>9, <1>10, <1>11 DEF IInv

\* The actions that are such a step.
LEMMA TakeBytesInv ==
    ASSUME IInv, NEW n \in Changes, TakeBytes(n)
    PROVE  IInv'
<1> DEFINE v == mem[tasks[n].key]
           next == IF v = Missing THEN NoTask ELSE [tasks[n] EXCEPT !.st = "ready", !.val = v]
<1>1. Busy(n) /\ tasks[n] \in Task /\ tasks[n].op = "save" /\ tasks[n].st = "spawned"
         /\ tasks[n].fd = 0 /\ TaskInv(n) /\ v \in 0..MaxChanges
  BY TaskFacts DEF TakeBytes, At, IInv, TasksInv, TaskInv, Working, StoreTypeOK
<1>2. tasks' = [tasks EXCEPT ![n] = next]
  BY DEF TakeBytes, Done
<1>3. Retires(n, next)
  <2>1. next = NoTask \/ v # Missing
    OBVIOUS
  <2>2. ASSUME v # Missing
        PROVE  /\ next \in Task /\ next.st = "ready" /\ next.fd = 0 /\ next.op = "save"
               /\ next.key = tasks[n].key /\ next.val = v
    BY <1>1, <2>2, Numbers DEF Task, Steps
  <2>3. v # Missing => v >= n /\ v \in held[tasks[n].key]
    BY <1>1 DEF TaskInv
  <2> HIDE DEF next
  <2>4. QED
    BY <1>1, <1>2, <2>1, <2>2, <2>3 DEF Retires, TakeBytes, diskVars
<1>4. QED
  BY <1>3, RetiresInv DEF TakeBytes, diskVars, bounds, IInv, StoreTypeOK

\* The record of a task whose attempt has failed.
LEMMA AttemptFailedRetires ==
    ASSUME IInv, NEW n \in Changes, Busy(n), tasks[n].st # "spawned", AttemptFailed(n),
           \A i \in Inodes : i # tasks[n].fd => content'[i] = content[i]
    PROVE  \E next : Retires(n, next)
<1> DEFINE asleep == [tasks[n] EXCEPT !.st = "sleeping", !.fd = 0]
<1>1. tasks[n] \in Task /\ TaskInv(n)
  BY TaskFacts DEF IInv, TasksInv
<1>2. CASE tasks[n].attempt = MaxRetries
  BY <1>2 DEF AttemptFailed, Done, Retires
<1>3. CASE tasks[n].attempt # MaxRetries
  <2>1. /\ asleep \in Task /\ asleep.st = "sleeping" /\ asleep.fd = 0
        /\ asleep.op = tasks[n].op /\ asleep.key = tasks[n].key
        /\ asleep.val = tasks[n].val /\ asleep.attempt = tasks[n].attempt
    BY <1>1 DEF Task, Steps
  <2>2. tasks[n].attempt < MaxRetries
    BY <1>3, TaskFacts, StoreAssumption DEF IInv
  <2>3. tasks' = [tasks EXCEPT ![n] = asleep]
    BY <1>3 DEF AttemptFailed
  <2> HIDE DEF asleep
  <2>4. Retires(n, asleep)
    BY <1>1, <2>1, <2>2, <2>3 DEF Retires, TaskInv
  <2>5. QED
    BY <2>4
<1>4. QED
  BY <1>2, <1>3

LEMMA CannotProceedInv ==
    ASSUME IInv, NEW n \in Changes, CannotProceed(n)
    PROVE  IInv'
<1>1. Busy(n) /\ tasks[n].st # "spawned" /\ AttemptFailed(n)
  BY DEF CannotProceed, At
<1>2. UNCHANGED <<memVars, dirVars, file, tmp, content, synced, journal, faults, crashes, history>>
  BY DEF CannotProceed, diskVars, bounds
<1>3. PICK next : Retires(n, next)
  BY <1>1, <1>2, AttemptFailedRetires
<1>4. QED
  BY <1>2, <1>3, RetiresInv DEF IInv, StoreTypeOK

LEMMA IoFaultInv ==
    ASSUME IInv, NEW n \in Changes, IoFault(n)
    PROVE  IInv'
<1>1. Busy(n) /\ tasks[n].st # "spawned" /\ AttemptFailed(n)
  BY DEF IoFault, At
<1>2. UNCHANGED <<memVars, dirVars, file, tmp, synced, journal, crashes, history>>
  BY DEF IoFault
<1>3. content' = content \/ content' = [content EXCEPT ![tasks[n].fd] = Torn]
  BY DEF IoFault
<1>4. /\ content' \in [Inodes -> 0..Torn]
      /\ \A i \in Inodes : i # tasks[n].fd => content'[i] = content[i]
  BY <1>3, Numbers DEF IInv, StoreTypeOK, Torn
<1>5. faults' \in 0..MaxFaults
  BY FaultFacts DEF IoFault, IInv
<1>6. PICK next : Retires(n, next)
  BY <1>1, <1>4, AttemptFailedRetires
<1>7. QED
  BY <1>2, <1>4, <1>5, <1>6, RetiresInv

LEMMA WakeUpInv ==
    ASSUME IInv, NEW n \in Changes, WakeUp(n)
    PROVE  IInv'
<1> DEFINE next == [tasks[n] EXCEPT !.st = "ready", !.attempt = @ + 1]
<1>1. Busy(n) /\ tasks[n].st = "sleeping"
  BY DEF WakeUp, Busy
<1>2. tasks[n] \in Task /\ TaskInv(n) /\ tasks[n].fd = 0
  BY <1>1, TaskFacts DEF IInv, TasksInv, TaskInv, Working
<1>3. UNCHANGED <<memVars, dirVars, file, tmp, content, synced, journal, faults, crashes, history>>
  BY DEF WakeUp, diskVars, bounds
<1>4. tasks[n].attempt + 1 \in 1..MaxRetries
  BY <1>1, <1>2, TaskFacts, StoreAssumption DEF IInv, TaskInv
<1>5. /\ next \in Task /\ next.st = "ready" /\ next.fd = 0
      /\ next.op = tasks[n].op /\ next.key = tasks[n].key /\ next.val = tasks[n].val
  BY <1>2, <1>4 DEF Task, Steps
<1>6. tasks' = [tasks EXCEPT ![n] = next]
  BY DEF WakeUp
<1> HIDE DEF next
<1>7. Retires(n, next)
  BY <1>1, <1>2, <1>3, <1>5, <1>6 DEF Retires, TaskInv
<1>8. QED
  BY <1>3, <1>7, RetiresInv DEF IInv, StoreTypeOK

\* A temporary file that is opened is nobody else's, unless the tasks race.
LEMMA OpenTmpInv ==
    ASSUME IInv, NEW n \in Changes, OpenTmp(n)
    PROVE  IInv'
<1> DEFINE t == TmpName(n)
           i == IF tmp[t] # Missing THEN tmp[t] ELSE FreeInode
           next == [tasks[n] EXCEPT !.st = "opened", !.fd = i]
<1>1. /\ Busy(n) /\ tasks[n] \in Task /\ TaskInv(n) /\ t \in Tmps
      /\ tasks[n].op = "save" /\ tasks[n].st = "ready" /\ tasks[n].fd = 0
  BY TaskFacts DEF OpenTmp, At, IInv, TasksInv, TaskInv, Working
<1>2. i \in Inodes /\ (i = tmp[t] \/ i \notin Referenced)
  BY <1>1, FreeInodeIsFree DEF IInv, StoreTypeOK, Missing
<1>3. /\ tasks' = [tasks EXCEPT ![n] = next] /\ tmp' = [tmp EXCEPT ![t] = i]
      /\ content' = [content EXCEPT ![i] = Missing] /\ synced' = synced \ {i}
      /\ raced' = IF Turn(n) THEN raced ELSE raced \cup {t}
      /\ UNCHANGED <<mode, mem, changes, held, removed, dir, making, file, journal, faults,
                     crashes, saved, settled, unwritten>>
  BY DEF OpenTmp, Starting, memVars, dirVars, bounds
<1>4. /\ next \in Task /\ next.st = "opened" /\ next.fd = i /\ next.op = "save"
      /\ next.key = tasks[n].key /\ next.val = tasks[n].val
  BY <1>1, <1>2 DEF Task, Steps
<1> HIDE DEF next, i
<1>5. /\ tasks'[n] = next /\ \A m \in Changes \ {n} : tasks'[m] = tasks[m]
      /\ tmp'[t] = i /\ \A u \in Tmps \ {t} : tmp'[u] = tmp[u]
      /\ content'[i] = Missing /\ \A j \in Inodes \ {i} : content'[j] = content[j]
  BY <1>1, <1>2, <1>3 DEF IInv, StoreTypeOK
<1>6. \A m \in Changes : Busy(m)' => Busy(m) /\ TmpName(m)' = TmpName(m)
                                     /\ tasks'[m].key = tasks[m].key
  BY <1>1, <1>4, <1>5 DEF Busy, TmpName
<1>7. i # 0 /\ \A k \in Keys : i \notin {file[k], journal[k]}
  BY <1>1, <1>2, Numbers DEF IInv, NamesApart, Referenced
<1>8. \A u \in Tmps \ {t} : tmp[u] # i
  BY <1>1, <1>2, <1>7 DEF IInv, NamesApart, Referenced
<1>9. \A m \in Changes : Busy(m) /\ tasks[m].fd = i => TmpName(m) = t
  BY <1>1, <1>2, <1>7 DEF IInv, HandlesApart, Referenced
<1>10. StoreTypeOK'
  <2>1. /\ tasks' \in [Changes -> Task \cup {NoTask}] /\ tmp' \in [Tmps -> {0} \cup Inodes]
        /\ synced' \in SUBSET Inodes
    BY <1>2, <1>3, <1>4 DEF IInv, StoreTypeOK
  <2>2. content' \in [Inodes -> 0..Torn]
    <3>1. Missing \in 0..Torn
      BY Numbers DEF Missing, Torn
    <3>2. QED
      BY <1>3, <3>1 DEF IInv, StoreTypeOK
  <2>3. raced' \in SUBSET Tmps
    BY <1>1, <1>3 DEF IInv, StoreTypeOK
  <2>4. QED
    BY <1>3, <2>1, <2>2, <2>3 DEF IInv, StoreTypeOK
<1>11. TasksInv'
  <2>1. SUFFICES ASSUME NEW m \in Changes, Busy(m)' PROVE TaskInv(m)'
    BY DEF TasksInv
  <2>2. CASE m = n
    BY <1>1, <1>3, <1>4, <1>5, <1>7, <2>2 DEF TaskInv, Working
  <2>3. CASE m # n
    BY <1>3, <1>5, <1>6, <2>1, <2>3 DEF IInv, TasksInv, TaskInv
  <2>4. QED
    BY <2>2, <2>3
<1>12. NamesApart'
  <2>1. /\ \A k, l \in Keys : file'[k] # 0 /\ file'[k] \in {file'[l], journal'[l]} => k = l
        /\ \A k, l \in Keys : journal'[k] # 0 /\ journal'[k] = journal'[l] => k = l
    BY <1>3 DEF IInv, NamesApart
  <2>2. \A u, w \in Tmps : tmp'[u] # 0 /\ tmp'[u] = tmp'[w] => u = w
    BY <1>5, <1>7, <1>8 DEF IInv, NamesApart
  <2>3. \A k \in Keys, u \in Tmps : tmp'[u] # 0 => tmp'[u] \notin {file'[k], journal'[k]}
    BY <1>3, <1>5, <1>7 DEF IInv, NamesApart
  <2>4. QED
    BY <2>1, <2>2, <2>3 DEF NamesApart
<1>13. HandlesApart'
  <2>1. SUFFICES ASSUME NEW m \in Changes, Busy(m)', tasks'[m].fd # 0
                 PROVE  /\ \A u \in Tmps : tasks'[m].fd = tmp'[u] => u = TmpName(m)
                        /\ \A k \in Keys : tasks'[m].fd \in {file[k], journal[k]}
                                             => TmpOf[k] = TmpName(m)
                        /\ \A p \in Changes : Busy(p)' /\ tasks'[p].fd = tasks'[m].fd
                                                => TmpName(p) = TmpName(m)
    BY <1>3, <1>6 DEF HandlesApart
  <2>2. CASE m = n
    BY <1>4, <1>5, <1>6, <1>7, <1>8, <1>9, <2>2
  <2>3. CASE m # n
    <3>1. tasks'[m] = tasks[m] /\ Busy(m) /\ tasks[m].fd # 0
      BY <1>5, <1>6, <2>1, <2>3
    <3>2. QED
      BY <1>4, <1>5, <1>6, <1>9, <3>1 DEF IInv, HandlesApart
  <2>4. QED
    BY <2>2, <2>3
<1>14. TurnsInv'
  <2>1. SUFFICES ASSUME NEW m \in Changes, Busy(m)', TmpName(m) \notin raced'
                 PROVE  /\ saved[tasks[m].key] < m
                        /\ tasks'[m].fd # 0 => WorkInv(m)'
    BY <1>3, <1>6 DEF TurnsInv
  <2>2. Busy(m) /\ TmpName(m) \notin raced /\ (TmpName(m) = t => Turn(n))
    BY <1>3, <1>6, <2>1
  <2>3. saved[tasks[m].key] < m
    BY <2>2 DEF IInv, TurnsInv
  <2>4. CASE m = n
    <3>1. Turn(n)'
      BY <1>5, <1>6, <2>1, <2>2, <2>4 DEF Turn
    <3>2. QED
      BY <1>4, <1>5, <1>6, <2>1, <2>3, <2>4, <3>1 DEF WorkInv
  <2>5. ASSUME m # n, tasks'[m].fd # 0 PROVE WorkInv(m)'
    <3>1. tasks'[m] = tasks[m] /\ WorkInv(m) /\ tasks[m].fd \in Inodes /\ TmpName(m) \in Tmps
      BY <1>5, <2>2, <2>5, TaskFacts DEF IInv, TurnsInv
    <3>2. TmpName(m) # t
      BY <1>1, <2>2, <2>5, <3>1 DEF Turn
    <3>3. tasks[m].fd # i
      BY <1>9, <2>2, <3>2
    <3>4. Turn(m)'
      BY <1>5, <1>6, <2>1, <3>1, <3>2 DEF WorkInv, Turn
    <3>5. QED
      BY <1>3, <1>5, <1>6, <2>1, <3>1, <3>2, <3>3, <3>4 DEF WorkInv, Written
  <2>6. QED
    BY <2>3, <2>4, <2>5
<1>15. FilesInv'
  <2>1. SUFFICES ASSUME NEW k \in Keys, TmpOf[k] \notin raced
                 PROVE  NameInv(k, file[k], saved[k])' /\ NameInv(k, journal[k], settled[k])'
    BY <1>3 DEF FilesInv, Undisturbed
  <2>2. /\ NameInv(k, file[k], saved[k]) /\ NameInv(k, journal[k], settled[k])
        /\ file[k] \in {0} \cup Inodes /\ journal[k] \in {0} \cup Inodes
    BY <2>1 DEF IInv, FilesInv, Undisturbed, StoreTypeOK
  <2>3. QED
    BY <1>3, <1>5, <1>7, <2>2 DEF NameInv, Genuine
<1>16. SavedInv' /\ AskedInv'
  BY <1>1, <1>3, <1>4, <1>5, <1>6 DEF IInv, SavedInv, AskedInv
<1>17. QED
  BY <1>10, <1>11, <1>12, <1>13, <1>14, <1>15, <1>16 DEF IInv

\* A step of a task on the file it has open.
Works(n, st) ==
    /\ Busy(n) /\ tasks[n].op = "save" /\ tasks[n].fd # 0
    /\ tasks' = [tasks EXCEPT ![n].st = st] /\ st \in {"written", "synced"}
    /\ UNCHANGED <<memVars, dirVars, file, tmp, journal, crashes, saved, settled, raced>>
    /\ \A i \in Inodes : i # tasks[n].fd =>
          content'[i] = content[i] /\ (i \in synced => i \in synced')
    /\ unwritten \subseteq unwritten'

\* What holds after it for everything but the file it has open.
LEMMA WorksInv ==
    ASSUME IInv, NEW n \in Changes, NEW st, Works(n, st),
           content' \in [Inodes -> 0..Torn], synced' \in SUBSET Inodes,
           faults' \in 0..MaxFaults, unwritten' \in SUBSET Changes,
           TmpName(n) \notin raced =>
               /\ \/ content'[tasks[n].fd] = tasks[n].val
                  \/ content'[tasks[n].fd] = Torn /\ n \in unwritten'
               /\ st = "synced" => tasks[n].fd \in synced'
    PROVE  IInv'
<1> DEFINE next == [tasks[n] EXCEPT !.st = st]
<1>1. Busy(n) /\ tasks[n] \in Task /\ TaskInv(n) /\ tasks[n].fd \in Inodes
         /\ tasks[n].op = "save" /\ tasks[n].fd # 0 /\ st \in {"written", "synced"}
         /\ TmpName(n) \in Tmps /\ tasks[n].st # "spawned"
  BY TaskFacts DEF Works, IInv, TasksInv, TaskInv, Working
<1>2. tasks' = [tasks EXCEPT ![n] = next]
         /\ UNCHANGED <<mode, mem, changes, held, removed, dir, making, file, tmp, journal,
                        crashes, saved, settled, raced>>
  BY DEF Works, memVars, dirVars
<1>3. /\ next \in Task /\ next.st = st /\ next.fd = tasks[n].fd /\ next.op = "save"
      /\ next.key = tasks[n].key /\ next.val = tasks[n].val
  BY <1>1 DEF Task, Steps
<1> HIDE DEF next
<1>4. tasks'[n] = next /\ \A m \in Changes \ {n} : tasks'[m] = tasks[m]
  BY <1>2 DEF IInv, StoreTypeOK
<1>5. \A m \in Changes : /\ Busy(m)' = Busy(m) /\ TmpName(m)' = TmpName(m)
                          /\ tasks'[m].key = tasks[m].key /\ tasks'[m].fd = tasks[m].fd
                          /\ tasks'[m].val = tasks[m].val
  BY <1>1, <1>3, <1>4 DEF Busy, TmpName
<1>6. StoreTypeOK'
  <2>1. tasks' \in [Changes -> Task \cup {NoTask}]
    BY <1>2, <1>3 DEF IInv, StoreTypeOK
  <2>2. QED
    BY <1>2, <2>1 DEF IInv, StoreTypeOK
<1>7. TasksInv'
  <2>1. SUFFICES ASSUME NEW m \in Changes, Busy(m)' PROVE TaskInv(m)'
    BY DEF TasksInv
  <2>2. CASE m = n
    BY <1>1, <1>2, <1>3, <1>4, <2>2 DEF TaskInv, Working
  <2>3. CASE m # n
    BY <1>2, <1>4, <1>5, <2>1, <2>3 DEF IInv, TasksInv, TaskInv
  <2>4. QED
    BY <2>2, <2>3
<1>8. NamesApart' /\ SavedInv' /\ AskedInv'
  BY <1>1, <1>2, <1>3, <1>4, <1>5 DEF IInv, NamesApart, SavedInv, AskedInv
<1>9. HandlesApart'
  BY <1>2, <1>5 DEF IInv, HandlesApart
<1>10. TurnsInv'
  <2>1. SUFFICES ASSUME NEW m \in Changes, Busy(m), TmpName(m) \notin raced,
                        tasks[m].fd # 0
                 PROVE  WorkInv(m)'
    BY <1>2, <1>5 DEF IInv, TurnsInv
  <2>2. WorkInv(m) /\ tasks[m].fd \in Inodes
    BY <2>1, TaskFacts DEF IInv, TurnsInv
  <2>3. Turn(m)'
    BY <1>5, <2>2 DEF WorkInv, Turn
  <2>4. CASE m = n
    BY <1>2, <1>3, <1>4, <1>5, <1>1, <2>1, <2>2, <2>3, <2>4 DEF WorkInv, Written
  <2>5. CASE m # n
    <3>1. tasks[m].fd # tasks[n].fd
      BY <1>1, <2>1, <2>2, <2>5 DEF WorkInv, Turn, IInv, HandlesApart
    <3>2. content'[tasks[m].fd] = content[tasks[m].fd]
             /\ (tasks[m].fd \in synced => tasks[m].fd \in synced')
      BY <2>2, <3>1 DEF Works
    <3>3. QED
      BY <1>2, <1>4, <1>5, <2>2, <2>3, <2>5, <3>2 DEF WorkInv, Written, Works
  <2>6. QED
    BY <2>4, <2>5
<1>11. FilesInv'
  BY <1>1, <1>2, FilesKept DEF Works
<1>12. QED
  BY <1>6, <1>7, <1>8, <1>9, <1>10, <1>11 DEF IInv

\* Over an empty file that is its own, a task writes what it has.
LEMMA WriteAllInv ==
    ASSUME IInv, NEW n \in Changes, WriteAll(n)
    PROVE  IInv'
<1> DEFINE i == tasks[n].fd
<1>1. Busy(n) /\ tasks[n].st = "opened" /\ tasks[n].op = "save" /\ i # 0 /\ i \in Inodes
         /\ tasks[n].val \in 0..MaxChanges
  BY TaskFacts DEF WriteAll, At, IInv, TasksInv, TaskInv, Working
<1>2. PICK c \in {tasks[n].val, Torn} :
         (c = Torn => content[i] # Missing) /\ content' = [content EXCEPT ![i] = c]
  BY DEF WriteAll
<1>3. synced' = synced \ {i} /\ tasks' = [tasks EXCEPT ![n].st = "written"]
         /\ UNCHANGED <<memVars, dirVars, file, tmp, journal, bounds, history>>
  BY DEF WriteAll, Goto
<1>4. content' \in [Inodes -> 0..Torn] /\ synced' \in SUBSET Inodes
  <2>1. c \in 0..Torn
    BY <1>1, <1>2, Numbers DEF Torn
  <2>2. QED
    BY <1>2, <1>3, <2>1 DEF IInv, StoreTypeOK
<1>5. \A j \in Inodes : j # i => content'[j] = content[j] /\ (j \in synced => j \in synced')
  BY <1>2, <1>3 DEF IInv, StoreTypeOK
<1>6. TmpName(n) \notin raced => content'[i] = tasks[n].val
  BY <1>1, <1>2 DEF IInv, TurnsInv, WorkInv, StoreTypeOK
<1>7. Works(n, "written")
  BY <1>1, <1>3, <1>5 DEF Works, bounds, history
<1>8. faults' \in 0..MaxFaults /\ unwritten' \in SUBSET Changes
  BY <1>3 DEF bounds, history, IInv, StoreTypeOK
<1>9. QED
  BY <1>4, <1>6, <1>7, <1>8, WorksInv

\* A write that fails leaves what is known not to have been written.
LEMMA WriteFailsInv ==
    ASSUME IInv, NEW n \in Changes, WriteFails(n)
    PROVE  IInv'
<1> DEFINE i == tasks[n].fd
<1>1. Busy(n) /\ tasks[n].st = "opened" /\ tasks[n].op = "save" /\ i # 0 /\ i \in Inodes
  BY TaskFacts DEF WriteFails, At, IInv, TasksInv, TaskInv, Working
<1>2. /\ content' = [content EXCEPT ![i] = Torn] /\ synced' = synced \ {i}
      /\ tasks' = [tasks EXCEPT ![n].st = "written"] /\ unwritten' = unwritten \cup {n}
      /\ UNCHANGED <<memVars, dirVars, file, tmp, journal, crashes, saved, settled, raced>>
  BY DEF WriteFails, Goto
<1>3. /\ content' \in [Inodes -> 0..Torn] /\ synced' \in SUBSET Inodes
      /\ faults' \in 0..MaxFaults /\ unwritten' \in SUBSET Changes
  <2>1. Torn \in 0..Torn
    BY Numbers DEF Torn
  <2>2. faults' \in 0..MaxFaults
    BY FaultFacts DEF WriteFails, IInv
  <2>3. QED
    BY <1>2, <2>1, <2>2 DEF IInv, StoreTypeOK
<1>4. \A j \in Inodes : j # i => content'[j] = content[j] /\ (j \in synced => j \in synced')
  BY <1>2 DEF IInv, StoreTypeOK
<1>5. content'[i] = Torn /\ n \in unwritten'
  BY <1>1, <1>2 DEF IInv, StoreTypeOK
<1>6. Works(n, "written")
  BY <1>1, <1>2, <1>4 DEF Works
<1>7. QED
  BY <1>3, <1>5, <1>6, WorksInv

LEMMA SyncAllInv ==
    ASSUME IInv, NEW n \in Changes, SyncAll(n)
    PROVE  IInv'
<1> DEFINE i == tasks[n].fd
<1>1. Busy(n) /\ tasks[n].st = "written" /\ tasks[n].op = "save" /\ i # 0 /\ i \in Inodes
  BY TaskFacts DEF SyncAll, At, IInv, TasksInv, TaskInv, Working
<1>2. synced' = synced \cup {i} /\ tasks' = [tasks EXCEPT ![n].st = "synced"]
         /\ UNCHANGED <<memVars, dirVars, file, tmp, journal, bounds, history>>
         /\ content' = content
  BY DEF SyncAll, Goto
<1>3. /\ content' \in [Inodes -> 0..Torn] /\ synced' \in SUBSET Inodes
      /\ faults' \in 0..MaxFaults /\ unwritten' \in SUBSET Changes
  BY <1>1, <1>2 DEF IInv, StoreTypeOK, bounds, history
<1>4. TmpName(n) \notin raced =>
         content'[i] = tasks[n].val \/ (content'[i] = Torn /\ n \in unwritten')
  BY <1>1, <1>2 DEF IInv, TurnsInv, WorkInv, Written, history
<1>5. Works(n, "synced")
  BY <1>1, <1>2 DEF Works, bounds, history
<1>6. QED
  BY <1>2, <1>3, <1>4, <1>5, WorksInv

\* A task that has done its change goes, and nothing else has changed of the
\* tasks, the map and what the inodes hold.
Finishes(n) ==
    /\ Busy(n)
    /\ Done(n) /\ Saved(n)
    /\ UNCHANGED <<memVars, dirVars, content, synced, journal, bounds, settled, unwritten>>

LEMMA FinishesFacts ==
    ASSUME IInv, NEW n \in Changes, Finishes(n)
    PROVE  /\ \A m \in Changes : Busy(m)' => m # n /\ Busy(m) /\ tasks'[m] = tasks[m]
                                             /\ TmpName(m)' = TmpName(m)
           /\ TasksInv' /\ SavedInv' /\ AskedInv'
           /\ tasks' \in [Changes -> Task \cup {NoTask}]
           /\ saved' \in [Keys -> 0..MaxChanges]
           /\ saved'[tasks[n].key] \in {n, saved[tasks[n].key]}
           /\ saved[tasks[n].key] < n => saved'[tasks[n].key] = n
           /\ \A k \in Keys \ {tasks[n].key} : saved'[k] = saved[k]
<1>1. tasks' = [tasks EXCEPT ![n] = NoTask]
         /\ UNCHANGED <<mode, mem, changes, held, removed, dir, making, content, synced, journal,
                        faults, crashes, settled, unwritten>>
  BY DEF Finishes, Done, memVars, dirVars, bounds
<1>2. \A m \in Changes : Busy(m)' => m # n /\ Busy(m) /\ tasks'[m] = tasks[m]
                                      /\ TmpName(m)' = TmpName(m)
  BY <1>1 DEF IInv, StoreTypeOK, Busy, NoTask, TmpName
<1>3. TasksInv'
  BY <1>1, <1>2 DEF IInv, TasksInv, TaskInv
<1>4. tasks[n].key \in Keys /\ n \in 0..MaxChanges /\ n <= changes
  BY TaskFacts, Numbers DEF Finishes, IInv, TasksInv, TaskInv, Changes
<1>5. saved' = [saved EXCEPT ![tasks[n].key] = IF saved[tasks[n].key] < n THEN n
                                               ELSE saved[tasks[n].key]]
  BY DEF Finishes, Saved
<1>6. /\ saved' \in [Keys -> 0..MaxChanges]
      /\ saved'[tasks[n].key] \in {n, saved[tasks[n].key]}
      /\ saved[tasks[n].key] < n => saved'[tasks[n].key] = n
      /\ \A k \in Keys \ {tasks[n].key} : saved'[k] = saved[k]
  BY <1>4, <1>5 DEF IInv, StoreTypeOK
<1>7. SavedInv' /\ AskedInv'
  BY <1>1, <1>2, <1>4, <1>6 DEF IInv, SavedInv, AskedInv
<1>8. tasks' \in [Changes -> Task \cup {NoTask}]
  BY <1>1 DEF IInv, StoreTypeOK
<1>9. QED
  BY <1>2, <1>3, <1>6, <1>7, <1>8

\* What is renamed is what the task has written, unless tasks have raced.
LEMMA RenameInv ==
    ASSUME IInv, NEW n \in Changes, Rename(n)
    PROVE  IInv'
<1> DEFINE t == TmpName(n)
           k == tasks[n].key
<1>1. /\ Busy(n) /\ tasks[n].st = "synced" /\ tasks[n].op = "save" /\ tasks[n].fd # 0
      /\ TaskInv(n) /\ k \in Keys /\ t \in Tmps /\ t = TmpOf[k]
  BY TaskFacts DEF Rename, At, IInv, TasksInv, TaskInv, Working, TmpName
<1>2. /\ file' = [file EXCEPT ![k] = tmp[t]] /\ tmp' = [tmp EXCEPT ![t] = Missing]
      /\ tmp[t] # 0
      /\ UNCHANGED <<mode, mem, changes, held, removed, dir, making, content, synced, journal,
                     faults, crashes, settled, raced, unwritten>>
  BY DEF Rename, memVars, dirVars, bounds, Missing
<1>3. Finishes(n)
  BY <1>1 DEF Rename, Finishes
<1>4. /\ file'[k] = tmp[t] /\ \A l \in Keys \ {k} : file'[l] = file[l]
      /\ tmp'[t] = 0 /\ \A u \in Tmps \ {t} : tmp'[u] = tmp[u]
      /\ tmp[t] \in Inodes
  BY <1>1, <1>2 DEF IInv, StoreTypeOK, Missing
<1>5. StoreTypeOK'
  <2>1. file' \in [Keys -> {0} \cup Inodes] /\ tmp' \in [Tmps -> {0} \cup Inodes]
    BY <1>2, <1>4 DEF IInv, StoreTypeOK, Missing
  <2>2. QED
    BY <1>2, <1>3, <2>1, FinishesFacts DEF IInv, StoreTypeOK
<1>6. NamesApart'
  <2>1. \A l \in Keys : tmp[t] \notin {file[l], journal[l]}
    BY <1>1, <1>2 DEF IInv, NamesApart
  <2>2. \A u \in Tmps \ {t} : tmp[u] # tmp[t]
    BY <1>1, <1>2 DEF IInv, NamesApart
  <2>3. \A l, m \in Keys : file'[l] # 0 /\ file'[l] \in {file'[m], journal[m]} => l = m
    BY <1>4, <2>1 DEF IInv, NamesApart
  <2>4. \A u, w \in Tmps : tmp'[u] # 0 /\ tmp'[u] = tmp'[w] => u = w
    BY <1>4 DEF IInv, NamesApart
  <2>5. \A l \in Keys, u \in Tmps : tmp'[u] # 0 => tmp'[u] \notin {file'[l], journal[l]}
    BY <1>2, <1>4, <2>2 DEF IInv, NamesApart
  <2>6. QED
    BY <1>2, <2>3, <2>4, <2>5 DEF IInv, NamesApart
<1>7. HandlesApart'
  <2>1. SUFFICES ASSUME NEW m \in Changes, Busy(m), tasks'[m] = tasks[m], tasks[m].fd # 0
                 PROVE  /\ \A u \in Tmps : tasks[m].fd = tmp'[u] => u = TmpName(m)
                        /\ \A l \in Keys : tasks[m].fd \in {file'[l], journal[l]}
                                             => TmpOf[l] = TmpName(m)
                        /\ \A p \in Changes : Busy(p)' /\ tasks'[p].fd = tasks[m].fd
                                                => TmpName(p) = TmpName(m)
    BY <1>2, <1>3, FinishesFacts DEF HandlesApart
  <2>2. \A p \in Changes : Busy(p)' => Busy(p) /\ tasks'[p] = tasks[p]
    BY <1>3, FinishesFacts
  <2>3. QED
    BY <1>1, <1>4, <2>1, <2>2 DEF IInv, HandlesApart
<1>8. t \notin raced => WorkInv(n) /\ saved[k] < n
  BY <1>1 DEF IInv, TurnsInv
<1>9. TurnsInv'
  <2>1. SUFFICES ASSUME NEW m \in Changes, Busy(m)', TmpName(m)' \notin raced
                 PROVE  /\ saved'[tasks'[m].key] < m
                        /\ tasks'[m].fd # 0 => WorkInv(m)'
    BY <1>2 DEF TurnsInv
  <2>2. /\ m # n /\ Busy(m) /\ tasks'[m] = tasks[m] /\ TmpName(m)' = TmpName(m)
        /\ TmpName(m) \notin raced /\ saved[tasks[m].key] < m
        /\ tasks[m].fd # 0 => WorkInv(m)
        /\ tasks[m].key \in Keys /\ TmpName(m) \in Tmps
    BY <1>3, <2>1, FinishesFacts, TaskFacts DEF IInv, TurnsInv
  <2>3. TmpName(m) = t => n < m /\ tasks[m].fd = 0
    BY <1>8, <2>2 DEF WorkInv, Turn
  <2>4. saved'[tasks[m].key] < m
    BY <1>3, <2>2, <2>3, FinishesFacts DEF TmpName
  <2>5. ASSUME tasks[m].fd # 0 PROVE WorkInv(m)'
    <3>1. TmpName(m) # t /\ WorkInv(m)
      BY <2>2, <2>3, <2>5
    <3>2. Turn(m)'
      <4>1. \A p \in Changes : Busy(p)' => Busy(p) /\ tasks'[p] = tasks[p]
                                           /\ TmpName(p)' = TmpName(p)
        BY <1>3, FinishesFacts
      <4>2. QED
        BY <2>2, <3>1, <4>1 DEF WorkInv, Turn
    <3>3. QED
      BY <1>2, <1>4, <2>2, <3>1, <3>2 DEF WorkInv, Written
  <2>6. QED
    BY <2>2, <2>4, <2>5
<1>10. FilesInv'
  <2>1. SUFFICES ASSUME NEW l \in Keys, TmpOf[l] \notin raced
                 PROVE  NameInv(l, file[l], saved[l])' /\ NameInv(l, journal[l], settled[l])'
    BY <1>2 DEF FilesInv, Undisturbed
  <2>2. NameInv(l, file[l], saved[l]) /\ NameInv(l, journal[l], settled[l])
    BY <2>1 DEF IInv, FilesInv, Undisturbed
  <2>3. NameInv(l, journal[l], settled[l])'
    BY <1>2, <2>2 DEF NameInv, Genuine
  <2>4. CASE l = k
    <3>1. WorkInv(n) /\ saved'[k] = n
      BY <1>1, <1>3, <1>8, <2>1, <2>4, FinishesFacts
    <3>2. tmp[t] = tasks[n].fd /\ Written(n, tasks[n].fd) /\ tasks[n].fd \in synced
      BY <1>1, <3>1 DEF WorkInv
    <3>3. tasks[n].val >= n /\ tasks[n].val \in held[k]
      BY <1>1 DEF TaskInv
    <3>4. QED
      BY <1>2, <1>4, <2>3, <2>4, <3>1, <3>2, <3>3 DEF NameInv, Genuine, Written
  <2>5. CASE l # k
    <3>1. file'[l] = file[l] /\ saved'[l] = saved[l]
      BY <1>3, <1>4, <2>5, FinishesFacts
    <3>2. QED
      BY <1>2, <2>2, <2>3, <3>1 DEF NameInv, Genuine
  <2>6. QED
    BY <2>4, <2>5
<1>11. QED
  BY <1>3, <1>5, <1>6, <1>7, <1>9, <1>10, FinishesFacts DEF IInv

LEMMA UnlinkInv ==
    ASSUME IInv, NEW n \in Changes, Unlink(n)
    PROVE  IInv'
<1> DEFINE t == TmpName(n)
           k == tasks[n].key
<1>1. Busy(n) /\ k \in Keys /\ t \in Tmps /\ t = TmpOf[k]
  BY TaskFacts DEF Unlink, At, IInv, TmpName
<1>2. /\ file' = [file EXCEPT ![k] = Missing] /\ UNCHANGED tmp
      /\ raced' = IF Turn(n) THEN raced ELSE raced \cup {t}
      /\ UNCHANGED <<mode, mem, changes, held, removed, dir, making, content, synced, journal,
                     faults, crashes, settled, unwritten>>
  BY DEF Unlink, Starting, memVars, dirVars, bounds
<1>3. Finishes(n)
  BY <1>1 DEF Unlink, Finishes
<1>4. \A l \in Keys : file'[l] = IF l = k THEN 0 ELSE file[l]
  BY <1>1, <1>2 DEF IInv, StoreTypeOK, Missing
<1>5. \A m \in Changes : Busy(m)' => m # n /\ Busy(m) /\ tasks'[m] = tasks[m]
                                      /\ TmpName(m)' = TmpName(m)
  BY <1>3, FinishesFacts
<1>6. StoreTypeOK'
  <2>1. file' \in [Keys -> {0} \cup Inodes] /\ raced' \in SUBSET Tmps
    BY <1>1, <1>2 DEF IInv, StoreTypeOK, Missing
  <2>2. QED
    BY <1>2, <1>3, <2>1, FinishesFacts DEF IInv, StoreTypeOK
<1>7. NamesApart'
  BY <1>2, <1>4 DEF IInv, NamesApart
<1>8. HandlesApart'
  BY <1>2, <1>4, <1>5 DEF IInv, HandlesApart
<1>9. TurnsInv'
  <2>1. SUFFICES ASSUME NEW m \in Changes, Busy(m)', TmpName(m)' \notin raced'
                 PROVE  /\ saved'[tasks'[m].key] < m
                        /\ tasks'[m].fd # 0 => WorkInv(m)'
    BY DEF TurnsInv
  <2>2. /\ m # n /\ Busy(m) /\ tasks'[m] = tasks[m] /\ TmpName(m)' = TmpName(m)
        /\ TmpName(m) \notin raced /\ (TmpName(m) = t => Turn(n))
        /\ saved[tasks[m].key] < m
        /\ tasks[m].fd # 0 => WorkInv(m)
        /\ tasks[m].key \in Keys
    BY <1>2, <1>5, <2>1, TaskFacts DEF IInv, TurnsInv
  <2>3. TmpName(m) = t => n < m
    BY <2>2 DEF Turn
  <2>4. saved'[tasks[m].key] < m
    BY <1>3, <2>2, <2>3, FinishesFacts DEF TmpName
  <2>5. ASSUME tasks[m].fd # 0 PROVE WorkInv(m)'
    <3>1. Turn(m)'
      BY <1>5, <2>2, <2>5 DEF WorkInv, Turn
    <3>2. QED
      BY <1>2, <2>2, <2>5, <3>1 DEF WorkInv, Written
  <2>6. QED
    BY <2>2, <2>4, <2>5
<1>10. FilesInv'
  <2>1. SUFFICES ASSUME NEW l \in Keys, TmpOf[l] \notin raced'
                 PROVE  NameInv(l, file[l], saved[l])' /\ NameInv(l, journal[l], settled[l])'
    BY DEF FilesInv, Undisturbed
  <2>2. NameInv(l, file[l], saved[l]) /\ NameInv(l, journal[l], settled[l])
    BY <1>2, <2>1 DEF IInv, FilesInv, Undisturbed
  <2>3. l # k => file'[l] = file[l] /\ saved'[l] = saved[l]
    BY <1>3, <1>4, FinishesFacts
  <2>4. QED
    BY <1>2, <1>4, <2>2, <2>3 DEF NameInv, Genuine
<1>11. QED
  BY <1>3, <1>6, <1>7, <1>8, <1>9, <1>10, FinishesFacts DEF IInv

-----------------------------------------------------------------------------
(* The theorems.                                                           *)

LEMMA InductiveInv == Spec => []IInv
<1>1. IInv /\ [Next]_vars => IInv'
  <2> SUFFICES ASSUME IInv, [Next]_vars PROVE IInv'
    OBVIOUS
  <2>1. CASE \/ StartLoaded
             \/ \E m \in Modes : StartEmpty(m)
             \/ \E read \in SUBSET Keys : LoadFails(read)
    BY <2>1, StartInv
  <2>2. CASE MakeDir \/ MakeDirFails \/ UNCHANGED vars
    BY <2>2, MakeDirInv
  <2>3. CASE \/ Killed
             \/ \E lost \in SUBSET {i \in Inodes \ synced : content[i] # Missing} : PowerFails(lost)
    BY <2>3, EndInv
  <2>4. ASSUME NEW k \in Keys, Journal(k) \/ Insert(k) \/ Modify(k) \/ Remove(k) PROVE IInv'
    <3>1. changes \in Nat
      BY DEF IInv, StoreTypeOK
    <3>2. CASE Insert(k)
      BY <3>1, <3>2, SpawnInv DEF Insert, Missing
    <3>3. CASE Modify(k)
      BY <3>1, <3>3, SpawnInv DEF Modify, Missing
    <3>4. CASE Remove(k)
      BY <3>1, <3>4, SpawnInv DEF Remove, Missing
    <3>5. QED
      BY <2>4, <3>2, <3>3, <3>4, JournalInv
  <2>5. ASSUME NEW n \in Changes, SaveTask(n) \/ IoFault(n) \/ WriteFails(n) PROVE IInv'
    BY <2>5, TakeBytesInv, OpenTmpInv, WriteAllInv, SyncAllInv, RenameInv,
       CannotProceedInv, WakeUpInv, UnlinkInv, IoFaultInv, WriteFailsInv DEF SaveTask
  <2>6. QED
    BY <2>1, <2>2, <2>3, <2>4, <2>5 DEF Next
<1>2. QED
  BY InitInv, <1>1, PTL DEF Spec

\* The map, the tasks and the files are in their type at every step: no task
\* makes an attempt too many, and there is an inode for everyone who creates a
\* file.
THEOREM StoreTypeCorrect == Spec => []StoreTypeOK
<1>1. IInv => StoreTypeOK
  BY DEF IInv
<1>2. QED
  BY InductiveInv, <1>1, PTL

\* As long as the tasks of a temporary file take turns, the files it is renamed
\* to hold what their key has had, or what load leaves out when a write of the
\* change saved last has failed unseen, and are not behind that change: through
\* failures of any file operation, and whatever the disk has of renames and
\* removals when the machine ends.
THEOREM FilesGenuineTheorem == Spec => []FilesGenuine
<1>1. IInv => FilesGenuine
  BY DEF IInv, FilesInv, NameInv, FilesGenuine, Missing
<1>2. QED
  BY InductiveInv, <1>1, PTL

-----------------------------------------------------------------------------
(* The cache implements AtomicStore.                                       *)

Observed == <<mode # "down", mem, changes, held, removed, unwritten, Disk, Kept, Disturbed>>

\* The file of an undisturbed key is seen as before when it is the same, and its
\* inode holds the same.
LEMMA SameFile ==
    ASSUME NEW k \in Keys, Undisturbed(k) = Undisturbed(k)',
           Undisturbed(k) => /\ file'[k] = file[k] /\ saved'[k] = saved[k]
                             /\ file[k] # 0 => content'[file[k]] = content[file[k]]
    PROVE  Disk'[k] = Disk[k]
  BY DEF Disk, Files, Missing

LEMMA SameKept ==
    ASSUME NEW k \in Keys, Undisturbed(k) = Undisturbed(k)',
           Undisturbed(k) =>
              /\ journal'[k] = journal[k] /\ settled'[k] = settled[k]
              /\ journal[k] # 0 => content'[journal[k]] = content[journal[k]]
    PROVE  Kept'[k] = Kept[k]
  BY DEF Kept, Files, Missing

LEMMA SameAll ==
    ASSUME \A k \in Keys : Disk'[k] = Disk[k]
    PROVE  Disk' = Disk
  BY DEF Disk, Files

LEMMA SameAllKept ==
    ASSUME \A k \in Keys : Kept'[k] = Kept[k]
    PROVE  Kept' = Kept
  BY DEF Kept, Files

\* While neither files nor tasks that have raced change, what is seen of the
\* files is what those of undisturbed keys hold.
LEMMA FilesSeen ==
    ASSUME UNCHANGED <<file, journal, saved, settled, raced>>,
           \A k \in Keys : Undisturbed(k) =>
              \A i \in {file[k], journal[k]} : i # 0 => content'[i] = content[i]
    PROVE  UNCHANGED <<Disk, Kept, Disturbed>>
<1>1. \A k \in Keys : Undisturbed(k)' = Undisturbed(k)
  BY DEF Undisturbed
<1>2. \A k \in Keys : Disk'[k] = Disk[k] /\ Kept'[k] = Kept[k]
  BY <1>1, SameFile, SameKept
<1>3. QED
  BY <1>1, <1>2, SameAll, SameAllKept DEF Disturbed

\* What a task does to its temporary file, or to itself, is not seen.
LEMMA TaskUnseen ==
    ASSUME IInv, NEW n \in Changes, Busy(n),
           UNCHANGED <<memVars, file, journal, saved, settled, raced>>,
           \A i \in Inodes : i # tasks[n].fd => content'[i] = content[i]
    PROVE  UNCHANGED <<mode, mem, changes, held, removed, Disk, Kept, Disturbed>>
<1>1. ASSUME NEW k \in Keys, Undisturbed(k), NEW i \in {file[k], journal[k]}, i # 0
      PROVE  content'[i] = content[i]
  <2>1. i \in Inodes
    BY <1>1 DEF IInv, StoreTypeOK
  <2>2. QED
    BY <1>1, <2>1, FilesUntouched
<1>2. UNCHANGED <<Disk, Kept, Disturbed>>
  BY <1>1, FilesSeen
<1>3. QED
  BY <1>2 DEF memVars

LEMMA UnseenSteps ==
    ASSUME IInv, NEW n \in Changes,
           \/ TakeBytes(n) \/ WriteAll(n) \/ SyncAll(n) \/ CannotProceed(n)
           \/ WakeUp(n) \/ IoFault(n)
    PROVE  UNCHANGED Observed
<1>1. Busy(n)
  BY DEF TakeBytes, WriteAll, SyncAll, CannotProceed, WakeUp, IoFault, At, Busy
<1>2. UNCHANGED <<memVars, file, journal, saved, settled, raced, unwritten>>
  BY DEF TakeBytes, WriteAll, SyncAll, CannotProceed, WakeUp, IoFault, diskVars, history
<1>3. \A i \in Inodes : i # tasks[n].fd => content'[i] = content[i]
  BY DEF TakeBytes, WriteAll, SyncAll, CannotProceed, WakeUp, IoFault, diskVars,
         IInv, StoreTypeOK
<1>4. QED
  BY <1>1, <1>2, <1>3, TaskUnseen DEF Observed

LEMMA WriteFailsSeen ==
    ASSUME IInv, NEW n \in Changes, WriteFails(n)
    PROVE  Atomic!WriteLost
<1>1. Busy(n) /\ mode # "down" /\ n \in 1..changes
  BY Numbers DEF WriteFails, At, IInv, TasksInv, TaskInv, StoreTypeOK, Changes
<1>2. /\ UNCHANGED <<memVars, file, journal, saved, settled, raced>>
      /\ unwritten' = unwritten \cup {n}
      /\ \A i \in Inodes : i # tasks[n].fd => content'[i] = content[i]
  BY DEF WriteFails, IInv, StoreTypeOK
<1>3. UNCHANGED <<mode, mem, changes, held, removed, Disk, Kept, Disturbed>>
  BY <1>1, <1>2, TaskUnseen
<1>4. QED
  BY <1>1, <1>2, <1>3 DEF Atomic!WriteLost

\* load finds what the disk holds of an undisturbed key, or nothing.
LEMMA BeginSeen ==
    ASSUME IInv, IInv',
           \/ StartLoaded
           \/ \E m \in Modes : StartEmpty(m)
           \/ \E read \in SUBSET Keys : LoadFails(read)
    PROVE  Atomic!Begin
<1>1. PICK m \in Modes, read \in SUBSET Keys : Begin(m, read)
  BY DEF StartLoaded, StartEmpty, LoadFails, Modes
<1>2. /\ UNCHANGED <<changes, held, removed, file, content, journal, saved, settled, raced, unwritten>>
      /\ mode = "down" /\ mode' = m /\ m # "down"
      /\ mem' = [k \in Keys |-> IF k \in read THEN Loaded(k) ELSE Missing]
  BY <1>1 DEF Begin, history, Modes
<1>3. UNCHANGED <<Disk, Kept, Disturbed>>
  BY <1>2, FilesSeen
<1>4. \A k \in Keys \ Disturbed : mem'[k] \in {Atomic!Missing, Disk[k].value}
  BY <1>2 DEF Loaded, Disk, Files, Disturbed, Atomic!Missing, Missing
<1>5. mem' \in [Keys -> 0..MaxChanges]
  BY DEF IInv, StoreTypeOK
<1>6. QED
  BY <1>2, <1>3, <1>4, <1>5 DEF Atomic!Begin

LEMMA JournalSeen ==
    ASSUME IInv, NEW k \in Keys, Journal(k)
    PROVE  Atomic!Settle(k)
<1>1. /\ UNCHANGED <<mode, mem, changes, held, removed, file, content, saved, raced, unwritten>>
      /\ journal' = [journal EXCEPT ![k] = file[k]]
      /\ settled' = [settled EXCEPT ![k] = saved[k]]
  BY DEF Journal, memVars
<1>2. \A l \in Keys : Undisturbed(l)' = Undisturbed(l)
  BY <1>1 DEF Undisturbed
<1>3. Disk' = Disk /\ Disturbed' = Disturbed
  BY <1>1, <1>2, SameFile, SameAll DEF Disturbed
<1>4. Kept' = [Kept EXCEPT ![k] = Disk[k]]
  <2>1. \A l \in Keys : journal'[l] = (IF l = k THEN file[k] ELSE journal[l])
                        /\ settled'[l] = (IF l = k THEN saved[k] ELSE settled[l])
    BY <1>1 DEF IInv, StoreTypeOK
  <2>2. \A l \in Keys : Kept'[l] = IF l = k THEN Disk[k] ELSE Kept[l]
    BY <1>1, <1>2, <2>1 DEF Kept, Disk, Files
  <2>3. Kept' = [l \in Keys |-> Kept'[l]] /\ Kept = [l \in Keys |-> Kept[l]]
    BY DEF Kept, Files
  <2> HIDE DEF Kept
  <2>4. QED
    BY <2>2, <2>3
<1>5. QED
  BY <1>1, <1>3, <1>4 DEF Atomic!Settle

\* The end costs what is not synced, which no undisturbed file is, and leaves the
\* files of now, or those of the disk.
LEMMA LoseSeen ==
    ASSUME IInv, Killed \/ \E lost \in SUBSET (Inodes \ synced) : PowerFails(lost)
    PROVE  Atomic!Lose
<1>1. /\ mode # "down" /\ mode' = "down" /\ mem' = [k \in Keys |-> Missing]
      /\ UNCHANGED <<changes, held, removed, journal, settled, raced, unwritten>>
  BY DEF Killed, PowerFails, End
<1>2. \A k \in Keys : Undisturbed(k)' = Undisturbed(k)
  BY <1>1 DEF Undisturbed
<1>3. \A i \in synced : content'[i] = content[i]
  BY DEF Killed, PowerFails, IInv, StoreTypeOK
<1>4. \A k \in Keys : Undisturbed(k) =>
         \A i \in {file[k], journal[k]} : i # 0 => content'[i] = content[i]
  BY <1>3 DEF IInv, FilesInv, NameInv
<1>5. Kept' = Kept /\ Disturbed' = Disturbed
  BY <1>1, <1>2, <1>4, SameKept, SameAllKept DEF Disturbed
<1>6. Disk' \in {Disk, Kept}
  <2>1. CASE UNCHANGED <<file, saved>>
    BY <1>2, <1>4, <2>1, SameFile, SameAll
  <2>2. CASE file' = journal /\ saved' = settled
    <3>1. \A k \in Keys : Disk'[k] = Kept[k]
      BY <1>2, <1>4, <2>2 DEF Disk, Kept, Files, Missing
    <3>2. Disk' = [k \in Keys |-> Disk'[k]] /\ Kept = [k \in Keys |-> Kept[k]]
      BY DEF Disk, Kept, Files
    <3> HIDE DEF Disk, Kept
    <3>3. QED
      BY <3>1, <3>2
  <2>3. QED
    BY <2>1, <2>2 DEF Killed, PowerFails
<1>7. QED
  BY <1>1, <1>5, <1>6 DEF Atomic!Lose, Atomic!AtNothing, Atomic!Missing, Missing

\* A change of the map is one of the map alone.
LEMMA ChangeSeen ==
    ASSUME IInv, NEW k \in Keys, Insert(k) \/ Modify(k) \/ Remove(k)
    PROVE  Atomic!Put(k) \/ Atomic!Take(k)
<1>1. PICK value \in {Missing, changes + 1} : \E task : Spawn(k, value, task)
  BY DEF Insert, Modify, Remove
<1>2. /\ UNCHANGED <<mode, file, journal, content, saved, settled, raced, unwritten>>
      /\ mode # "down"
      /\ changes' = changes + 1 /\ mem' = [mem EXCEPT ![k] = value]
      /\ held' = [held EXCEPT ![k] = @ \cup ({value} \ {Missing})]
      /\ removed' = [removed EXCEPT ![k] = @ \cup IF value = Missing THEN {changes + 1} ELSE {}]
  BY <1>1 DEF Spawn, diskVars, history
<1>3. UNCHANGED <<Disk, Kept, Disturbed>>
  BY <1>2, FilesSeen
<1>4. changes + 1 # Missing
  BY DEF IInv, StoreTypeOK, Missing
<1>5. held \in [Keys -> SUBSET Changes] /\ removed \in [Keys -> SUBSET Changes]
  BY DEF IInv, StoreTypeOK
<1>6. CASE value = Missing
  <2>1. held' = held /\ removed' = [removed EXCEPT ![k] = @ \cup {changes + 1}]
    BY <1>2, <1>5, <1>6
  <2>2. Atomic!Take(k)
    BY <1>2, <1>3, <1>6, <2>1 DEF Atomic!Take, Atomic!Missing, Missing
  <2>3. QED
    BY <2>2
<1>7. CASE value = changes + 1
  <2>1. removed' = removed /\ held' = [held EXCEPT ![k] = @ \cup {changes + 1}]
    BY <1>2, <1>4, <1>5, <1>7
  <2>2. Atomic!Put(k)
    BY <1>2, <1>3, <1>7, <2>1 DEF Atomic!Put
  <2>3. QED
    BY <2>2
<1>8. QED
  BY <1>6, <1>7

\* A step that changes nothing that is seen of a key that stays undisturbed.
LEMMA DisturbSeen ==
    ASSUME UNCHANGED <<memVars, unwritten>>, mode # "down", raced \subseteq raced',
           \A k \in Keys : Undisturbed(k)' => Disk'[k] = Disk[k] /\ Kept'[k] = Kept[k]
    PROVE  Atomic!Disturb
<1>1. \A k \in Keys : Undisturbed(k)' => Undisturbed(k)
  BY DEF Undisturbed
<1>2. Disturbed' \in SUBSET Keys /\ Disturbed \subseteq Disturbed'
  BY <1>1 DEF Disturbed
<1>3. \A k \in Keys : k \in Disturbed' => Disk'[k] = Atomic!NoFile /\ Kept'[k] = Atomic!NoFile
  BY DEF Disk, Kept, Files, Disturbed, Atomic!NoFile, Atomic!Missing, Missing
<1>4. Disk' = [k \in Keys |-> Disk'[k]] /\ Kept' = [k \in Keys |-> Kept'[k]]
  BY DEF Disk, Kept, Files
<1>5. \A k \in Keys : k \notin Disturbed' => Undisturbed(k)'
  BY DEF Disturbed
<1>6. Disk' = [k \in Keys |-> IF k \in Disturbed' THEN Atomic!NoFile ELSE Disk[k]]
         /\ Kept' = [k \in Keys |-> IF k \in Disturbed' THEN Atomic!NoFile ELSE Kept[k]]
  <2> HIDE DEF Disk, Kept, Disturbed
  <2>1. QED
    BY <1>3, <1>4, <1>5
<1>7. QED
  BY <1>2, <1>6 DEF Atomic!Disturb, memVars

LEMMA OpenTmpSeen ==
    ASSUME IInv, NEW n \in Changes, OpenTmp(n)
    PROVE  Atomic!Disturb
<1> DEFINE t == TmpName(n)
           i == IF tmp[t] # Missing THEN tmp[t] ELSE FreeInode
<1>1. Busy(n) /\ t \in Tmps /\ tasks[n].fd = 0 /\ mode # "down"
  BY TaskFacts DEF OpenTmp, At, IInv, TasksInv, TaskInv, Working
<1>2. i \in Inodes /\ (i = tmp[t] \/ i \notin Referenced)
  BY <1>1, FreeInodeIsFree DEF IInv, StoreTypeOK, Missing
<1>3. /\ content' = [content EXCEPT ![i] = Missing]
      /\ UNCHANGED <<memVars, file, journal, saved, settled, unwritten>>
      /\ raced \subseteq raced'
  BY DEF OpenTmp, Starting
<1> HIDE DEF i
<1>4. \A k \in Keys : i \notin {file[k], journal[k]}
  BY <1>1, <1>2, Numbers DEF IInv, NamesApart, Referenced
<1>5. \A k \in Keys : \A j \in {file[k], journal[k]} : j # 0 => content'[j] = content[j]
  BY <1>2, <1>3, <1>4 DEF IInv, StoreTypeOK
<1>6. \A k \in Keys : Undisturbed(k)' => Undisturbed(k)
  BY <1>3 DEF Undisturbed
<1>7. \A k \in Keys : Undisturbed(k)' => Disk'[k] = Disk[k] /\ Kept'[k] = Kept[k]
  BY <1>3, <1>5, <1>6, SameFile, SameKept
<1>8. QED
  BY <1>1, <1>3, <1>7, DisturbSeen

\* When change n of k is done without a race, what is seen of k is its value.
LEMMA PersistSeen ==
    ASSUME IInv, NEW n \in Changes, NEW k \in Keys, k = tasks[n].key, Finishes(n), mode # "down",
           \A l \in Keys \ {k} : file'[l] = file[l],
           UNCHANGED raced, Undisturbed(k), saved[k] < n,
           NEW v, v = IF file'[k] = Missing THEN Missing ELSE content[file'[k]]
    PROVE  Atomic!Persist(k, n, v)
<1>1. /\ UNCHANGED <<memVars, content, journal, settled, unwritten>>
      /\ saved'[k] = n /\ \A l \in Keys \ {k} : saved'[l] = saved[l]
  BY FinishesFacts DEF Finishes
<1>2. \A l \in Keys : Undisturbed(l)' = Undisturbed(l)
  BY DEF Undisturbed
<1>3. Kept' = Kept /\ Disturbed' = Disturbed
  BY <1>1, <1>2, SameKept, SameAllKept DEF Disturbed
<1>4. \A l \in Keys : Disk'[l] = IF l = k THEN [value |-> v, change |-> n] ELSE Disk[l]
  BY <1>1, <1>2 DEF Disk, Files
<1>5. Disk' = [l \in Keys |-> Disk'[l]] /\ Disk = [l \in Keys |-> Disk[l]]
  BY DEF Disk, Files
<1>6. Disk[k].change < n /\ k \notin Disturbed
  BY DEF Disk, Files, Disturbed
<1>7. Disk' = [Disk EXCEPT ![k] = [value |-> v, change |-> n]]
  <2> HIDE DEF Disk
  <2>1. QED
    BY <1>4, <1>5
<1>8. QED
  BY <1>1, <1>3, <1>6, <1>7 DEF Atomic!Persist, memVars

\* A change that is done and of no interest any more.
LEMMA DoneDisturbed ==
    ASSUME IInv, NEW n \in Changes, NEW k \in Keys, k = tasks[n].key, Finishes(n), mode # "down",
           \A l \in Keys \ {k} : file'[l] = file[l],
           raced \subseteq raced', TmpOf[k] \in raced'
    PROVE  Atomic!Disturb
<1>1. /\ UNCHANGED <<memVars, content, journal, settled, unwritten>>
      /\ \A l \in Keys \ {k} : saved'[l] = saved[l]
  BY FinishesFacts DEF Finishes
<1>2. \A l \in Keys : Undisturbed(l)' => Undisturbed(l) /\ l # k
  BY DEF Undisturbed
<1>3. \A l \in Keys : Undisturbed(l)' => Disk'[l] = Disk[l] /\ Kept'[l] = Kept[l]
  BY <1>1, <1>2, SameFile, SameKept
<1>4. QED
  BY <1>1, <1>3, DisturbSeen

\* A rename is a save, as long as nobody else has used the temporary file.
LEMMA RenameSeen ==
    ASSUME IInv, NEW n \in Changes, Rename(n)
    PROVE  Atomic!Disturb \/ \E k \in Keys : Atomic!Save(k)
<1>0. PICK k \in Keys, t \in Tmps : k = tasks[n].key /\ t = TmpName(n) /\ t = TmpOf[k] /\ Busy(n)
  BY TaskFacts DEF Rename, At, IInv, TmpName
<1>1. /\ Busy(n) /\ mode # "down" /\ tasks[n].op = "save" /\ tasks[n].st = "synced"
      /\ tasks[n].fd # 0 /\ TaskInv(n)
  BY <1>0 DEF Rename, At, IInv, TasksInv, TaskInv, Working
<1>2. /\ file'[k] = tmp[t] /\ \A l \in Keys \ {k} : file'[l] = file[l]
      /\ tmp[t] # Missing /\ raced' = raced
  BY <1>0 DEF Rename, IInv, StoreTypeOK
<1>3. Finishes(n)
  BY <1>0, <1>1 DEF Rename, Finishes
<1>4. CASE t \in raced
  BY <1>0, <1>1, <1>2, <1>3, <1>4, DoneDisturbed
<1>5. CASE t \notin raced
  <2>1. WorkInv(n) /\ saved[k] < n
    BY <1>0, <1>1, <1>5 DEF IInv, TurnsInv
  <2>2. Undisturbed(k) /\ n \in held[k]
    BY <1>0, <1>1, <1>5 DEF Undisturbed, IInv, AskedInv
  <2>3. PICK v : v = content[tmp[t]]
    OBVIOUS
  <2>4. Atomic!Persist(k, n, v)
    BY <1>0, <1>1, <1>2, <1>3, <2>1, <2>2, <2>3, PersistSeen
  <2>5. (v \in held[k] /\ n <= v) \/ (v = Atomic!Torn /\ n \in unwritten)
    BY <1>0, <1>1, <2>1, <2>3 DEF WorkInv, Written, TaskInv, Atomic!Torn, Torn
  <2>6. QED
    BY <2>2, <2>4, <2>5 DEF Atomic!Save
<1>6. QED
  BY <1>4, <1>5

LEMMA UnlinkSeen ==
    ASSUME IInv, NEW n \in Changes, Unlink(n)
    PROVE  Atomic!Disturb \/ \E k \in Keys : Atomic!Unlink(k)
<1>0. PICK k \in Keys, t \in Tmps : k = tasks[n].key /\ t = TmpName(n) /\ t = TmpOf[k] /\ Busy(n)
  BY TaskFacts DEF Unlink, At, IInv, TmpName
<1>1. Busy(n) /\ mode # "down" /\ tasks[n].op = "remove"
  BY DEF Unlink, At
<1>2. /\ file'[k] = Missing /\ \A l \in Keys \ {k} : file'[l] = file[l]
      /\ raced' = IF Turn(n) THEN raced ELSE raced \cup {t}
  BY <1>0 DEF Unlink, Starting, IInv, StoreTypeOK
<1>3. Finishes(n)
  BY <1>0, <1>1 DEF Unlink, Finishes
<1>4. CASE t \in raced'
  BY <1>0, <1>1, <1>2, <1>3, <1>4, DoneDisturbed
<1>5. CASE t \notin raced'
  <2>1. raced' = raced /\ saved[k] < n /\ Undisturbed(k) /\ n \in removed[k]
    BY <1>0, <1>1, <1>2, <1>5 DEF IInv, TurnsInv, AskedInv, Undisturbed
  <2>2. Atomic!Persist(k, n, Missing)
    BY <1>0, <1>1, <1>2, <1>3, <2>1, PersistSeen
  <2>3. QED
    BY <2>1, <2>2 DEF Atomic!Unlink, Atomic!Missing, Missing
<1>6. QED
  BY <1>4, <1>5

\* For any keys, failures and ends of the process or the machine, the cache is a
\* store that replaces each file in one step and does the changes of a key in
\* their order, as far as the tasks of a temporary file take turns.  What is
\* done survives the end of the process, and that of the machine once it has
\* reached the disk; only a write that fails unseen leaves a file that load
\* does not take.
THEOREM StoreTheorem == Spec => StoreRefined
<1>1. Init => Atomic!StoreInit
  <2> SUFFICES ASSUME Init PROVE Atomic!StoreInit
    OBVIOUS
  <2>1. \A k \in Keys : Undisturbed(k) /\ Disk[k] = Atomic!NoFile /\ Kept[k] = Atomic!NoFile
    BY DEF Init, Undisturbed, Disk, Kept, Files, Atomic!NoFile, Atomic!Missing, Missing
  <2>2. Disk = [k \in Keys |-> Disk[k]] /\ Kept = [k \in Keys |-> Kept[k]]
    BY DEF Disk, Kept, Files
  <2>3. /\ Disk = [k \in Keys |-> Atomic!NoFile] /\ Kept = [k \in Keys |-> Atomic!NoFile]
        /\ Disturbed = {}
    <3> HIDE DEF Disk, Kept
    <3>1. QED
      BY <2>1, <2>2 DEF Disturbed
  <2>4. QED
    BY <2>3 DEF Init, Atomic!StoreInit, Atomic!AtNothing, Atomic!Missing, Missing
<1>2. IInv /\ IInv' /\ [Next]_vars => [Atomic!StoreNext]_Observed
  <2> SUFFICES ASSUME IInv, IInv', [Next]_vars PROVE Atomic!StoreNext \/ UNCHANGED Observed
    OBVIOUS
  <2>1. CASE \/ StartLoaded
             \/ \E m \in Modes : StartEmpty(m)
             \/ \E read \in SUBSET Keys : LoadFails(read)
    BY <2>1, BeginSeen DEF Atomic!StoreNext
  <2>2. CASE MakeDir \/ MakeDirFails \/ UNCHANGED vars
    <3>1. UNCHANGED <<memVars, file, content, journal, saved, settled, raced, unwritten>>
      BY <2>2 DEF MakeDir, MakeDirFails, vars, diskVars, history
    <3>2. QED
      BY <3>1, FilesSeen DEF Observed, memVars
  <2>3. CASE \/ Killed
             \/ \E lost \in SUBSET {i \in Inodes \ synced : content[i] # Missing} : PowerFails(lost)
    BY <2>3, LoseSeen DEF Atomic!StoreNext
  <2>4. ASSUME NEW k \in Keys, Journal(k) \/ Insert(k) \/ Modify(k) \/ Remove(k)
        PROVE  Atomic!StoreNext
    BY <2>4, ChangeSeen, JournalSeen DEF Atomic!StoreNext
  <2>5. ASSUME NEW n \in Changes, SaveTask(n) \/ IoFault(n) \/ WriteFails(n)
        PROVE  Atomic!StoreNext \/ UNCHANGED Observed
    BY <2>5, UnseenSteps, WriteFailsSeen, OpenTmpSeen, RenameSeen, UnlinkSeen
       DEF SaveTask, Atomic!StoreNext
  <2>6. QED
    BY <2>1, <2>2, <2>3, <2>4, <2>5 DEF Next
<1>3. QED
  BY <1>1, <1>2, InductiveInv, PTL
  DEF Spec, StoreRefined, Atomic!StoreSpec, Atomic!storeVars, Observed
=============================================================================
