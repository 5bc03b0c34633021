------------------------- MODULE ConfigListenProofs -------------------------
(***************************************************************************)
(* Theorems of ConfigListen, for any listeners and contents, every size of *)
(* the channel and any number of changes and lost connections.             *)
(***************************************************************************)
EXTENDS ConfigListen, FiniteSetTheorems, SequenceTheorems, TLAPS

-----------------------------------------------------------------------------
(* The helpers of the model.                                               *)

\* The elements of a finite set in some order.
LEMMA SetToSeqType ==
    ASSUME NEW S, IsFiniteSet(S)
    PROVE  SetToSeq(S) \in Seq(S)
<1>1. Cardinality(S) \in Nat /\ ExistsBijection(1..Cardinality(S), S)
  BY FS_CardinalityType
<1>2. PICK f \in Bijection(1..Cardinality(S), S) : TRUE
  BY <1>1 DEF ExistsBijection
<1>3. f \in [1..Cardinality(S) -> S] /\ IsInjective(f)
  BY <1>2 DEF Bijection, Injection, Surjection, IsInjective
<1>4. SetToSeq(S) \in [1..Cardinality(S) -> S]
  BY <1>3 DEF SetToSeq
<1>5. QED
  BY <1>1, <1>4, SeqDef

LEMMA RemoveAtType ==
    ASSUME NEW S, NEW s \in Seq(S), NEW i \in DOMAIN s
    PROVE  RemoveAt(s, i) \in Seq(S)
<1>1. SubSeq(s, 1, i - 1) \in Seq(S) /\ SubSeq(s, i + 1, Len(s)) \in Seq(S)
  BY SubSeqProperties
<1>2. QED
  BY <1>1, ConcatProperties DEF RemoveAt

\* Listeners are among the askers, the notifier is none of them.
LEMMA AskersFacts ==
    /\ Listeners \subseteq Askers /\ Notifier \in Askers /\ Notifier \notin Listeners
    /\ None \in Contents /\ Md5s \subseteq Contents
  BY ConfigAssumption DEF Askers, Contents

\* The md5s a CacheData keeps for its listeners.
LastMd5s == UNION {[D -> Contents] : D \in SUBSET Listeners}

LEMMA LastMd5sType ==
    ASSUME NEW D \in SUBSET Listeners, NEW f \in [D -> Contents]
    PROVE  f \in LastMd5s
  BY DEF LastMd5s

LEMMA EntriesType ==
    ASSUME NEW e \in Entries
    PROVE  /\ e.md5 \in Contents /\ e.there \in BOOLEAN /\ e.filters \in BOOLEAN
           /\ DOMAIN e.last \in SUBSET Listeners
           /\ e.last \in [DOMAIN e.last -> Contents]
           /\ \A f \in LastMd5s : [e EXCEPT !.last = f] \in Entries
           /\ \A m \in Contents : [e EXCEPT !.md5 = m, !.initializing = FALSE] \in Entries
  BY DEF Entries, LastMd5s

LEMMA NoListenerYet == << >> \in LastMd5s
<1>1. << >> \in Seq(Contents) /\ Len(<< >>) = 0
  OBVIOUS
<1>2. << >> \in [1..0 -> Contents] /\ 1..0 = {}
  BY <1>1, LenProperties
<1>3. QED
  BY <1>2 DEF LastMd5s

LEMMA NewEntries ==
    /\ NoEntry \in Entries
    /\ \A m \in Md5s : LoadedEntry(m) \in Entries
    /\ \A m \in Contents, b \in BOOLEAN :
          [md5 |-> m, initializing |-> b, filters |-> TRUE, last |-> << >>, there |-> TRUE]
             \in Entries
<1>1. NoEntry \in Entries
  BY NoListenerYet, AskersFacts DEF NoEntry, Entries, LastMd5s
<1>2. ASSUME NEW m \in Md5s PROVE LoadedEntry(m) \in Entries
  BY NoListenerYet, AskersFacts DEF LoadedEntry, Entries, LastMd5s
<1>3. ASSUME NEW m \in Contents, NEW b \in BOOLEAN
      PROVE  [md5 |-> m, initializing |-> b, filters |-> TRUE, last |-> << >>, there |-> TRUE]
                \in Entries
  BY NoListenerYet DEF Entries, LastMd5s
<1>4. QED
  BY <1>1, <1>2, <1>3

LEMMA QueriesType ==
    /\ NoQuery \in Queries /\ Asked \in Queries
    /\ \A m \in Contents : /\ [st |-> "ok", md5 |-> m] \in Queries
                          /\ [st |-> "failed", md5 |-> m] \in Queries
    /\ \A q \in Queries : q.md5 \in Contents
  BY AskersFacts DEF NoQuery, Asked, Queries

LEMMA RoundsType ==
    /\ \A m \in Contents : /\ [st |-> "sleeping", md5 |-> m] \in Rounds
                          /\ [st |-> "asked", md5 |-> m] \in Rounds
    /\ \A r \in Rounds : /\ r.md5 \in Contents
                         /\ [r EXCEPT !.st = "done"] \in Rounds
                         /\ [r EXCEPT !.st = "changed"] \in Rounds
  BY DEF Rounds

LEMMA NotifiersType ==
    /\ NoResponse \in Responses
    /\ \A r \in Responses : /\ r.md5 \in Contents
                            /\ [st |-> "idle", resp |-> r] \in Notifiers
                            /\ [st |-> "filtering", resp |-> r] \in Notifiers
    /\ \A n \in Notifiers : /\ n.resp \in Responses
                            /\ [n EXCEPT !.st = "idle"] \in Notifiers
                            /\ [n EXCEPT !.st = "querying"] \in Notifiers
                            /\ [n EXCEPT !.st = "filled"] \in Notifiers
  BY AskersFacts DEF NoResponse, Responses, Notifiers

LEMMA NotificationsType ==
    ASSUME ConfigTypeOK, NEW r \in Responses
    PROVE  Notifications(r) \in Seq(Notes)
<1>1. Due \subseteq Listeners
  BY EntriesType DEF ConfigTypeOK, Due
<1>2. IsFiniteSet(Due)
  BY <1>1, ConfigAssumption, FS_Subset
<1>3. SetToSeq(Due) \in Seq(Due)
  BY <1>2, SetToSeqType
<1>4. /\ Len(SetToSeq(Due)) \in Nat /\ DOMAIN SetToSeq(Due) = 1..Len(SetToSeq(Due))
      /\ \A i \in DOMAIN SetToSeq(Due) : SetToSeq(Due)[i] \in Listeners
  BY <1>1, <1>3
<1>5. Notifications(r) \in [1..Len(SetToSeq(Due)) -> Notes]
  BY <1>4 DEF Notifications, Notes
<1>6. QED
  BY <1>4, <1>5, SeqDef

-----------------------------------------------------------------------------
(* Types.                                                                  *)

LEMMA TypeInit == Init => ConfigTypeOK
<1> SUFFICES ASSUME Init PROVE ConfigTypeOK
  OBVIOUS
<1>1. content \in Contents /\ entry \in Entries
  BY AskersFacts, NewEntries DEF Init
<1>2. query \in [Askers -> Queries] /\ list \in Rounds /\ notifier \in Notifiers
  BY AskersFacts, QueriesType, RoundsType, NotifiersType DEF Init
<1>3. /\ adder \in [Listeners -> {"out", "querying", "attaching", "in"}]
      /\ sent \in [Listeners -> Contents] /\ seen \in [Listeners -> Contents]
      /\ spawned \in Seq(Notes)
  BY AskersFacts DEF Init
<1>4. /\ changes \in 0..MaxChanges /\ pushes \in 0..changes /\ losses \in 0..MaxLosses
      /\ chan \in 0..Cap /\ watching \in BOOLEAN /\ listens \in SUBSET Contents
  <2>1. 0 \in 0..MaxChanges /\ 0 \in 0..MaxLosses /\ 0 \in 0..Cap /\ 0 \in 0..0
    BY ConfigAssumption
  <2>2. QED
    BY <2>1 DEF Init
<1>5. QED
  BY <1>1, <1>2, <1>3, <1>4 DEF ConfigTypeOK

\* The server and the network touch nothing of the client but its requests.
LEMMA ServerTypes ==
    ASSUME ConfigTypeOK,
           (\E m \in Md5s : Publish(m)) \/ RemoveConfig \/ ConnectionLost \/ Server
    PROVE  ConfigTypeOK'
<1> USE DEF ConfigTypeOK, serverVars, taskVars, callVars, appVars
<1>1. ASSUME NEW m \in Contents, Change(m) PROVE ConfigTypeOK'
  BY <1>1, ConfigAssumption DEF Change
<1>2. CASE ConnectionLost
  <2>1. losses' \in 0..MaxLosses /\ pushes' = 0 /\ listens' = {} /\ watching' = FALSE
    BY <1>2, ConfigAssumption DEF ConnectionLost
  <2>2. query' \in [Askers -> Queries]
    BY <1>2, QueriesType, AskersFacts DEF ConnectionLost
  <2>3. list' \in Rounds
    BY <1>2, RoundsType DEF ConnectionLost
  <2>4. 0 \in 0..changes
    OBVIOUS
  <2>5. QED
    BY <1>2, <2>1, <2>2, <2>3, <2>4 DEF ConnectionLost
<1>3. ASSUME NEW f \in Askers, AnswerQuery(f) PROVE ConfigTypeOK'
  <2>1. query' \in [Askers -> Queries]
    BY <1>3, QueriesType DEF AnswerQuery
  <2>2. QED
    BY <1>3, <2>1 DEF AnswerQuery
<1>4. ASSUME NEW m \in Contents, AnswerListen(m) PROVE ConfigTypeOK'
  BY <1>4 DEF AnswerListen
<1>5. CASE AnswerList
  <2>1. list' \in Rounds
    BY <1>5, RoundsType DEF AnswerList
  <2>2. QED
    BY <1>5, <2>1 DEF AnswerList
<1>6. QED
  BY <1>1, <1>2, <1>3, <1>4, <1>5, AskersFacts DEF Server, Publish, RemoveConfig

LEMMA CallTypes ==
    ASSUME ConfigTypeOK, NEW l \in Listeners,
           AddListener(l) \/ InsertEntry(l) \/ Attach(l) \/ RemoveListener(l)
    PROVE  ConfigTypeOK'
<1> USE DEF ConfigTypeOK, serverVars, taskVars, callVars, appVars
<1>1. CASE AddListener(l)
  <2>1. query' \in [Askers -> Queries]
    BY <1>1, AskersFacts, QueriesType DEF AddListener
  <2>2. adder' \in [Listeners -> {"out", "querying", "attaching", "in"}]
    BY <1>1 DEF AddListener
  <2>3. QED
    BY <1>1, <2>1, <2>2 DEF AddListener
<1>2. CASE InsertEntry(l)
  <2>1. query[l].md5 \in Contents
    BY AskersFacts, QueriesType
  <2>2. entry' \in Entries /\ listens' \in SUBSET Contents
    BY <1>2, <2>1, NewEntries, AskersFacts DEF InsertEntry
  <2>3. query' \in [Askers -> Queries]
    BY <1>2, AskersFacts, QueriesType DEF InsertEntry
  <2>4. QED
    BY <1>2, <2>2, <2>3 DEF InsertEntry
<1>3. CASE Attach(l)
  <2> DEFINE D == DOMAIN entry.last \cup {l}
             last == [j \in D |-> IF j = l THEN None ELSE entry.last[j]]
  <2>1. D \in SUBSET Listeners /\ last \in [D -> Contents]
    BY EntriesType, AskersFacts
  <2>2. last \in LastMd5s
    BY <2>1, LastMd5sType
  <2>3. entry' = [entry EXCEPT !.last = last]
    BY <1>3 DEF Attach
  <2>4. entry' \in Entries /\ entry.md5 \in Contents
    BY <2>2, <2>3, EntriesType
  <2>5. QED
    BY <1>3, <2>4, AskersFacts DEF Attach
<1>4. CASE RemoveListener(l)
  <2> DEFINE D == DOMAIN entry.last \ {l}
             last == [j \in D |-> entry.last[j]]
  <2>1. D \in SUBSET Listeners /\ last \in [D -> Contents]
    BY EntriesType
  <2>2. last \in LastMd5s
    BY <2>1, LastMd5sType
  <2>3. entry' = [entry EXCEPT !.last = last]
    BY <1>4 DEF RemoveListener
  <2>4. entry' \in Entries
    BY <2>2, <2>3, EntriesType
  <2>5. QED
    BY <1>4, <2>4 DEF RemoveListener
<1>5. QED
  BY <1>1, <1>2, <1>3, <1>4

LEMMA LoopTypes ==
    ASSUME ConfigTypeOK, ListLoop \/ HandlePush
    PROVE  ConfigTypeOK'
<1> USE DEF ConfigTypeOK, serverVars, taskVars, callVars, appVars
<1>1. CASE ListLoop
  <2>1. list' \in Rounds
    BY <1>1, RoundsType, EntriesType, AskersFacts DEF ListLoop, ListStart, ListNotify, ListSleeps
  <2>2. chan' \in 0..Cap
    BY <1>1, ConfigAssumption DEF ListLoop, ListStart, ListNotify, ListSleeps
  <2>3. QED
    BY <1>1, <2>1, <2>2 DEF ListLoop, ListStart, ListNotify, ListSleeps
<1>2. CASE HandlePush
  BY <1>2, ConfigAssumption DEF HandlePush
<1>3. QED
  BY <1>1, <1>2

LEMMA NotifierTypes ==
    ASSUME ConfigTypeOK, NotifierTask \/ Notifying
    PROVE  ConfigTypeOK'
<1> USE DEF ConfigTypeOK, serverVars, taskVars, callVars, appVars
<1>1. CASE ReceiveChange \/ QueryFailed
  <2>1. query' \in [Askers -> Queries] /\ notifier' \in Notifiers
    BY <1>1, AskersFacts, QueriesType, NotifiersType DEF ReceiveChange, QueryFailed
  <2>2. chan' \in 0..Cap
    BY <1>1, ConfigAssumption DEF ReceiveChange, QueryFailed
  <2>3. QED
    BY <1>1, <2>1, <2>2 DEF ReceiveChange, QueryFailed
<1>2. CASE Fill
  <2>1. query' \in [Askers -> Queries] /\ query[Notifier].md5 \in Contents
    BY <1>2, AskersFacts, QueriesType DEF Fill, Filling
  <2>2. entry' \in Entries
    BY <1>2, <2>1, EntriesType DEF Fill
  <2>3. notifier' \in Notifiers
    BY <1>2, NotifiersType DEF Fill
  <2>4. QED
    BY <1>2, <2>1, <2>2, <2>3 DEF Fill, Filling
<1>3. CASE Snapshot
  <2>1. [md5 |-> entry.md5, filtered |-> entry.filters] \in Responses
    BY EntriesType DEF Responses
  <2>2. notifier' \in Notifiers
    BY <1>3, <2>1, NotifiersType DEF Snapshot
  <2>3. QED
    BY <1>3, <2>2 DEF Snapshot
<1>4. CASE Dispatch
  <2> DEFINE last == [l \in DOMAIN entry.last |-> entry.md5]
  <2>1. last \in LastMd5s
    BY LastMd5sType, EntriesType
  <2>2. entry' = [entry EXCEPT !.last = last]
    BY <1>4 DEF Dispatch
  <2>3. entry' \in Entries
    BY <2>1, <2>2, EntriesType
  <2>4. notifier.resp \in Responses /\ notifier.resp.md5 \in Contents
    BY NotifiersType
  <2>5. Notifications(notifier.resp) \in Seq(Notes)
    BY <2>4, NotificationsType
  <2>6. spawned' \in Seq(Notes)
    BY <1>4, <2>5, ConcatProperties DEF Dispatch
  <2>7. sent' \in [Listeners -> Contents]
    BY <1>4, <2>4 DEF Dispatch
  <2>8. notifier' \in Notifiers
    BY <1>4, NotifiersType DEF Dispatch
  <2>9. QED
    BY <1>4, <2>3, <2>6, <2>7, <2>8 DEF Dispatch
<1>5. ASSUME NEW i \in DOMAIN spawned, Notify(i) PROVE ConfigTypeOK'
  <2>1. spawned' \in Seq(Notes)
    BY <1>5, RemoveAtType DEF Notify
  <2>2. spawned[i] \in Notes
    BY <1>5, ElementOfSeq
  <2>3. spawned[i].to \in Listeners /\ spawned[i].resp.md5 \in Contents
    BY <2>2, NotifiersType DEF Notes
  <2>4. seen' \in [Listeners -> Contents]
    BY <1>5, <2>3 DEF Notify
  <2>5. QED
    BY <1>5, <2>1, <2>4 DEF Notify
<1>6. QED
  BY <1>1, <1>2, <1>3, <1>4, <1>5 DEF NotifierTask, Notifying

LEMMA TypeStep == ConfigTypeOK /\ [Next]_vars => ConfigTypeOK'
<1> SUFFICES ASSUME ConfigTypeOK, [Next]_vars PROVE ConfigTypeOK'
  OBVIOUS
<1>1. CASE UNCHANGED vars
  BY <1>1 DEF vars, serverVars, taskVars, callVars, appVars, ConfigTypeOK
<1>2. QED
  BY <1>1, ServerTypes, CallTypes, LoopTypes, NotifierTypes DEF Next

\* The channel never holds more than its bound and there are never more pushes
\* under way than changes; requests, the two tasks and the notifications stay in
\* their states.
THEOREM ConfigTypeCorrect == Spec => []ConfigTypeOK
  BY TypeInit, TypeStep, PTL DEF Spec

-----------------------------------------------------------------------------
(* Calls of add_listener one after the other.                              *)

\* At most one call is between its check for an entry and its end; while the
\* config is queried there is no entry, and without an entry nobody is in it.
OneAdder == \A j, k \in Listeners : Adding(j) /\ Adding(k) => j = k
EntryFirst ==
    /\ \A l \in Listeners : adder[l] = "querying" => ~entry.there
    /\ ~entry.there => \A l \in Listeners : adder[l] \in {"out", "querying"}
AddedOnes == NoListenerLost

AdderInv == OneAdder /\ EntryFirst /\ AddedOnes

\* The notifier works on an entry that is there; from its snapshot to the
\* dispatch nothing changes the md5.
NotifierInv ==
    /\ notifier.st # "idle" => entry.there
    /\ notifier.st = "filtering" => notifier.resp.md5 = entry.md5

ListenInv == ConfigTypeOK /\ AdderInv /\ NotifierInv /\ ToldIsSent

listenVars == <<adder, entry, notifier, sent>>

LEMMA ListenInit == Init => ListenInv
<1> SUFFICES ASSUME Init PROVE ListenInv
  OBVIOUS
<1>1. AdderInv
  BY DEF Init, AdderInv, OneAdder, EntryFirst, AddedOnes, NoListenerLost, Adding
<1>2. DOMAIN entry.last = {}
  BY DEF Init, NoEntry, LoadedEntry
<1>3. ToldIsSent /\ NotifierInv
  BY <1>2 DEF Init, ToldIsSent, NotifierInv
<1>4. QED
  BY <1>1, <1>3, TypeInit DEF ListenInv

LEMMA ListenUnchanged ==
    ASSUME ListenInv, ConfigTypeOK', UNCHANGED listenVars
    PROVE  ListenInv'
  BY DEF ListenInv, AdderInv, OneAdder, EntryFirst, AddedOnes, NoListenerLost, Adding,
         NotifierInv, ToldIsSent, listenVars

LEMMA CallsInSequence ==
    ASSUME ~Overlapping, ListenInv, ConfigTypeOK', NEW l \in Listeners,
           AddListener(l) \/ InsertEntry(l) \/ Attach(l) \/ RemoveListener(l)
    PROVE  ListenInv'
<1> USE DEF ListenInv, AdderInv
<1>a. adder \in [Listeners -> {"out", "querying", "attaching", "in"}] /\ entry \in Entries
      /\ sent \in [Listeners -> Contents]
  BY DEF ConfigTypeOK
<1>1. CASE AddListener(l)
  <2>1. /\ \A j \in Listeners : ~Adding(j)
        /\ UNCHANGED <<entry, notifier, sent>>
        /\ adder' = [adder EXCEPT ![l] = IF entry.there THEN "attaching" ELSE "querying"]
    BY <1>1 DEF AddListener, taskVars, appVars
  <2>2. AdderInv'
    BY <1>a, <2>1 DEF OneAdder, EntryFirst, AddedOnes, NoListenerLost, Adding
  <2>3. QED
    BY <2>1, <2>2 DEF NotifierInv, ToldIsSent
<1>2. CASE InsertEntry(l)
  <2>1. /\ adder[l] = "querying" /\ adder' = [adder EXCEPT ![l] = "attaching"]
        /\ entry'.there /\ entry'.last = << >> /\ UNCHANGED <<notifier, sent>>
    BY <1>2 DEF InsertEntry, appVars
  <2>2. ~entry.there /\ \A j \in Listeners : adder[j] \in {"out", "querying"}
    BY <2>1 DEF EntryFirst
  <2>3. \A j \in Listeners \ {l} : adder[j] = "out"
    BY <1>a, <2>1, <2>2 DEF OneAdder, Adding
  <2>4. AdderInv'
    BY <1>a, <2>1, <2>3 DEF OneAdder, EntryFirst, AddedOnes, NoListenerLost, Adding
  <2>5. notifier.st = "idle"
    BY <2>2 DEF NotifierInv
  <2>6. QED
    BY <2>1, <2>4, <2>5 DEF NotifierInv, ToldIsSent
<1>3. CASE Attach(l)
  <2>1. /\ adder[l] = "attaching" /\ adder' = [adder EXCEPT ![l] = "in"]
        /\ DOMAIN entry'.last = DOMAIN entry.last \cup {l}
        /\ \A j \in DOMAIN entry'.last :
              entry'.last[j] = IF j = l THEN None ELSE entry.last[j]
        /\ entry'.there = entry.there /\ entry'.md5 = entry.md5
        /\ sent' = [sent EXCEPT ![l] = None] /\ UNCHANGED notifier
    BY <1>3, <1>a DEF Attach, Entries, taskVars
  <2>2. entry.there
    BY <2>1 DEF EntryFirst
  <2>3. AdderInv'
    BY <1>a, <2>1, <2>2 DEF OneAdder, EntryFirst, AddedOnes, NoListenerLost, Adding
  <2>4. ToldIsSent'
    BY <1>a, <2>1, EntriesType DEF ToldIsSent
  <2>5. QED
    BY <2>1, <2>3, <2>4 DEF NotifierInv
<1>4. CASE RemoveListener(l)
  <2>1. /\ adder[l] = "in" /\ adder' = [adder EXCEPT ![l] = "out"]
        /\ DOMAIN entry'.last = DOMAIN entry.last \ {l}
        /\ \A j \in DOMAIN entry'.last : entry'.last[j] = entry.last[j]
        /\ entry'.there = entry.there /\ entry'.md5 = entry.md5
        /\ UNCHANGED <<sent, notifier>>
    BY <1>4, <1>a DEF RemoveListener, Entries, taskVars, appVars
  <2>2. AdderInv'
    BY <1>a, <2>1 DEF OneAdder, EntryFirst, AddedOnes, NoListenerLost, Adding
  <2>3. ToldIsSent'
    BY <2>1 DEF ToldIsSent
  <2>4. QED
    BY <2>1, <2>2, <2>3 DEF NotifierInv
<1>5. QED
  BY <1>1, <1>2, <1>3, <1>4

\* The notifier changes the entry, and it never looks at the adders.
LEMMA NotifierSteps ==
    ASSUME ListenInv, ConfigTypeOK', NotifierTask \/ Notifying
    PROVE  ListenInv'
<1> USE DEF ListenInv, AdderInv
<1>a. entry \in Entries /\ notifier \in Notifiers /\ sent \in [Listeners -> Contents]
  BY DEF ConfigTypeOK
<1>1. CASE ReceiveChange \/ QueryFailed
  <2>1. /\ UNCHANGED <<adder, entry, sent>>
        /\ notifier'.st \in {"idle", "querying"} /\ (notifier'.st = "querying" => entry.there)
    BY <1>1, <1>a DEF ReceiveChange, QueryFailed, appVars, Notifiers
  <2>2. QED
    BY <2>1 DEF OneAdder, EntryFirst, AddedOnes, NoListenerLost, Adding, NotifierInv,
                ToldIsSent
<1>2. CASE Fill
  <2>1. /\ UNCHANGED <<adder, sent>> /\ entry.there
        /\ entry'.last = entry.last /\ entry'.there = entry.there
        /\ notifier'.st \in {"idle", "filled"}
    BY <1>2, <1>a DEF Fill, Filling, appVars, Notifiers, Entries, NotifierInv
  <2>2. QED
    BY <2>1 DEF OneAdder, EntryFirst, AddedOnes, NoListenerLost, Adding, NotifierInv,
                ToldIsSent
<1>3. CASE Snapshot
  <2>1. UNCHANGED <<adder, sent, entry>> /\ notifier'.resp.md5 = entry.md5 /\ entry.there
    BY <1>3 DEF Snapshot, callVars, appVars, NotifierInv
  <2>2. QED
    BY <2>1 DEF OneAdder, EntryFirst, AddedOnes, NoListenerLost, Adding, NotifierInv,
                ToldIsSent
<1>4. CASE Dispatch
  <2>1. /\ UNCHANGED adder /\ notifier'.st = "idle"
        /\ entry'.there = entry.there /\ DOMAIN entry'.last = DOMAIN entry.last
        /\ \A j \in DOMAIN entry.last : entry'.last[j] = entry.md5
        /\ \A j \in Listeners : sent'[j] = IF j \in Due THEN notifier.resp.md5 ELSE sent[j]
        /\ notifier.resp.md5 = entry.md5
    BY <1>4, <1>a DEF Dispatch, callVars, Entries, NotifierInv
  <2>2. AdderInv'
    BY <2>1 DEF OneAdder, EntryFirst, AddedOnes, NoListenerLost, Adding
  <2>3. ToldIsSent'
    BY <1>a, <2>1, EntriesType DEF ToldIsSent, Due
  <2>4. QED
    BY <2>1, <2>2, <2>3 DEF NotifierInv
<1>5. CASE Notifying
  <2>1. UNCHANGED listenVars
    BY <1>5 DEF Notifying, Notify, callVars, listenVars
  <2>2. QED
    BY <2>1, ListenUnchanged
<1>6. QED
  BY <1>1, <1>2, <1>3, <1>4, <1>5 DEF NotifierTask

LEMMA ListenStep ==
    ASSUME ~Overlapping
    PROVE  ListenInv /\ [Next]_vars => ListenInv'
<1> SUFFICES ASSUME ListenInv, [Next]_vars PROVE ListenInv'
  OBVIOUS
<1>1. ConfigTypeOK'
  BY TypeStep DEF ListenInv
<1>2. CASE \/ \E m \in Md5s : Publish(m)
           \/ RemoveConfig \/ ConnectionLost \/ Server \/ ListLoop \/ HandlePush
           \/ UNCHANGED vars
  <2>1. UNCHANGED listenVars
    BY <1>2 DEF Publish, Change, RemoveConfig, ConnectionLost, Server, AnswerQuery,
                AnswerListen, AnswerList, ListLoop, ListStart, ListNotify, ListSleeps,
                HandlePush, vars, serverVars, taskVars, callVars, appVars, listenVars
  <2>2. QED
    BY <1>1, <2>1, ListenUnchanged
<1>3. QED
  BY <1>1, <1>2, CallsInSequence, NotifierSteps DEF Next

\* As long as calls of add_listener do not overlap, a listener that was added stays
\* in the cache entry until it is removed, although the entry is replaced by an
\* insert and filled by the notifier.
THEOREM NoListenerLostTheorem ==
    ASSUME ~Overlapping
    PROVE  Spec => []NoListenerLost
<1>1. ListenInv => NoListenerLost
  BY DEF ListenInv, AdderInv, AddedOnes
<1>2. QED
  BY <1>1, ListenInit, ListenStep, PTL DEF Spec

\* Under the same condition dispatch_notify marks a listener with the md5 of the
\* response it has spawned for it: the entry does not change between resp_snapshot
\* and dispatch_notify, although no guard is held.
THEOREM ToldIsSentTheorem ==
    ASSUME ~Overlapping
    PROVE  Spec => []ToldIsSent
<1>1. ListenInv => ToldIsSent
  BY DEF ListenInv
<1>2. QED
  BY <1>1, ListenInit, ListenStep, PTL DEF Spec
=============================================================================
