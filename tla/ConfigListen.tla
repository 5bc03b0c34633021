---------------------------- MODULE ConfigListen ----------------------------
(***************************************************************************)
(* Listening to one configuration (src/config/worker.rs, cache.rs,         *)
(* handler.rs): add_listener and remove_listener, called by the            *)
(* application, the two tasks the worker spawns (the list that runs every  *)
(* minute and the one that turns a change into notifications), the handler *)
(* of the server's pushes, and the server as the code relies on it.        *)
(*                                                                         *)
(* A content is told apart by its md5 only.  Publishing the same content   *)
(* again is a change like any other.                                       *)
(***************************************************************************)
EXTENDS Naturals, Sequences, SequencesExt

CONSTANTS
    Listeners,   \* the listeners of the application
    Md5s,        \* contents
    Cap,         \* capacity of the notify_change channel
    MaxChanges,  \* bound: publications and removals
    MaxLosses,   \* bound: connections lost
    \* What the environment may do.
    Loaded,      \* the cache entry was loaded from disk at the start
    Missing,     \* the config may not exist, and add_listener's query may fail
    Overlapping, \* calls of add_listener may overlap
    Unordered    \* spawned notifications may be late

None == "none"
Notifier == "notifier"

ASSUME ConfigAssumption ==
    /\ IsFiniteSet(Listeners) /\ Notifier \notin Listeners
    /\ None \notin Md5s /\ Cap \in Nat \ {0}
    /\ MaxChanges \in Nat /\ MaxLosses \in Nat
    /\ {Loaded, Missing, Overlapping, Unordered} \subseteq BOOLEAN

VARIABLES
    \* the server
    content,   \* the md5 of the config, or None
    changes,   \* publications and removals so far
    watching,  \* the server pushes to the connection
    pushes,    \* change notifications on their way to the client
    losses,    \* connections lost so far
    \* the client
    entry,     \* the CacheData of the config, or NoEntry
    chan,      \* the number of keys in the notify_change channel
    adder,     \* each listener's add_listener call
    query,     \* the ConfigQueryRequest of each adder and of the notifier
    listens,   \* listen requests spawned by add_listener
    list,      \* list_ensure_cache_data_newest
    notifier,  \* notify_change_to_cache_data
    spawned,   \* notifications spawned and not yet run
    \* what the application knows
    sent,      \* the md5 of the response last spawned for each listener
    seen       \* the content each listener knows of

serverVars == <<content, changes, watching, pushes, losses>>
taskVars == <<chan, listens, list, notifier, spawned>>
callVars == <<adder, query>>
appVars == <<sent, seen>>
vars == <<serverVars, entry, taskVars, callVars, appVars>>

Askers == Listeners \cup {Notifier}
Contents == Md5s \cup {None}
NoEntry == [md5 |-> None, initializing |-> TRUE, filters |-> FALSE,
            last |-> << >>, there |-> FALSE]
Responses == [md5 : Contents, filtered : BOOLEAN]
Entries == [md5 : Contents, initializing : BOOLEAN, filters : BOOLEAN,
            last : UNION {[D -> Contents] : D \in SUBSET Listeners}, there : BOOLEAN]
Queries == [st : {"none", "asked", "ok", "failed"}, md5 : Contents]
Rounds == [st : {"sleeping", "asked", "changed", "done"}, md5 : Contents]
Notifiers == [st : {"idle", "querying", "filled", "filtering"}, resp : Responses]
Notes == [to : Listeners, resp : Responses]

ConfigTypeOK ==
    /\ content \in Contents /\ changes \in 0..MaxChanges
    /\ watching \in BOOLEAN /\ pushes \in 0..changes
    /\ losses \in 0..MaxLosses
    /\ entry \in Entries
    /\ chan \in 0..Cap
    /\ adder \in [Listeners -> {"out", "querying", "attaching", "in"}]
    /\ query \in [Askers -> Queries]
    /\ listens \in SUBSET Contents
    /\ list \in Rounds /\ notifier \in Notifiers
    /\ spawned \in Seq(Notes)
    /\ sent \in [Listeners -> Contents] /\ seen \in [Listeners -> Contents]

NoQuery == [st |-> "none", md5 |-> None]
Asked == [st |-> "asked", md5 |-> None]
NoResponse == [md5 |-> None, filtered |-> TRUE]

\* What serde leaves out of the file comes back as its Default: no filters, no
\* listeners, and initializing is false.
LoadedEntry(m) == [md5 |-> m, initializing |-> FALSE, filters |-> FALSE,
                   last |-> << >>, there |-> TRUE]

Init ==
    /\ content \in IF Missing THEN Contents ELSE Md5s
    /\ changes = 0 /\ watching = FALSE /\ pushes = 0 /\ losses = 0
    /\ IF Loaded THEN \E m \in Md5s : entry = LoadedEntry(m) ELSE entry = NoEntry
    /\ chan = 0
    /\ adder = [l \in Listeners |-> "out"]
    /\ query = [f \in Askers |-> NoQuery]
    /\ listens = {} /\ list = [st |-> "sleeping", md5 |-> None]
    /\ notifier = [st |-> "idle", resp |-> NoResponse]
    /\ spawned = << >>
    /\ sent = [l \in Listeners |-> None] /\ seen = [l \in Listeners |-> None]

-----------------------------------------------------------------------------
(* The server and the network.                                             *)

Change(m) ==
    /\ changes < MaxChanges /\ m # content
    /\ content' = m /\ changes' = changes + 1
    /\ pushes' = IF watching THEN pushes + 1 ELSE pushes
    /\ UNCHANGED <<watching, losses, entry, taskVars, callVars, appVars>>

Publish(m) == m \in Md5s /\ Change(m)

RemoveConfig == Missing /\ Change(None)

AnswerQuery(f) ==
    /\ query[f].st = "asked"
    /\ query' = [query EXCEPT ![f] =
                    [st |-> IF content = None THEN "failed" ELSE "ok",
                     md5 |-> content]]
    /\ UNCHANGED <<serverVars, entry, taskVars, adder, appVars>>

\* A ConfigBatchListenRequest registers the connection for pushes and answers
\* whether the md5 is out of date.
AnswerListen(m) ==
    /\ m \in listens
    /\ listens' = listens \ {m} /\ watching' = TRUE
    /\ UNCHANGED <<content, changes, pushes, losses, entry, chan, list, notifier,
                   spawned, callVars, appVars>>

AnswerList ==
    /\ list.st = "asked"
    /\ watching' = TRUE
    /\ list' = [list EXCEPT !.st = IF list.md5 = content THEN "done"
                                   ELSE "changed"]
    /\ UNCHANGED <<content, changes, pushes, losses, entry, chan, listens,
                   notifier, spawned, callVars, appVars>>

\* The connection is lost: the server forgets it, pushes under way are lost,
\* requests fail, and of the answers some may have come in time.
ConnectionLost ==
    /\ losses < MaxLosses /\ losses' = losses + 1
    /\ Missing \/ \A l \in Listeners : adder[l] # "querying"
    /\ watching' = FALSE /\ pushes' = 0 /\ listens' = {}
    /\ \E lost \in SUBSET {f \in Askers : query[f].st = "ok"} :
          query' = [f \in Askers |->
                      IF query[f].st = "asked" \/ f \in lost
                      THEN [st |-> "failed", md5 |-> None] ELSE query[f]]
    /\ \/ list' = [list EXCEPT !.st = "done"] /\ list.st \in {"asked", "changed"}
       \/ UNCHANGED list /\ list.st # "asked"
    /\ UNCHANGED <<content, changes, entry, chan, notifier, spawned, adder,
                   appVars>>

-----------------------------------------------------------------------------
(* add_listener and remove_listener.                                       *)

Adding(l) == adder[l] \in {"querying", "attaching"}

\* A variant of AddListener that does not look for an entry first.
AddListenerUnchecked(l) ==
    /\ adder[l] = "out"
    /\ Overlapping \/ \A j \in Listeners : ~Adding(j)
    /\ adder' = [adder EXCEPT ![l] = "querying"]
    /\ query' = [query EXCEPT ![l] = Asked]
    /\ UNCHANGED <<serverVars, entry, taskVars, appVars>>

\* contains_key: without an entry the config is queried first.
AddListener(l) ==
    /\ adder[l] = "out"
    /\ Overlapping \/ \A j \in Listeners : ~Adding(j)
    /\ IF entry.there
       THEN adder' = [adder EXCEPT ![l] = "attaching"] /\ UNCHANGED query
       ELSE /\ adder' = [adder EXCEPT ![l] = "querying"]
            /\ query' = [query EXCEPT ![l] = Asked]
    /\ UNCHANGED <<serverVars, entry, taskVars, appVars>>

\* The query is answered: the entry, filled if there was a content, replaces
\* whatever entry there is, and a listen request is spawned.
InsertEntry(l) ==
    /\ adder[l] = "querying" /\ query[l].st \in {"ok", "failed"}
    /\ LET m == IF query[l].st = "ok" THEN query[l].md5 ELSE None
       IN /\ entry' = [md5 |-> m, initializing |-> query[l].st # "ok",
                       filters |-> TRUE, last |-> << >>, there |-> TRUE]
          /\ listens' = listens \cup {m}
    /\ adder' = [adder EXCEPT ![l] = "attaching"]
    /\ query' = [query EXCEPT ![l] = NoQuery]
    /\ UNCHANGED <<serverVars, chan, list, notifier, spawned, appVars>>

\* CacheData::add_listener under the map's guard; last_md5 starts empty.
Attach(l) ==
    /\ adder[l] = "attaching"
    /\ adder' = [adder EXCEPT ![l] = "in"]
    /\ entry' = [entry EXCEPT !.last =
                   [j \in DOMAIN @ \cup {l} |-> IF j = l THEN None ELSE @[j]]]
    /\ sent' = [sent EXCEPT ![l] = None]
    /\ seen' = [seen EXCEPT ![l] = entry.md5]
    /\ UNCHANGED <<serverVars, taskVars, query>>

RemoveListener(l) ==
    /\ adder[l] = "in"
    /\ adder' = [adder EXCEPT ![l] = "out"]
    /\ entry' = [entry EXCEPT !.last =
                   [j \in DOMAIN @ \ {l} |-> @[j]]]
    /\ UNCHANGED <<serverVars, taskVars, query, appVars>>

-----------------------------------------------------------------------------
(* The list loop and the handler of pushes: both feed the channel.         *)

ListStart ==
    /\ list.st = "sleeping" /\ entry.there
    /\ list' = [st |-> "asked", md5 |-> entry.md5]
    /\ UNCHANGED <<serverVars, entry, chan, listens, notifier, spawned,
                   callVars, appVars>>

ListNotify ==
    /\ list.st = "changed" /\ chan < Cap
    /\ chan' = chan + 1 /\ list' = [list EXCEPT !.st = "done"]
    /\ UNCHANGED <<serverVars, entry, listens, notifier, spawned, callVars,
                   appVars>>

\* Sixty seconds later.
ListSleeps ==
    /\ list.st = "done"
    /\ list' = [st |-> "sleeping", md5 |-> None]
    /\ UNCHANGED <<serverVars, entry, chan, listens, notifier, spawned,
                   callVars, appVars>>

\* A variant of HandlePush that does not wait for room in the channel.
HandlePushAtOnce ==
    /\ pushes > 0
    /\ pushes' = pushes - 1 /\ chan' = chan + 1
    /\ UNCHANGED <<content, changes, watching, losses, entry, listens, list,
                   notifier, spawned, callVars, appVars>>

\* ConfigChangeNotifyHandler::request_reply; a full channel holds up the
\* bi-stream task.
HandlePush ==
    /\ pushes > 0 /\ chan < Cap
    /\ pushes' = pushes - 1 /\ chan' = chan + 1
    /\ UNCHANGED <<content, changes, watching, losses, entry, listens, list,
                   notifier, spawned, callVars, appVars>>

-----------------------------------------------------------------------------
(* notify_change_to_cache_data.  No map guard is held across an await, so   *)
(* that the entry may be replaced between its steps.                       *)

ReceiveChange ==
    /\ notifier.st = "idle" /\ chan > 0
    /\ chan' = chan - 1
    /\ IF entry.there
       THEN /\ notifier' = [notifier EXCEPT !.st = "querying"]
            /\ query' = [query EXCEPT ![Notifier] = Asked]
       ELSE UNCHANGED <<notifier, query>>
    /\ UNCHANGED <<serverVars, entry, listens, list, spawned, adder, appVars>>

QueryFailed ==
    /\ notifier.st = "querying" /\ query[Notifier].st = "failed"
    /\ notifier' = [notifier EXCEPT !.st = "idle"]
    /\ query' = [query EXCEPT ![Notifier] = NoQuery]
    /\ UNCHANGED <<serverVars, entry, chan, listens, list, spawned, adder,
                   appVars>>

Filling ==
    /\ notifier.st = "querying" /\ query[Notifier].st = "ok"
    /\ Unordered \/ spawned = << >>
    /\ query' = [query EXCEPT ![Notifier] = NoQuery]
    /\ UNCHANGED <<serverVars, chan, listens, list, spawned, adder, appVars>>

\* Variants of Fill: nothing is ever notified; an entry without its first
\* content is left alone.
FillSilently ==
    /\ Filling
    /\ entry' = [entry EXCEPT !.md5 = query[Notifier].md5,
                              !.initializing = FALSE]
    /\ notifier' = [notifier EXCEPT !.st = "idle"]

FillInitialized ==
    /\ Filling
    /\ IF entry.initializing THEN UNCHANGED entry
       ELSE entry' = [entry EXCEPT !.md5 = query[Notifier].md5]
    /\ notifier' = [notifier EXCEPT !.st = IF entry.initializing THEN "idle"
                                           ELSE "filled"]

\* fill_data under the map's guard.  The first content of an entry is not
\* notified.
Fill ==
    /\ Filling
    /\ entry' = [entry EXCEPT !.md5 = query[Notifier].md5,
                              !.initializing = FALSE]
    /\ notifier' = [notifier EXCEPT !.st = IF entry.initializing THEN "idle"
                                           ELSE "filled"]

\* resp_snapshot; then the filters are awaited.
Snapshot ==
    /\ notifier.st = "filled"
    /\ notifier' = [st |-> "filtering",
                    resp |-> [md5 |-> entry.md5, filtered |-> entry.filters]]
    /\ UNCHANGED <<serverVars, entry, chan, listens, list, spawned, callVars,
                   appVars>>

\* The listeners whose last_md5 is not the md5 of the entry now.
Due == {l \in DOMAIN entry.last : entry.last[l] # entry.md5}

Notifications(r) ==
    LET order == SetToSeq(Due) IN [i \in DOMAIN order |-> [to |-> order[i], resp |-> r]]

\* A variant of Dispatch that marks no listener as told.
DispatchUnmarked ==
    /\ notifier.st = "filtering"
    /\ spawned' = spawned \o Notifications(notifier.resp)
    /\ sent' = [l \in Listeners |-> IF l \in Due THEN notifier.resp.md5 ELSE sent[l]]
    /\ notifier' = [st |-> "idle", resp |-> NoResponse]
    /\ UNCHANGED <<serverVars, entry, chan, listens, list, callVars, seen>>

\* dispatch_notify: the response is the snapshot's, last_md5 the entry's.
Dispatch ==
    /\ notifier.st = "filtering"
    /\ spawned' = spawned \o Notifications(notifier.resp)
    /\ sent' = [l \in Listeners |-> IF l \in Due THEN notifier.resp.md5 ELSE sent[l]]
    /\ entry' = [entry EXCEPT !.last = [l \in DOMAIN @ |-> entry.md5]]
    /\ notifier' = [st |-> "idle", resp |-> NoResponse]
    /\ UNCHANGED <<serverVars, chan, listens, list, callVars, seen>>

\* A spawned task calls ConfigChangeListener::notify.
Notify(i) ==
    /\ i \in DOMAIN spawned
    /\ spawned' = RemoveAt(spawned, i)
    /\ seen' = [seen EXCEPT ![spawned[i].to] = spawned[i].resp.md5]
    /\ UNCHANGED <<serverVars, entry, chan, listens, list, notifier, callVars,
                   sent>>

-----------------------------------------------------------------------------
Server ==
    \/ \E f \in Askers : AnswerQuery(f)
    \/ \E m \in Contents : AnswerListen(m)
    \/ AnswerList

ListLoop == ListStart \/ ListNotify \/ ListSleeps

NotifierTask == ReceiveChange \/ QueryFailed \/ Fill \/ Snapshot \/ Dispatch

Notifying == \E i \in DOMAIN spawned : Notify(i)

Next ==
    \/ \E m \in Md5s : Publish(m)
    \/ RemoveConfig \/ ConnectionLost \/ Server
    \/ \E l \in Listeners :
          AddListener(l) \/ InsertEntry(l) \/ Attach(l) \/ RemoveListener(l)
    \/ ListLoop \/ HandlePush \/ NotifierTask \/ Notifying

Spec == Init /\ [][Next]_vars

\* Tasks run, the server answers and the minute passes.  Publications,
\* removals, losses and calls need not happen.
Fairness ==
    /\ \A f \in Askers : WF_vars(AnswerQuery(f))
    /\ \A m \in Contents : WF_vars(AnswerListen(m))
    /\ WF_vars(AnswerList)
    /\ \A l \in Listeners : WF_vars(InsertEntry(l) \/ Attach(l))
    /\ WF_vars(ListStart) /\ SF_vars(ListNotify) /\ WF_vars(ListSleeps)
    /\ SF_vars(HandlePush)
    /\ WF_vars(NotifierTask) /\ WF_vars(Notifying)

FairSpec == Spec /\ Fairness

-----------------------------------------------------------------------------
(* Properties.                                                             *)

\* What dispatch_notify records as told to a listener is what it sent: the
\* entry of the snapshot and the entry of the dispatch agree.
ToldIsSent ==
    \A l \in DOMAIN entry.last : entry.last[l] = sent[l]

\* A listener that has been added is in the cache entry.
NoListenerLost ==
    \A l \in Listeners : adder[l] = "in" => l \in DOMAIN entry.last

\* The list loop makes up for every lost push: the entry comes back to the
\* content of the server, however connections are lost and calls overlap.
CacheConverges ==
    []<>(entry.there /\ content # None => entry.md5 = content)

\* A listener comes to know the content there is: what it found when it was
\* added, or what it was notified of since.
ListenersConverge ==
    \A l \in Listeners : []<>(adder[l] = "in" /\ content # None => seen[l] = content)

\* (Not kept for an entry loaded from disk.)  What a listener is given has
\* been through the config filters.
DeliveredFiltered == \A i \in DOMAIN spawned : spawned[i].resp.filtered

\* (Not kept.)  The cache entry of a config that has been removed goes away.
RemovedIsForgotten == []<>(content = None => entry.md5 = None)
=============================================================================
