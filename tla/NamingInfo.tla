----------------------------- MODULE NamingInfo -----------------------------
(***************************************************************************)
(* What the client knows of one service: subscription and queries          *)
(* (src/naming/mod.rs), the updater that polls (src/naming/updater/), the  *)
(* push handler, and the emitter and observer between the cache and the    *)
(* listeners (src/naming/observable/).                                     *)
(*                                                                         *)
(* Version v of the service, with last_ref_time v, has the hosts Hosts[v]. *)
(* The redo task of a subscription is its promise (NamingRedo): as long as *)
(* it is in the map, a lost subscription is restored.                      *)
(***************************************************************************)
EXTENDS InstanceChooser

CONSTANTS
    Listeners,     \* the application's listeners
    Hosts,         \* the list of instances of each version, or NoHosts
    NoHosts,       \* a ServiceInfo without hosts
    Settings,      \* what the client may be set to: clusters are given,
                   \* push_empty_protection
    ChannelSize,   \* of the channel to the observer
    MaxFailed,     \* MAX_FAILED
    MaxUpdaters,   \* bound: update tasks made
    MaxFaults,     \* bound: queries and calls that fail, sessions that are lost
    \* What the environment may do.
    PromptListeners\* a spawned event has run before the next is received and
                   \* before a call to unsubscribe returns

Versions == DOMAIN Hosts
None == 0
Never == Len(Hosts) + 1   \* u64::MAX
Updaters == 1..MaxUpdaters

ASSUME NamingAssumption ==
    /\ Hosts \in Seq(Range(Hosts)) /\ Len(Hosts) > 0 /\ IsFiniteSet(Listeners)
    /\ \A v \in Versions : Hosts[v] = NoHosts \/ AreHosts(Hosts[v])
    /\ ChannelSize \in Nat \ {0} /\ MaxFailed \in Nat
    /\ MaxUpdaters \in Nat /\ MaxFaults \in Nat
    /\ PromptListeners \in BOOLEAN
    /\ Settings \subseteq [clustered : BOOLEAN, protect : BOOLEAN]

VARIABLES
    setting,    \* the client's settings
    srv,        \* the server: the version of the service
    subscribed, \* the server: whether it pushes to this client
    pushes,     \* pushed and not yet handled, in the order of the stream
    cache,      \* naming_cache: the version it holds
    emit,       \* changes found by a producer and not yet cached or sent
    channel,    \* from the emitter to the observer; what is beyond its size
                \* waits in send()
    registry,   \* ServiceInfoObserver.registry
    events,     \* spawned calls of listeners
    heard,      \* the version of the last event each listener was called
                \* with since it was added
    held,       \* history: what the cache held when the listener was added
    taskMap,    \* ServiceInfoUpdater.task_map
    made,       \* update tasks made
    task,       \* the update tasks
    redo,       \* the redo task of the subscription is in its map
    asking,     \* background subscribe requests
    pc,         \* where each listener's caller is
    faults

server == <<srv, subscribed, pushes>>
emitter == <<cache, emit, channel>>
observer == <<registry, events, heard, held>>
updater == <<taskMap, made, task>>
calls == <<redo, asking, pc>>
vars == <<setting, server, emitter, observer, updater, calls, faults>>

Push == 0                      \* the push handler as a producer
Producers == {Push} \cup Updaters
Quiet == [st |-> "quiet", v |-> None]
TaskStates == {"none", "sleeping", "asked", "answered"}

Emits == [st : {"quiet", "inserting", "sending"}, v : {None} \cup Versions]
Sends == [p : Producers, v : Versions]
Events == [l : Listeners, v : Versions]
Tasks == [st : TaskStates, running : BOOLEAN, last : {None, Never} \cup Versions,
          failed : 0..MaxFailed, v : {None} \cup Versions]

\* The types, that no producer has two changes waiting for room in the channel,
\* and that the task of the map is the one whose flag is set.
NamingTypeOK ==
    /\ setting \in Settings
    /\ srv \in Versions /\ subscribed \in BOOLEAN /\ pushes \in Seq(Versions)
    /\ cache \in {None} \cup Versions
    /\ emit \in [Producers -> Emits]
    /\ channel \in Seq(Sends)
    /\ Len(channel) <= ChannelSize + Cardinality(Producers)
    /\ registry \in SUBSET Listeners
    /\ events \in Seq(Events)
    /\ heard \in [Listeners -> {None} \cup Versions]
    /\ held \in [Listeners -> {None} \cup Versions]
    /\ taskMap \in {None} \cup Updaters /\ made \in 0..MaxUpdaters
    /\ \A t \in Updaters : task[t].running <=> taskMap = t
    /\ task \in [Updaters -> Tasks]
    /\ redo \in BOOLEAN /\ asking \in BOOLEAN
    /\ pc \in [Listeners -> {"idle", "adding", "asking", "leaving"}]
    /\ faults \in 0..MaxFaults

NoTask == [st |-> "none", running |-> FALSE, last |-> None, failed |-> 0, v |-> None]

Init ==
    /\ setting \in Settings
    /\ srv = 1 /\ subscribed = FALSE /\ pushes = << >>
    /\ cache \in {None, 1}     \* load_cache_at_start
    /\ cache # None => Hosts[cache] # NoHosts
    /\ emit = [p \in Producers |-> Quiet]
    /\ channel = << >> /\ registry = {} /\ events = << >>
    /\ heard = [l \in Listeners |-> None] /\ held = [l \in Listeners |-> None]
    /\ taskMap = None /\ made = 0
    /\ task = [t \in Updaters |-> NoTask]
    /\ redo = FALSE /\ asking = FALSE
    /\ pc = [l \in Listeners |-> "idle"]
    /\ faults = 0

Fail == faults < MaxFaults /\ faults' = faults + 1

-----------------------------------------------------------------------------
(* The server.                                                             *)

\* The service changes; subscribers are pushed the new version, unless the
\* push is lost.
Change ==
    /\ srv + 1 \in Versions
    /\ srv' = srv + 1
    /\ \/ subscribed /\ pushes' = Append(pushes, srv + 1)
       \/ pushes' = pushes
    /\ UNCHANGED <<setting, subscribed, emitter, observer, updater, calls, faults>>

\* The session ends, and with it the subscription and the pushes on their way.
SessionLost ==
    /\ subscribed /\ Fail
    /\ subscribed' = FALSE /\ pushes' = << >>
    /\ UNCHANGED <<setting, srv, emitter, observer, updater, calls>>

\* What the redo task is for.
Resubscribe ==
    /\ redo /\ ~subscribed
    /\ subscribed' = TRUE
    /\ UNCHANGED <<setting, srv, pushes, emitter, observer, updater, calls, faults>>

-----------------------------------------------------------------------------
(* The emitter.                                                            *)

HostSet == [v \in Versions |-> IF Hosts[v] = NoHosts THEN {} ELSE Range(Hosts[v])]

\* ServiceInfo::validate, without the allIPs flag, which only queries set.
Validate(v) == \E i \in HostSet[v] : i.healthy /\ i.weight > 0

IsEmptyOrErrorPush(v) == Hosts[v] = NoHosts \/ (setting.protect /\ ~Validate(v))

IsOutdated(old, new) == old > new

\* ip_and_port leads to the last host of the list that has it.
ByAddress == [v \in Versions |->
    LET hosts == IF Hosts[v] = NoHosts THEN << >> ELSE Hosts[v]
        Latest(a) == Max({n \in DOMAIN hosts : hosts[n].addr = a})
    IN [a \in {hosts[n].addr : n \in DOMAIN hosts} |-> hosts[Latest(a)]]]

\* ServiceInfoDiff::calculate: new, modified and removed instances.
DiffChanged(old, new) ==
    LET o == ByAddress[old] n == ByAddress[new] IN
    \/ \E a \in DOMAIN n : a \in DOMAIN o => o[a] # n[a]
    \/ \E a \in DOMAIN o : a \notin DOMAIN n

\* A variant of IsChanged that applies what is out of date.
IsChangedAnyTime(new) == cache # None => DiffChanged(cache, new)

\* is_changed_service_info.  The cache never holds a version without hosts.
IsChanged(new) ==
    cache # None => ~IsOutdated(cache, new) /\ DiffChanged(cache, new)

\* emit() has returned: nothing of p is under way or waits for room.
Idle(p) ==
    /\ emit[p] = Quiet
    /\ \A n \in DOMAIN channel : n > ChannelSize => channel[n].p # p

\* A variant of Sent that drops what finds no room.
SentOrDropped(p, v) ==
    IF Len(channel) >= ChannelSize THEN channel
    ELSE Append(channel, [p |-> p, v |-> v])

\* send(): those who wait for room are served in their order.
Sent(p, v) == Append(channel, [p |-> p, v |-> v])

IsNews(v) == ~IsEmptyOrErrorPush(v) /\ IsChanged(v)

\* process_service_info and the send.  Nothing is awaited before the change is
\* in the channel or in its queue: on the one worker of the runtime, its
\* default, they are one step.
Emit(p, v) ==
    /\ IF IsNews(v) THEN cache' = v /\ channel' = Sent(p, v)
       ELSE UNCHANGED <<cache, channel>>
    /\ UNCHANGED emit

\* NamingPushRequestHandler: the stream has one message handled at a time.
HandlePush ==
    /\ Idle(Push) /\ pushes # << >>
    /\ Emit(Push, Head(pushes))
    /\ pushes' = Tail(pushes)
    /\ UNCHANGED <<setting, srv, subscribed, observer, updater, calls, faults>>

-----------------------------------------------------------------------------
(* The observer.                                                           *)

\* One call of each listener is spawned for a change; without listeners it is
\* dropped.
Observe ==
    /\ channel # << >>
    /\ PromptListeners => events = << >>
    /\ channel' = Tail(channel)
    /\ events' = events \o [n \in 1..Cardinality(registry) |->
                             [l |-> SetToSeq(registry)[n], v |-> Head(channel).v]]
    /\ UNCHANGED <<setting, server, cache, emit, registry, heard, held,
                   updater, calls, faults>>

\* A spawned call runs, in no order.
CallListener(n) ==
    /\ n \in DOMAIN events
    /\ heard' = [heard EXCEPT ![events[n].l] = events[n].v]
    /\ events' = RemoveAt(events, n)
    /\ UNCHANGED <<setting, server, emitter, registry, held, updater, calls,
                   faults>>

-----------------------------------------------------------------------------
(* The update tasks.                                                       *)

\* schedule_update, under the lock of the map.
ScheduleUpdate ==
    IF taskMap # None THEN UNCHANGED updater
    ELSE /\ made < MaxUpdaters /\ made' = made + 1
         /\ taskMap' = made + 1
         /\ task' = [task EXCEPT ![made + 1] =
                       [NoTask EXCEPT !.st = "sleeping", !.running = TRUE, !.last = Never]]

\* A variant of StopUpdate that leaves the flag of the task set.
StopNothing ==
    /\ taskMap' = None
    /\ UNCHANGED <<made, task>>

\* stop_update.
StopUpdate ==
    /\ taskMap' = None
    /\ task' = IF taskMap = None THEN task
               ELSE [task EXCEPT ![taskMap].running = FALSE]
    /\ UNCHANGED made

\* The key of the task has the clusters in it, the key of the cache has not.
FoundInCache == IF setting.clustered THEN None ELSE cache

Sleeping(t) == task[t].st = "sleeping" /\ Idle(t)

\* A variant of Refresh that queries only what is not in the cache.
RefreshMissing(t) ==
    /\ Sleeping(t) /\ task[t].running
    /\ task' = IF FoundInCache # None THEN [task EXCEPT ![t].last = FoundInCache]
               ELSE [task EXCEPT ![t].st = "asked"]
    /\ UNCHANGED <<setting, server, emitter, observer, taskMap, made, calls, faults>>

\* The sleep is over: a cached service that is newer than the last refresh is
\* left alone once, anything else is queried.
Refresh(t) ==
    /\ Sleeping(t) /\ task[t].running
    /\ task' = IF FoundInCache # None /\ task[t].last < FoundInCache
               THEN [task EXCEPT ![t].last = FoundInCache]
               ELSE [task EXCEPT ![t].st = "asked"]
    /\ UNCHANGED <<setting, server, emitter, observer, taskMap, made, calls, faults>>

\* The server's answer carries the version of its moment.
AnswerRefresh(t) ==
    /\ task[t].st = "asked"
    /\ task' = [task EXCEPT ![t].st = "answered", ![t].v = srv]
    /\ UNCHANGED <<setting, server, emitter, observer, taskMap, made, calls, faults>>

\* The answer is emitted; the task sleeps again when emit() has returned, with
\* failed_count back at 0.
Emitted(t) ==
    /\ task[t].st = "answered"
    /\ task' = [task EXCEPT ![t] = [@ EXCEPT !.st = "sleeping", !.last = task[t].v,
                                             !.failed = 0, !.v = None]]
Refreshed(t) ==
    /\ Emitted(t)
    /\ Emit(t, task[t].v)
    /\ UNCHANGED <<setting, server, observer, taskMap, made, calls, faults>>

\* The exponent of the delay.
NextFailed(t) == IF task[t].failed < MaxFailed THEN task[t].failed + 1 ELSE task[t].failed

\* The query fails, or its result code does.
RefreshFails(t) ==
    /\ task[t].st \in {"asked", "answered"} /\ Fail
    /\ task' = [task EXCEPT ![t] = [@ EXCEPT !.st = "sleeping", !.v = None,
                                             !.failed = NextFailed(t)]]
    /\ UNCHANGED <<setting, server, emitter, observer, taskMap, made, calls>>

\* A stopped task notices at the head of its loop or after its sleep.
Quit(t) ==
    /\ Sleeping(t) /\ ~task[t].running
    /\ task' = [task EXCEPT ![t] = NoTask]
    /\ UNCHANGED <<setting, server, emitter, observer, taskMap, made, calls, faults>>

-----------------------------------------------------------------------------
(* subscribe_async and unsubscribe_async.                                  *)

\* ServiceInfoObserver::subscribe and unsubscribe.  A listener is there once.
AddListener(l) == registry' = registry \cup {l}
RemoveListener(l) == registry' = registry \ {l}

\* The updater and the listener.
Subscribe(l) ==
    /\ pc[l] = "idle"
    /\ ScheduleUpdate
    /\ AddListener(l)
    /\ heard' = [heard EXCEPT ![l] = None]
    /\ held' = [held EXCEPT ![l] = cache]
    /\ pc' = [pc EXCEPT ![l] = "adding"]
    /\ UNCHANGED <<setting, server, emitter, events, redo, asking, faults>>

\* add_task, then the cache: after a hit the request goes on in the background.
\* What subscribe_async returns, subscribe throws away.
AddRedoTask(l) ==
    /\ pc[l] = "adding"
    /\ redo' = TRUE
    /\ asking' = (asking \/ cache # None)
    /\ pc' = [pc EXCEPT ![l] = IF cache # None THEN "idle" ELSE "asking"]
    /\ UNCHANGED <<setting, server, emitter, observer, updater, faults>>

\* The answer is not put in the cache, and thrown away as well.
SubscribeAnswered(l) ==
    /\ pc[l] = "asking"
    /\ subscribed' = TRUE
    /\ pc' = [pc EXCEPT ![l] = "idle"]
    /\ UNCHANGED <<setting, srv, pushes, emitter, observer, updater, redo,
                   asking, faults>>

\* The listener, the updater and the redo task stay.
SubscribeFails(l) ==
    /\ pc[l] = "asking" /\ Fail
    /\ pc' = [pc EXCEPT ![l] = "idle"]
    /\ UNCHANGED <<setting, server, emitter, observer, updater, redo, asking>>

SubscribedInBackground ==
    /\ asking
    /\ asking' = FALSE
    /\ subscribed' = TRUE
    /\ UNCHANGED <<setting, srv, pushes, emitter, observer, updater, redo, pc, faults>>

\* The updater is stopped and the listener removed, then the server is asked.
Unsubscribe(l) ==
    /\ pc[l] = "idle" /\ l \in registry
    /\ StopUpdate
    /\ RemoveListener(l)
    /\ pc' = [pc EXCEPT ![l] = "leaving"]
    /\ UNCHANGED <<setting, server, emitter, events, heard, held, redo,
                   asking, faults>>

UnsubscribeAnswered(l) ==
    /\ pc[l] = "leaving"
    /\ PromptListeners => events = << >>
    /\ subscribed' = FALSE /\ redo' = FALSE
    /\ pc' = [pc EXCEPT ![l] = "idle"]
    /\ UNCHANGED <<setting, srv, pushes, emitter, observer, updater, asking, faults>>

\* The redo task stays.
UnsubscribeFails(l) ==
    /\ pc[l] = "leaving" /\ Fail
    /\ PromptListeners => events = << >>
    /\ pc' = [pc EXCEPT ![l] = "idle"]
    /\ UNCHANGED <<setting, server, emitter, observer, updater, redo, asking>>

-----------------------------------------------------------------------------
Observing == Observe \/ \E n \in DOMAIN events : CallListener(n)

UpdateTask(t) == Refresh(t) \/ AnswerRefresh(t) \/ Refreshed(t) \/ Quit(t)

Calling(l) ==
    AddRedoTask(l) \/ SubscribeAnswered(l) \/ UnsubscribeAnswered(l)

Next ==
    \/ Change \/ SessionLost \/ Resubscribe \/ HandlePush \/ SubscribedInBackground
    \/ Observing
    \/ \E t \in Updaters : UpdateTask(t) \/ RefreshFails(t)
    \/ \E l \in Listeners :
          \/ Subscribe(l) \/ Unsubscribe(l) \/ Calling(l)
          \/ SubscribeFails(l) \/ UnsubscribeFails(l)

Spec == Init /\ [][Next]_vars

\* Every task and handler runs and every request is answered; the service need
\* not change, pushes may be lost, and nobody need subscribe.
Fairness ==
    /\ WF_vars(Resubscribe) /\ WF_vars(HandlePush) /\ WF_vars(SubscribedInBackground)
    /\ WF_vars(Observing)
    /\ \A t \in Updaters : WF_vars(UpdateTask(t))
    /\ \A l \in Listeners : WF_vars(Calling(l))

FairSpec == Spec /\ Fairness

-----------------------------------------------------------------------------
(* The emitter on several workers: the comparison, the insert and the send *)
(* of two producers interleave.                                            *)

Compare(p, v) ==
    /\ IsNews(v)
    /\ emit' = [emit EXCEPT ![p] = [st |-> "inserting", v |-> v]]
    /\ UNCHANGED <<cache, channel>>

ComparePush ==
    /\ Idle(Push) /\ pushes # << >>
    /\ Compare(Push, Head(pushes))
    /\ pushes' = Tail(pushes)
    /\ UNCHANGED <<setting, srv, subscribed, observer, updater, calls, faults>>

CompareRefreshed(t) ==
    /\ Emitted(t)
    /\ Compare(t, task[t].v)
    /\ UNCHANGED <<setting, server, observer, taskMap, made, calls, faults>>

InsertChanged(p) ==
    /\ emit[p].st = "inserting"
    /\ cache' = emit[p].v
    /\ emit' = [emit EXCEPT ![p].st = "sending"]
    /\ UNCHANGED <<setting, server, channel, observer, updater, calls, faults>>

SendChange(p) ==
    /\ emit[p].st = "sending"
    /\ channel' = Sent(p, emit[p].v)
    /\ emit' = [emit EXCEPT ![p] = Quiet]
    /\ UNCHANGED <<setting, server, cache, observer, updater, calls, faults>>

ParallelNext ==
    \/ Next \/ ComparePush
    \/ \E t \in Updaters : CompareRefreshed(t)
    \/ \E p \in Producers : InsertChanged(p) \/ SendChange(p)

ParallelSpec == Init /\ [][ParallelNext]_vars

-----------------------------------------------------------------------------
(* Properties.                                                             *)

\* Pushes and answers of queries overtake each other; the cache never takes an
\* older version for the one it holds.
CacheNeverGoesBack == [][cache <= cache']_vars

\* While somebody is subscribed, the cache always comes back to the hosts the
\* server has, although pushes and sessions are lost and queries fail: the
\* updater makes up for them.  With push_empty_protection a version without a
\* usable instance is not taken.
Acceptable(v) == ~IsEmptyOrErrorPush(v)
Current == cache # None /\ HostSet[cache] = HostSet[srv]
CacheFollowsServer == []<>(registry # {} /\ Acceptable(srv) => Current)

\* What the cache comes to hold after a listener was added always reaches it:
\* its last event or, before the first, what the cache held when it was added
\* has the hosts the cache has.
Informed(l) ==
    LET v == IF heard[l] # None THEN heard[l] ELSE held[l] IN
    v # None /\ HostSet[v] = HostSet[cache]
ListenersInformed ==
    \A l \in Listeners : []<>(l \in registry /\ cache # None => Informed(l))

\* "The initial response data will come from cache (if available)", says the
\* comment on subscriptions: a listener is called although it was added when the
\* cache already held the service.  Not kept: subscribe throws the data of a hit
\* away, and nothing is sent until the hosts change.
InitialDataArrives ==
    \A l \in Listeners : []<>(l \in registry /\ cache # None => heard[l] # None)

\* The tasks of earlier subscriptions go: always again at most one update task
\* is left.
OneUpdater == []<>(Cardinality({t \in Updaters : task[t].st # "none"}) <= 1)

\* Whatever the cache has come to hold, an instance that is selected is one of
\* it, healthy, enabled and of positive weight, the choice is in proportion to
\* the weights, and there is one when there can be.
SoundFor(v) ==
    LET hosts == Hosts[v] items == Selectable(hosts, TRUE) IN
    /\ \A d \in Draws(items) : IsGood(hosts, SelectOne(hosts, d))
    /\ Fair(hosts)
    /\ (\E i \in Range(hosts) : IsGood(hosts, i)) => items # << >>
SoundVersions == {v \in Versions : Hosts[v] # NoHosts /\ SoundFor(v)}
SelectionSound == cache # None => cache \in SoundVersions

\* Types and bounds, and what may be made of the cache.
NamingInv == NamingTypeOK /\ SelectionSound
=============================================================================
