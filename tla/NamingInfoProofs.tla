-------------------------- MODULE NamingInfoProofs --------------------------
(***************************************************************************)
(* Theorems of NamingInfo, for any history of the service, any listeners   *)
(* and settings, every size of the channel and any number of update tasks  *)
(* and faults.                                                             *)
(***************************************************************************)
EXTENDS NamingInfo, FiniteSetTheorems, SequenceTheorems, WellFoundedInduction, TLAPS

-----------------------------------------------------------------------------
(* The invariant.                                                          *)

\* p has a change that waits for room in the channel.
Waiting(p) == \E n \in DOMAIN channel : n > ChannelSize /\ channel[n].p = p

\* Who waits, waits with one change.
WaitingApart ==
    \A m, n \in DOMAIN channel :
        m > ChannelSize /\ n > ChannelSize /\ channel[m].p = channel[n].p => m = n

\* While a task queries, or has its answer, nothing of it waits; the answer is a
\* version of the service.
TasksInv == \A t \in Updaters :
    /\ task[t].st \in {"asked", "answered"} => ~Waiting(t)
    /\ task[t].st = "answered" => task[t].v \in Versions

IInv == NamingTypeOK /\ WaitingApart /\ TasksInv

-----------------------------------------------------------------------------
(* The helpers of the model.                                               *)

\* The elements of a finite set in some order.
LEMMA SetToSeqType ==
    ASSUME NEW S, IsFiniteSet(S)
    PROVE  Cardinality(S) \in Nat /\ SetToSeq(S) \in [1..Cardinality(S) -> S]
<1>1. Cardinality(S) \in Nat /\ ExistsBijection(1..Cardinality(S), S)
  BY FS_CardinalityType
<1>2. PICK f \in Bijection(1..Cardinality(S), S) : TRUE
  BY <1>1 DEF ExistsBijection
<1>3. f \in [1..Cardinality(S) -> S] /\ IsInjective(f)
  BY <1>2 DEF Bijection, Injection, Surjection, IsInjective
<1>4. QED
  BY <1>1, <1>3 DEF SetToSeq

LEMMA RemoveAtType ==
    ASSUME NEW S, NEW s \in Seq(S), NEW i \in DOMAIN s
    PROVE  RemoveAt(s, i) \in Seq(S)
<1>1. SubSeq(s, 1, i - 1) \in Seq(S) /\ SubSeq(s, i + 1, Len(s)) \in Seq(S)
  BY SubSeqProperties
<1>2. QED
  BY <1>1, ConcatProperties DEF RemoveAt

LEMMA Numbers ==
    /\ Versions \in SUBSET (Nat \ {0}) /\ 1 \in Versions
    /\ Updaters \in SUBSET (Nat \ {0}) /\ Push \notin Updaters
    /\ ChannelSize \in Nat \ {0} /\ MaxUpdaters \in Nat /\ MaxFaults \in Nat
    /\ MaxFailed \in Nat
    /\ IsFiniteSet(Producers) /\ Cardinality(Producers) \in Nat
<1>1. Updaters \in SUBSET (Nat \ {0}) /\ MaxUpdaters \in Nat
  BY NamingAssumption DEF Updaters
<1>2. Versions = 1..Len(Hosts) /\ Len(Hosts) \in Nat /\ Len(Hosts) > 0
  BY NamingAssumption DEF Versions
<1>3. IsFiniteSet(Producers) /\ Cardinality(Producers) \in Nat
  <2>1. Producers \subseteq 0..MaxUpdaters
    BY <1>1 DEF Producers, Push, Updaters
  <2>2. IsFiniteSet(0..MaxUpdaters)
    BY <1>1, FS_Interval
  <2>3. QED
    BY <2>1, <2>2, FS_Subset, FS_CardinalityType
<1>4. QED
  BY <1>1, <1>2, <1>3, NamingAssumption DEF Push

\* As many changes wait for room as there are producers.
LEMMA ChannelBound ==
    ASSUME channel \in Seq(Sends), WaitingApart
    PROVE  Len(channel) <= ChannelSize + Cardinality(Producers)
<1> DEFINE W == (ChannelSize + 1)..Len(channel)
           f == [n \in W |-> channel[n].p]
<1>1. Len(channel) \in Nat /\ W \subseteq DOMAIN channel /\ \A n \in W : n > ChannelSize
  BY Numbers
<1>2. \A n \in W : channel[n].p \in Producers
  <2>1. \A n \in DOMAIN channel : channel[n] \in Sends
    OBVIOUS
  <2>2. QED
    BY <1>1, <2>1 DEF Sends
<1>3. f \in Injection(W, Producers)
  BY <1>1, <1>2 DEF WaitingApart, Injection, IsInjective
<1>4. Cardinality(W) <= Cardinality(Producers)
  BY <1>3, Numbers, FS_Injection
<1>5. Cardinality(W) = IF ChannelSize + 1 > Len(channel) THEN 0 ELSE Len(channel) - ChannelSize
  <2> DEFINE first == ChannelSize + 1
             last == Len(channel)
  <2>1. first \in Int /\ last \in Int
    BY <1>1, Numbers
  <2> HIDE DEF first, last
  <2>2. Cardinality(first..last) = IF first > last THEN 0 ELSE last - first + 1
    BY <2>1, FS_Interval
  <2>3. Cardinality(W) = IF ChannelSize + 1 > Len(channel) THEN 0
                         ELSE Len(channel) - (ChannelSize + 1) + 1
    BY <2>2 DEF first, last
  <2>4. QED
    BY <1>1, <2>3, Numbers
<1>6. QED
  BY <1>1, <1>4, <1>5, Numbers

-----------------------------------------------------------------------------
(* The emitter.                                                            *)

\* A change that is received makes room, and nobody waits who did not.
LEMMA TailFacts ==
    ASSUME channel \in Seq(Sends), WaitingApart, channel # << >>, channel' = Tail(channel)
    PROVE  /\ channel' \in Seq(Sends) /\ WaitingApart'
           /\ \A p : Waiting(p)' => Waiting(p)
<1>1. /\ channel' \in Seq(Sends) /\ Len(channel) \in Nat
      /\ DOMAIN channel = 1..Len(channel) /\ DOMAIN channel' = 1..(Len(channel) - 1)
      /\ \A n \in DOMAIN channel' : channel'[n] = channel[n + 1] /\ n + 1 \in DOMAIN channel
  BY HeadTailProperties, Numbers
<1>2. WaitingApart'
  <2>1. SUFFICES ASSUME NEW m \in DOMAIN channel', NEW n \in DOMAIN channel',
                        m > ChannelSize, n > ChannelSize, channel'[m].p = channel'[n].p
                 PROVE  m = n
    BY DEF WaitingApart
  <2>2. /\ m + 1 \in DOMAIN channel /\ n + 1 \in DOMAIN channel
        /\ channel[m + 1].p = channel[n + 1].p
    BY <1>1, <2>1
  <2>3. m + 1 > ChannelSize /\ n + 1 > ChannelSize /\ m \in Nat /\ n \in Nat
    BY <1>1, <2>1, Numbers
  <2>4. m + 1 = n + 1
    BY <2>2, <2>3 DEF WaitingApart
  <2>5. QED
    BY <2>3, <2>4
<1>3. ASSUME NEW p, Waiting(p)' PROVE Waiting(p)
  <2>1. PICK n \in DOMAIN channel' : n > ChannelSize /\ channel'[n].p = p
    BY <1>3 DEF Waiting
  <2>2. n + 1 \in DOMAIN channel /\ channel[n + 1].p = p /\ n + 1 > ChannelSize
    BY <1>1, <2>1, Numbers
  <2>3. QED
    BY <2>2 DEF Waiting
<1>4. QED
  BY <1>1, <1>2, <1>3

\* A producer of which nothing waits sends a change.
LEMMA SentFacts ==
    ASSUME channel \in Seq(Sends), WaitingApart, NEW p \in Producers, NEW v \in Versions,
           ~Waiting(p), channel' = Sent(p, v)
    PROVE  /\ channel' \in Seq(Sends) /\ WaitingApart'
           /\ \A q : Waiting(q)' => Waiting(q) \/ q = p
<1> DEFINE new == [p |-> p, v |-> v]
<1>1. new \in Sends /\ new.p = p
  BY DEF Sends
<1>2. /\ channel' \in Seq(Sends) /\ Len(channel) \in Nat
      /\ DOMAIN channel = 1..Len(channel) /\ DOMAIN channel' = 1..(Len(channel) + 1)
      /\ \A n \in DOMAIN channel : channel'[n] = channel[n]
      /\ channel'[Len(channel) + 1] = new
  BY <1>1, AppendProperties DEF Sent
<1> HIDE DEF new
<1>3. \A n \in DOMAIN channel' : n \in DOMAIN channel \/ n = Len(channel) + 1
  BY <1>2
<1>4. WaitingApart'
  <2>1. SUFFICES ASSUME NEW m \in DOMAIN channel', NEW n \in DOMAIN channel',
                        m > ChannelSize, n > ChannelSize, channel'[m].p = channel'[n].p
                 PROVE  m = n
    BY DEF WaitingApart
  <2>2. CASE m \in DOMAIN channel /\ n \in DOMAIN channel
    BY <1>2, <2>1, <2>2 DEF WaitingApart
  <2>3. CASE m \in DOMAIN channel /\ n \notin DOMAIN channel
    BY <1>1, <1>2, <1>3, <2>1, <2>3 DEF Waiting
  <2>4. CASE m \notin DOMAIN channel /\ n \in DOMAIN channel
    BY <1>1, <1>2, <1>3, <2>1, <2>4 DEF Waiting
  <2>5. CASE m \notin DOMAIN channel /\ n \notin DOMAIN channel
    BY <1>3, <2>5
  <2>6. QED
    BY <2>2, <2>3, <2>4, <2>5
<1>5. \A q : Waiting(q)' => Waiting(q) \/ q = p
  BY <1>1, <1>2, <1>3 DEF Waiting
<1>6. QED
  BY <1>2, <1>4, <1>5

\* process_service_info: the cache takes no older version, and a change is sent
\* for each that it takes.
LEMMA EmitFacts ==
    ASSUME IInv, NEW p \in Producers, NEW v \in Versions, ~Waiting(p), Emit(p, v)
    PROVE  /\ cache' \in {None} \cup Versions /\ cache <= cache'
           /\ emit' = emit
           /\ channel' \in Seq(Sends) /\ WaitingApart'
           /\ Len(channel') <= ChannelSize + Cardinality(Producers)
           /\ \A q : Waiting(q)' => Waiting(q) \/ q = p
<1>1. /\ channel \in Seq(Sends) /\ WaitingApart /\ cache \in {None} \cup Versions
      /\ emit' = emit
  BY DEF IInv, NamingTypeOK, Emit
<1>2. cache \in Nat /\ v \in Nat
  BY <1>1, Numbers DEF None
<1>3. CASE IsNews(v)
  <2>1. cache' = v /\ channel' = Sent(p, v)
    BY <1>3 DEF Emit
  <2>2. cache <= v
    BY <1>2, <1>3 DEF IsNews, IsChanged, IsOutdated, None
  <2>3. /\ channel' \in Seq(Sends) /\ WaitingApart'
        /\ \A q : Waiting(q)' => Waiting(q) \/ q = p
    BY <1>1, <2>1, SentFacts
  <2>4. Len(channel') <= ChannelSize + Cardinality(Producers)
    <3>1. (channel \in Seq(Sends) /\ WaitingApart
             => Len(channel) <= ChannelSize + Cardinality(Producers))'
      BY ChannelBound, PTL
    <3>2. QED
      BY <2>3, <3>1
  <2>5. QED
    BY <1>1, <2>1, <2>2, <2>3, <2>4
<1>4. CASE ~IsNews(v)
  <2>1. cache' = cache /\ channel' = channel
    BY <1>4 DEF Emit
  <2>2. QED
    BY <1>1, <1>2, <2>1 DEF WaitingApart, Waiting, IInv, NamingTypeOK
<1>5. QED
  BY <1>3, <1>4

-----------------------------------------------------------------------------
(* The steps.                                                              *)

LEMMA InitInv == Init => IInv
<1> SUFFICES ASSUME Init PROVE IInv
  OBVIOUS
<1>1. channel = << >> /\ channel \in Seq(Sends) /\ WaitingApart /\ \A p : ~Waiting(p)
  BY DEF Init, WaitingApart, Waiting
<1>2. emit \in [Producers -> Emits] /\ task \in [Updaters -> Tasks]
  BY Numbers DEF Init, Quiet, Emits, NoTask, Tasks, TaskStates, None
<1>3. Len(channel) <= ChannelSize + Cardinality(Producers)
  BY <1>1, ChannelBound
<1>4. \A t \in Updaters : task[t].running <=> taskMap = t
  BY Numbers DEF Init, NoTask, None
<1>5. /\ srv \in Versions /\ pushes \in Seq(Versions) /\ cache \in {None} \cup Versions
      /\ events \in Seq(Events) /\ heard \in [Listeners -> {None} \cup Versions]
      /\ held \in [Listeners -> {None} \cup Versions]
      /\ taskMap \in {None} \cup Updaters /\ made \in 0..MaxUpdaters
      /\ faults \in 0..MaxFaults
      /\ pc \in [Listeners -> {"idle", "adding", "asking", "leaving"}]
  BY Numbers DEF Init
<1>6. NamingTypeOK
  BY <1>1, <1>2, <1>3, <1>4, <1>5 DEF Init, NamingTypeOK
<1>7. TasksInv
  BY DEF Init, TasksInv, NoTask
<1>8. QED
  BY <1>1, <1>6, <1>7 DEF IInv

\* Steps that touch neither the channel nor the tasks.
LEMMA OthersKeep ==
    ASSUME IInv, UNCHANGED <<channel, task>>
    PROVE  WaitingApart' /\ TasksInv'
  BY DEF IInv, WaitingApart, TasksInv, Waiting

LEMMA ServerInv ==
    ASSUME IInv, Change \/ SessionLost \/ Resubscribe \/ SubscribedInBackground
    PROVE  IInv' /\ UNCHANGED cache
<1> USE DEF emitter, observer, updater, calls, IInv
<1>1. CASE Change
  <2>1. srv' \in Versions /\ pushes \in Seq(Versions)
    BY <1>1 DEF Change, NamingTypeOK
  <2>2. pushes' \in Seq(Versions)
    <3>1. pushes' = pushes \/ pushes' = Append(pushes, srv')
      BY <1>1 DEF Change
    <3>2. QED
      BY <2>1, <3>1, AppendProperties
  <2>3. QED
    BY <1>1, <2>1, <2>2, OthersKeep DEF Change, NamingTypeOK
<1>2. CASE SessionLost
  <2>1. faults' \in 0..MaxFaults /\ pushes' \in Seq(Versions)
    BY <1>2, Numbers DEF SessionLost, Fail, NamingTypeOK
  <2>2. QED
    BY <1>2, <2>1, OthersKeep DEF SessionLost, NamingTypeOK
<1>3. CASE Resubscribe
  BY <1>3, OthersKeep DEF Resubscribe, NamingTypeOK
<1>4. CASE SubscribedInBackground
  BY <1>4, OthersKeep DEF SubscribedInBackground, NamingTypeOK
<1>5. QED
  BY <1>1, <1>2, <1>3, <1>4

LEMMA HandlePushInv ==
    ASSUME IInv, HandlePush
    PROVE  IInv' /\ cache <= cache'
<1>1. Head(pushes) \in Versions /\ pushes' \in Seq(Versions) /\ Push \in Producers
  BY HeadTailProperties DEF HandlePush, IInv, NamingTypeOK, Producers
<1>2. ~Waiting(Push)
  BY DEF HandlePush, Idle, Waiting
<1>3. Emit(Push, Head(pushes)) /\ Push \notin Updaters
  BY Numbers DEF HandlePush
<1>4. NamingTypeOK'
  BY <1>1, <1>2, <1>3, EmitFacts DEF HandlePush, observer, updater, calls, IInv, NamingTypeOK
<1>5. WaitingApart' /\ TasksInv'
  BY <1>1, <1>2, <1>3, EmitFacts DEF HandlePush, updater, IInv, TasksInv
<1>6. QED
  BY <1>1, <1>2, <1>3, <1>4, <1>5, EmitFacts DEF IInv

LEMMA ObserveInv ==
    ASSUME IInv, Observe
    PROVE  IInv' /\ UNCHANGED cache
<1>1. /\ channel \in Seq(Sends) /\ WaitingApart /\ channel # << >> /\ channel' = Tail(channel)
      /\ UNCHANGED <<setting, srv, subscribed, pushes, cache, emit, registry, heard, held,
                     taskMap, made, task, redo, asking, pc, faults>>
  BY DEF Observe, server, updater, calls, IInv, NamingTypeOK
<1>2. channel' \in Seq(Sends) /\ WaitingApart' /\ \A p : Waiting(p)' => Waiting(p)
  BY <1>1, TailFacts
<1>3. Len(channel') <= ChannelSize + Cardinality(Producers)
  <2>1. (channel \in Seq(Sends) /\ WaitingApart
           => Len(channel) <= ChannelSize + Cardinality(Producers))'
    BY ChannelBound, PTL
  <2>2. QED
    BY <1>2, <2>1
<1>4. events' \in Seq(Events)
  <2> DEFINE calls1 == [n \in 1..Cardinality(registry) |->
                         [l |-> SetToSeq(registry)[n], v |-> Head(channel).v]]
  <2>1. Head(channel) \in Sends
    BY <1>1, HeadTailProperties
  <2>2. registry \in SUBSET Listeners /\ IsFiniteSet(registry)
    BY NamingAssumption, FS_Subset DEF IInv, NamingTypeOK
  <2>3. /\ Cardinality(registry) \in Nat
        /\ SetToSeq(registry) \in [1..Cardinality(registry) -> registry]
    BY <2>2, SetToSeqType
  <2>4. calls1 \in [1..Cardinality(registry) -> Events]
    BY <2>1, <2>2, <2>3 DEF Sends, Events
  <2>6. events' = events \o calls1 /\ events \in Seq(Events)
    BY DEF Observe, IInv, NamingTypeOK
  <2> HIDE DEF calls1
  <2>5. calls1 \in Seq(Events)
    <3>1. ASSUME NEW k \in Nat, NEW f \in [1..k -> Events] PROVE f \in Seq(Events)
      BY <3>1, SeqDef
    <3>2. QED
      BY <2>3, <2>4, <3>1
  <2>7. QED
    BY <2>5, <2>6, ConcatProperties
<1>5. NamingTypeOK'
  BY <1>1, <1>2, <1>3, <1>4 DEF IInv, NamingTypeOK
<1>6. TasksInv'
  BY <1>1, <1>2 DEF IInv, TasksInv
<1>7. QED
  BY <1>1, <1>2, <1>5, <1>6 DEF IInv

LEMMA CallListenerInv ==
    ASSUME IInv, NEW n \in DOMAIN events, CallListener(n)
    PROVE  IInv' /\ UNCHANGED cache
<1>1. events \in Seq(Events) /\ events[n] \in Events /\ RemoveAt(events, n) \in Seq(Events)
  BY RemoveAtType DEF IInv, NamingTypeOK
<1>2. heard' \in [Listeners -> {None} \cup Versions]
  BY <1>1 DEF CallListener, IInv, NamingTypeOK, Events
<1>3. QED
  BY <1>1, <1>2, OthersKeep
     DEF CallListener, server, emitter, updater, calls, IInv, NamingTypeOK

-----------------------------------------------------------------------------
(* The update tasks.                                                       *)

\* A step of one task that leaves the channel alone and after which the task
\* does not query, or has nothing that waits.
LEMMA OwnTask ==
    ASSUME IInv, NEW t \in Updaters, NEW r \in Tasks,
           task' = [task EXCEPT ![t] = r],
           r.running = task[t].running,
           r.st \in {"asked", "answered"} => ~Waiting(t),
           r.st = "answered" => r.v \in Versions,
           UNCHANGED <<channel, taskMap>>
    PROVE  /\ task' \in [Updaters -> Tasks]
           /\ \A u \in Updaters : task'[u].running <=> taskMap' = u
           /\ WaitingApart' /\ TasksInv'
<1>1. /\ task \in [Updaters -> Tasks]
      /\ \A u \in Updaters : task[u].running <=> taskMap = u
      /\ WaitingApart /\ TasksInv
  BY DEF IInv, NamingTypeOK
<1>2. /\ task' \in [Updaters -> Tasks] /\ task'[t] = r
      /\ \A u \in Updaters : u # t => task'[u] = task[u]
  BY <1>1
<1>3. \A q : Waiting(q)' <=> Waiting(q)
  BY DEF Waiting
<1>4. TasksInv'
  BY <1>1, <1>2, <1>3 DEF TasksInv
<1>5. WaitingApart'
  BY <1>1 DEF WaitingApart
<1>6. \A u \in Updaters : task'[u].running <=> taskMap' = u
  BY <1>1, <1>2
<1>7. QED
  BY <1>2, <1>4, <1>5, <1>6

\* emit() has returned.
LEMMA IdleWaits == ASSUME NEW p, Idle(p) PROVE ~Waiting(p)
  BY DEF Idle, Waiting

LEMMA RefreshInv ==
    ASSUME IInv, NEW t \in Updaters, Refresh(t)
    PROVE  IInv' /\ UNCHANGED cache
<1> DEFINE left == [task[t] EXCEPT !.last = FoundInCache]
           asked == [task[t] EXCEPT !.st = "asked"]
<1>1. /\ task \in [Updaters -> Tasks] /\ task[t] \in Tasks /\ task[t].st = "sleeping"
      /\ FoundInCache \in {None} \cup Versions /\ ~Waiting(t)
  BY IdleWaits DEF Refresh, Sleeping, FoundInCache, IInv, NamingTypeOK
<1>2. /\ left \in Tasks /\ left.running = task[t].running /\ left.st = "sleeping"
      /\ asked \in Tasks /\ asked.running = task[t].running /\ asked.st = "asked"
  BY <1>1 DEF Tasks, TaskStates
<1>3. task' = [task EXCEPT ![t] = left] \/ task' = [task EXCEPT ![t] = asked]
  BY <1>1 DEF Refresh
<1>4. UNCHANGED <<setting, srv, subscribed, pushes, cache, emit, channel, registry, events,
                  heard, held, taskMap, made, redo, asking, pc, faults>>
  BY DEF Refresh, server, emitter, observer, calls
<1> HIDE DEF left, asked
<1>5. /\ task' \in [Updaters -> Tasks]
      /\ \A u \in Updaters : task'[u].running <=> taskMap' = u
      /\ WaitingApart' /\ TasksInv'
  BY <1>1, <1>2, <1>3, <1>4, OwnTask
<1>6. QED
  BY <1>4, <1>5 DEF IInv, NamingTypeOK

LEMMA AnswerRefreshInv ==
    ASSUME IInv, NEW t \in Updaters, AnswerRefresh(t)
    PROVE  IInv' /\ UNCHANGED cache
<1> DEFINE r == [task[t] EXCEPT !.st = "answered", !.v = srv]
<1>1. /\ task \in [Updaters -> Tasks] /\ task[t] \in Tasks /\ ~Waiting(t) /\ srv \in Versions
  BY DEF AnswerRefresh, IInv, NamingTypeOK, TasksInv
<1>2. r \in Tasks /\ r.running = task[t].running /\ r.v \in Versions
  BY <1>1 DEF Tasks, TaskStates
<1>3. task' = [task EXCEPT ![t] = r]
  BY <1>1 DEF AnswerRefresh
<1>4. UNCHANGED <<setting, srv, subscribed, pushes, cache, emit, channel, registry, events,
                  heard, held, taskMap, made, redo, asking, pc, faults>>
  BY DEF AnswerRefresh, server, emitter, observer, calls
<1> HIDE DEF r
<1>5. /\ task' \in [Updaters -> Tasks]
      /\ \A u \in Updaters : task'[u].running <=> taskMap' = u
      /\ WaitingApart' /\ TasksInv'
  BY <1>1, <1>2, <1>3, <1>4, OwnTask
<1>6. QED
  BY <1>4, <1>5 DEF IInv, NamingTypeOK

LEMMA RefreshFailsInv ==
    ASSUME IInv, NEW t \in Updaters, RefreshFails(t)
    PROVE  IInv' /\ UNCHANGED cache
<1> DEFINE r == [task[t] EXCEPT !.st = "sleeping", !.v = None, !.failed = NextFailed(t)]
<1>1. /\ task \in [Updaters -> Tasks] /\ task[t] \in Tasks
      /\ faults \in 0..MaxFaults /\ faults < MaxFaults /\ faults' = faults + 1
  BY DEF RefreshFails, Fail, IInv, NamingTypeOK
<1>2. NextFailed(t) \in 0..MaxFailed
  <2>1. task[t].failed \in 0..MaxFailed
    BY <1>1 DEF Tasks
  <2>2. QED
    BY <2>1, Numbers DEF NextFailed
<1>3. r \in Tasks /\ r.running = task[t].running /\ r.st = "sleeping"
  BY <1>1, <1>2 DEF Tasks, TaskStates
<1>4. task' = [task EXCEPT ![t] = r]
  BY <1>1 DEF RefreshFails
<1>5. UNCHANGED <<setting, srv, subscribed, pushes, cache, emit, channel, registry, events,
                  heard, held, taskMap, made, redo, asking, pc>>
  BY DEF RefreshFails, server, emitter, observer, calls
<1> HIDE DEF r
<1>6. /\ task' \in [Updaters -> Tasks]
      /\ \A u \in Updaters : task'[u].running <=> taskMap' = u
      /\ WaitingApart' /\ TasksInv'
  BY <1>3, <1>4, <1>5, OwnTask
<1>7. faults' \in 0..MaxFaults
  BY <1>1, Numbers
<1>8. QED
  BY <1>5, <1>6, <1>7 DEF IInv, NamingTypeOK

LEMMA QuitInv ==
    ASSUME IInv, NEW t \in Updaters, Quit(t)
    PROVE  IInv' /\ UNCHANGED cache
<1>1. NoTask \in Tasks /\ NoTask.running = task[t].running /\ NoTask.st = "none"
  <2>1. 0 \in 0..MaxFailed /\ task[t] \in Tasks /\ ~task[t].running
    BY Numbers DEF Quit, IInv, NamingTypeOK
  <2>2. task[t].running = FALSE
    BY <2>1 DEF Tasks
  <2>3. QED
    BY <2>1, <2>2 DEF NoTask, Tasks, TaskStates
<1>2. task' = [task EXCEPT ![t] = NoTask]
  BY DEF Quit
<1>3. UNCHANGED <<setting, srv, subscribed, pushes, cache, emit, channel, registry, events,
                  heard, held, taskMap, made, redo, asking, pc, faults>>
  BY DEF Quit, server, emitter, observer, calls
<1>4. /\ task' \in [Updaters -> Tasks]
      /\ \A u \in Updaters : task'[u].running <=> taskMap' = u
      /\ WaitingApart' /\ TasksInv'
  BY <1>1, <1>2, <1>3, OwnTask
<1>5. QED
  BY <1>3, <1>4 DEF IInv, NamingTypeOK

LEMMA RefreshedInv ==
    ASSUME IInv, NEW t \in Updaters, Refreshed(t)
    PROVE  IInv' /\ cache <= cache'
<1> DEFINE v == task[t].v
           r == [task[t] EXCEPT !.st = "sleeping", !.last = v, !.failed = 0, !.v = None]
<1>1. /\ task \in [Updaters -> Tasks] /\ task[t] \in Tasks /\ ~Waiting(t)
      /\ v \in Versions /\ t \in Producers /\ Emit(t, v)
      /\ \A u \in Updaters : task[u].running <=> taskMap = u
  BY DEF Refreshed, Emitted, IInv, NamingTypeOK, TasksInv, Producers
<1>2. /\ UNCHANGED <<setting, srv, subscribed, pushes, registry, events,
                     heard, held, taskMap, made, redo, asking, pc, faults>>
      /\ task' = [task EXCEPT ![t] = r]
  BY <1>1 DEF Refreshed, Emitted, server, observer, calls
<1>3. r \in Tasks /\ r.running = task[t].running /\ r.st = "sleeping"
  <2>1. 0 \in 0..MaxFailed
    BY Numbers
  <2> HIDE DEF v
  <2>2. QED
    BY <1>1, <2>1 DEF Tasks, TaskStates
<1> HIDE DEF v, r
<1>4. /\ cache' \in {None} \cup Versions /\ cache <= cache' /\ emit' = emit
      /\ channel' \in Seq(Sends) /\ WaitingApart'
      /\ Len(channel') <= ChannelSize + Cardinality(Producers)
      /\ \A q : Waiting(q)' => Waiting(q) \/ q = t
  BY <1>1, EmitFacts
<1>5. /\ task' \in [Updaters -> Tasks] /\ task'[t] = r
      /\ \A u \in Updaters : u # t => task'[u] = task[u]
  BY <1>1, <1>2, <1>3
<1>6. TasksInv'
  BY <1>3, <1>4, <1>5 DEF IInv, TasksInv
<1>7. \A u \in Updaters : task'[u].running <=> taskMap' = u
  BY <1>1, <1>2, <1>3, <1>5
<1>8. NamingTypeOK'
  BY <1>2, <1>4, <1>5, <1>7 DEF IInv, NamingTypeOK
<1>9. QED
  BY <1>4, <1>6, <1>8 DEF IInv

-----------------------------------------------------------------------------
(* subscribe_async and unsubscribe_async.                                  *)

\* schedule_update and stop_update keep the map and the flags together.
LEMMA UpdaterKeeps ==
    ASSUME IInv, ScheduleUpdate \/ StopUpdate, UNCHANGED channel
    PROVE  /\ task' \in [Updaters -> Tasks]
           /\ taskMap' \in {None} \cup Updaters /\ made' \in 0..MaxUpdaters
           /\ \A u \in Updaters : task'[u].running <=> taskMap' = u
           /\ WaitingApart' /\ TasksInv'
<1> USE DEF IInv
<1>1. /\ task \in [Updaters -> Tasks] /\ taskMap \in {None} \cup Updaters
      /\ made \in 0..MaxUpdaters /\ None \notin Updaters
      /\ \A u \in Updaters : task[u].running <=> taskMap = u
  BY Numbers DEF NamingTypeOK, None
<1>2. WaitingApart' /\ \A q : Waiting(q)' <=> Waiting(q)
  BY DEF WaitingApart, Waiting
<1>3. CASE ScheduleUpdate /\ taskMap = None
  <2> DEFINE t == made + 1
             r == [NoTask EXCEPT !.st = "sleeping", !.running = TRUE, !.last = Never]
  <2>1. r \in Tasks /\ r.running = TRUE /\ r.st = "sleeping"
    <3>1. NoTask \in Tasks
      BY Numbers DEF NoTask, Tasks, TaskStates
    <3>2. QED
      BY <3>1 DEF Tasks, TaskStates
  <2>2. t \in Updaters /\ made' = t /\ taskMap' = t /\ task' = [task EXCEPT ![t] = r]
        /\ t \in 0..MaxUpdaters
    BY <1>1, <1>3, Numbers DEF ScheduleUpdate, Updaters
  <2> HIDE DEF t, r
  <2>3. /\ task' \in [Updaters -> Tasks] /\ task'[t] = r
        /\ \A u \in Updaters : u # t => task'[u] = task[u]
    BY <1>1, <2>1, <2>2
  <2>4. \A u \in Updaters : task'[u].running <=> taskMap' = u
    BY <1>1, <1>3, <2>1, <2>2, <2>3
  <2>5. TasksInv'
    BY <1>2, <2>1, <2>3 DEF TasksInv
  <2>6. QED
    BY <1>2, <2>2, <2>3, <2>4, <2>5
<1>4. CASE StopUpdate /\ taskMap # None
  <2> DEFINE r == [task[taskMap] EXCEPT !.running = FALSE]
  <2>1. taskMap \in Updaters /\ task[taskMap] \in Tasks
    BY <1>1, <1>4
  <2>2. r \in Tasks /\ r.running = FALSE /\ r.st = task[taskMap].st /\ r.v = task[taskMap].v
    BY <2>1 DEF Tasks
  <2>3. made' = made /\ taskMap' = None /\ task' = [task EXCEPT ![taskMap] = r]
    BY <1>1, <1>4, <2>1 DEF StopUpdate
  <2> HIDE DEF r
  <2>4. /\ task' \in [Updaters -> Tasks] /\ task'[taskMap] = r
        /\ \A u \in Updaters : u # taskMap => task'[u] = task[u]
    BY <1>1, <2>1, <2>2, <2>3
  <2>5. \A u \in Updaters : task'[u].running <=> taskMap' = u
    BY <1>1, <2>1, <2>2, <2>3, <2>4
  <2>6. TasksInv'
    BY <1>2, <2>1, <2>2, <2>4 DEF TasksInv
  <2>7. QED
    BY <1>1, <1>2, <2>3, <2>4, <2>5, <2>6
<1>5. CASE UNCHANGED <<taskMap, made, task>>
  BY <1>1, <1>2, <1>5 DEF TasksInv
<1>6. QED
  BY <1>3, <1>4, <1>5 DEF ScheduleUpdate, StopUpdate, updater

LEMMA CallsInv ==
    ASSUME IInv, NEW l \in Listeners, Subscribe(l) \/ Unsubscribe(l)
    PROVE  IInv' /\ UNCHANGED cache
<1>1. /\ UNCHANGED <<setting, srv, subscribed, pushes, cache, emit, channel, events,
                     redo, asking, faults>>
      /\ ScheduleUpdate \/ StopUpdate
  BY DEF Subscribe, Unsubscribe, server, emitter
<1>2. /\ task' \in [Updaters -> Tasks]
      /\ taskMap' \in {None} \cup Updaters /\ made' \in 0..MaxUpdaters
      /\ \A u \in Updaters : task'[u].running <=> taskMap' = u
      /\ WaitingApart' /\ TasksInv'
  BY <1>1, UpdaterKeeps
<1>3. registry' \in SUBSET Listeners
  BY DEF Subscribe, Unsubscribe, AddListener, RemoveListener, IInv, NamingTypeOK
<1>4. /\ heard' \in [Listeners -> {None} \cup Versions]
      /\ held' \in [Listeners -> {None} \cup Versions]
      /\ pc' \in [Listeners -> {"idle", "adding", "asking", "leaving"}]
  BY DEF Subscribe, Unsubscribe, IInv, NamingTypeOK
<1>5. QED
  BY <1>1, <1>2, <1>3, <1>4 DEF IInv, NamingTypeOK

\* What the callers do between their call and its end.
LEMMA CallingInv ==
    ASSUME IInv, NEW l \in Listeners,
           AddRedoTask(l) \/ SubscribeAnswered(l) \/ SubscribeFails(l)
             \/ UnsubscribeAnswered(l) \/ UnsubscribeFails(l)
    PROVE  IInv' /\ UNCHANGED cache
<1>1. UNCHANGED <<setting, srv, pushes, cache, emit, channel, registry, events, heard,
                  held, taskMap, made, task>>
  BY DEF AddRedoTask, SubscribeAnswered, SubscribeFails, UnsubscribeAnswered,
         UnsubscribeFails, server, emitter, observer, updater
<1>2. WaitingApart' /\ TasksInv'
  BY <1>1, OthersKeep
<1>3. pc' \in [Listeners -> {"idle", "adding", "asking", "leaving"}]
  BY DEF AddRedoTask, SubscribeAnswered, SubscribeFails, UnsubscribeAnswered,
         UnsubscribeFails, IInv, NamingTypeOK
<1>4. redo' \in BOOLEAN /\ asking' \in BOOLEAN /\ subscribed' \in BOOLEAN
  BY DEF AddRedoTask, SubscribeAnswered, SubscribeFails, UnsubscribeAnswered,
         UnsubscribeFails, server, IInv, NamingTypeOK
<1>5. faults' \in 0..MaxFaults
  <2>1. faults \in 0..MaxFaults
    BY DEF IInv, NamingTypeOK
  <2>2. faults' = faults \/ (faults < MaxFaults /\ faults' = faults + 1)
    BY DEF AddRedoTask, SubscribeAnswered, SubscribeFails, UnsubscribeAnswered,
           UnsubscribeFails, Fail
  <2>3. QED
    BY <2>1, <2>2, Numbers
<1>6. NamingTypeOK'
  BY <1>1, <1>3, <1>4, <1>5 DEF IInv, NamingTypeOK
<1>7. QED
  BY <1>1, <1>2, <1>6 DEF IInv

-----------------------------------------------------------------------------
(* Recursion and induction over the positions of a list.                   *)

LEMMA Least ==
    ASSUME NEW T \in SUBSET Nat, T # {}
    PROVE  \E n \in T : \A m \in T : n <= m
<1> DEFINE R == OpToRel(<, Nat)
<1>1. PICK n \in T : \A m \in T : ~ (<<m, n>> \in R)
  BY WFMin, NatLessThanWellFounded
<1>2. \A m \in Nat : m < n => <<m, n>> \in R
  BY DEF OpToRel
<1> HIDE DEF R
<1>3. ASSUME NEW m \in T PROVE n <= m
  <2>1. ~(m < n) /\ m \in Nat /\ n \in Nat
    BY <1>1, <1>2
  <2>2. QED
    BY <2>1
<1>4. QED
  BY <1>3

\* A set with 0 and, up to N, the next to each of its numbers has all up to N.
LEMMA UpTo ==
    ASSUME NEW N \in Nat, NEW T, 0 \in T, \A n \in 1..N : n - 1 \in T => n \in T
    PROVE  \A n \in 0..N : n \in T
<1> DEFINE F == {n \in 0..N : n \notin T}
<1>1. SUFFICES ASSUME F # {} PROVE FALSE
  OBVIOUS
<1>2. PICK n \in F : \A m \in F : n <= m
  <2>1. F \in SUBSET Nat
    OBVIOUS
  <2> HIDE DEF F
  <2>2. QED
    BY <1>1, <2>1, Least
<1>3. n \in 1..N /\ n \notin T
  BY <1>2
<1>4. n - 1 \in 0..N /\ n - 1 \notin F
  BY <1>2, <1>3
<1>5. QED
  BY <1>3, <1>4

\* f goes from base one step at a time.
Steps(f, N, step, base) ==
    f = [n \in 0..N |-> IF n = 0 THEN base ELSE step[n][f[n - 1]]]

\* There is such a function, for any steps on a set of values.
LEMMA Recursion ==
    ASSUME NEW V, NEW N \in Nat, NEW step \in [1..N -> [V -> V]], NEW base \in V
    PROVE  \E f \in [0..N -> V] : Steps(f, N, step, base)
<1> DEFINE Solves(k, f) ==
              /\ f \in [0..k -> V] /\ f[0] = base
              /\ \A n \in 1..k : f[n] = step[n][f[n - 1]]
           T == {k \in 0..N : \E f : Solves(k, f)}
<1>1. 0 \in T
  <2> DEFINE f == [n \in 0..0 |-> base]
  <2>1. Solves(0, f)
    OBVIOUS
  <2> HIDE DEF f, Solves
  <2>2. QED
    BY <2>1
<1>2. ASSUME NEW k \in 1..N, k - 1 \in T PROVE k \in T
  <2>1. PICK f : Solves(k - 1, f)
    BY <1>2
  <2> DEFINE g == [n \in 0..k |-> IF n = k THEN step[k][f[k - 1]] ELSE f[n]]
  <2>2. /\ k \in Nat /\ k # 0 /\ k \in 0..N /\ k - 1 \in 0..(k - 1)
        /\ \A n \in 0..k : n # k => n \in 0..(k - 1)
        /\ \A n \in 1..k : n - 1 \in 0..(k - 1) /\ n - 1 # k /\ n - 1 \in 0..k
        /\ \A n \in 1..k : n # k => n \in 1..(k - 1)
    OBVIOUS
  <2>3. g \in [0..k -> V] /\ g[0] = base
    BY <2>1, <2>2
  <2>4. \A n \in 1..k : g[n] = step[n][g[n - 1]]
    BY <2>1, <2>2
  <2>5. Solves(k, g)
    BY <2>3, <2>4
  <2> HIDE DEF g, Solves
  <2>6. QED
    BY <2>2, <2>5
<1>3. N \in T
  <2> HIDE DEF T
  <2>1. \A k \in 0..N : k \in T
    BY <1>1, <1>2, UpTo
  <2>2. QED
    BY <2>1
<1>4. PICK f : Solves(N, f)
  BY <1>3
<1>5. f = [n \in 0..N |-> f[n]]
  BY <1>4
<1>6. \A n \in 0..N : f[n] = IF n = 0 THEN base ELSE step[n][f[n - 1]]
  BY <1>4
<1>7. Steps(f, N, step, base)
  BY <1>5, <1>6 DEF Steps
<1>8. QED
  BY <1>4, <1>7

-----------------------------------------------------------------------------
(* The selection of instances.                                             *)

\* The ends of the shares: each is a share above the one before.
LEMMA CumulativeFacts ==
    ASSUME NEW items, Len(items) \in Nat,
           \A n \in 1..Len(items) : items[n].weight \in Nat
    PROVE  /\ Cumulative(items) \in [0..Len(items) -> Nat]
           /\ Cumulative(items)[0] = 0
           /\ \A n \in 1..Len(items) : Cumulative(items)[n]
                                          = Cumulative(items)[n - 1] + Grain * items[n].weight
<1> DEFINE N == Len(items)
           step == [n \in 1..N |-> [x \in Nat |-> x + Grain * items[n].weight]]
           Def(f) == [n \in 0..N |-> IF n = 0 THEN 0 ELSE f[n - 1] + Grain * items[n].weight]
           C == CHOOSE f : f = Def(f)
<1>1. step \in [1..N -> [Nat -> Nat]]
  BY ChooserAssumption
<1>2. PICK f \in [0..N -> Nat] : Steps(f, N, step, 0)
  <2> HIDE DEF step, N
  <2>1. N \in Nat
    BY DEF N
  <2>2. QED
    BY <1>1, <2>1, Recursion
<1>3. f = Def(f)
  <2>1. \A n \in 1..N : n - 1 \in 0..N /\ f[n - 1] \in Nat
    BY <1>2
  <2>2. \A n \in 0..N : n # 0 => n \in 1..N
    OBVIOUS
  <2>3. \A n \in 1..N : step[n][f[n - 1]] = f[n - 1] + Grain * items[n].weight
    BY <2>1
  <2> HIDE DEF step
  <2>4. QED
    BY <1>2, <2>2, <2>3 DEF Steps
<1>4. C = Def(C)
  <2> HIDE DEF Def
  <2>1. QED
    BY <1>3
<1>5. Cumulative(items) = C
  BY DEF Cumulative
<1> HIDE DEF C
<1>6. C[0] = 0 /\ \A n \in 1..N : C[n] = C[n - 1] + Grain * items[n].weight
  BY <1>4
<1>7. \A n \in 0..N : C[n] \in Nat
  <2> DEFINE T == {n \in 0..N : C[n] \in Nat}
  <2>1. 0 \in T
    BY <1>6
  <2>2. ASSUME NEW n \in 1..N, n - 1 \in T PROVE n \in T
    <3> DEFINE w == items[n].weight
    <3>1. w \in Nat /\ Grain \in Nat /\ C[n - 1] \in Nat /\ n \in 0..N
      BY <2>2, ChooserAssumption
    <3>2. C[n] = C[n - 1] + Grain * w
      BY <1>6
    <3> HIDE DEF w
    <3>3. C[n] \in Nat
      BY <3>1, <3>2
    <3>4. QED
      BY <3>1, <3>3
  <2> HIDE DEF T
  <2>3. \A n \in 0..N : n \in T
    BY <2>1, <2>2, UpTo
  <2>4. QED
    BY <2>3 DEF T
<1>8. QED
  BY <1>4, <1>5, <1>6, <1>7

\* A later share ends later.
LEMMA CumulativeGrows ==
    ASSUME NEW items, Len(items) \in Nat,
           \A n \in 1..Len(items) : items[n].weight \in Nat \ {0}
    PROVE  /\ \A n \in 1..Len(items) : Cumulative(items)[n - 1] < Cumulative(items)[n]
           /\ \A n \in 0..Len(items) : \A m \in 0..n :
                 Cumulative(items)[m] <= Cumulative(items)[n]
<1> DEFINE N == Len(items)
           C == Cumulative(items)
<1>1. /\ C \in [0..N -> Nat]
      /\ \A n \in 1..N : C[n] = C[n - 1] + Grain * items[n].weight
  BY CumulativeFacts
<1> HIDE DEF C
<1>2. ASSUME NEW n \in 1..N PROVE C[n - 1] < C[n]
  <2> DEFINE w == items[n].weight
  <2>1. /\ w \in Nat \ {0} /\ Grain \in Nat \ {0} /\ C[n - 1] \in Nat
        /\ C[n] = C[n - 1] + Grain * w
    BY <1>1, ChooserAssumption
  <2> HIDE DEF w
  <2>2. Grain * w > 0
    BY <2>1
  <2>3. Grain * w \in Nat
    BY <2>1
  <2>4. QED
    BY <2>1, <2>2, <2>3
<1>3. \A n \in 0..N : \A m \in 0..n : C[m] <= C[n]
  <2> DEFINE T == {n \in 0..N : \A m \in 0..n : C[m] <= C[n]}
  <2>1. 0 \in T
    BY <1>1
  <2>2. ASSUME NEW n \in 1..N, n - 1 \in T PROVE n \in T
    <3>1. ASSUME NEW m \in 0..n PROVE C[m] <= C[n]
      <4>1. CASE m = n
        BY <1>1, <4>1
      <4>2. CASE m # n
        <5>1. m \in 0..(n - 1) /\ m \in 0..N /\ n - 1 \in 0..N /\ n \in 0..N
          BY <4>2
        <5>2. C[m] <= C[n - 1] /\ C[n - 1] < C[n]
          BY <1>2, <2>2, <5>1
        <5>3. C[m] \in Nat /\ C[n - 1] \in Nat /\ C[n] \in Nat
          BY <1>1, <5>1
        <5>4. QED
          BY <5>2, <5>3
      <4>3. QED
        BY <4>1, <4>2
    <3>2. QED
      BY <3>1
  <2> HIDE DEF T
  <2>3. \A n \in 0..N : n \in T
    BY <2>1, <2>2, UpTo
  <2>4. QED
    BY <2>3 DEF T
<1>4. QED
  BY <1>2, <1>3 DEF C

LEMMA AppendRange ==
    ASSUME NEW S, NEW k \in Seq(S), NEW h \in S
    PROVE  /\ Append(k, h) \in Seq(S) /\ Range(Append(k, h)) = Range(k) \cup {h}
           /\ IsInjective(k) /\ h \notin Range(k) => IsInjective(Append(k, h))
<1> DEFINE a == Append(k, h)
<1>1. /\ a \in Seq(S) /\ Len(k) \in Nat /\ DOMAIN k = 1..Len(k)
      /\ DOMAIN a = 1..(Len(k) + 1) /\ a[Len(k) + 1] = h
      /\ \A n \in DOMAIN k : a[n] = k[n]
  BY AppendProperties
<1> HIDE DEF a
<1>2. \A n : n \in DOMAIN a <=> n \in DOMAIN k \/ n = Len(k) + 1
  BY <1>1
<1>3. Range(a) = Range(k) \cup {h}
  BY <1>1, <1>2 DEF Range
<1>4. ASSUME IsInjective(k), h \notin Range(k) PROVE IsInjective(a)
  BY <1>1, <1>2, <1>4 DEF Range, IsInjective
<1>5. QED
  BY <1>1, <1>3, <1>4 DEF a

\* What select_instances_async has kept of the first n instances.
IsKept(k, hosts, n) ==
    /\ k \in Seq(Range(hosts))
    /\ Range(k) = {hosts[m] : m \in {l \in 1..n : Usable(hosts[l], TRUE)}}
    /\ IsInjective(hosts) => IsInjective(k)

LEMMA SelectableFacts ==
    ASSUME NEW hosts, hosts \in Seq(Range(hosts))
    PROVE  IsKept(Selectable(hosts, TRUE), hosts, Len(hosts))
<1> DEFINE N == Len(hosts)
           V == Seq(Range(hosts))
           step == [n \in 1..N |-> [k \in V |->
                      IF Usable(hosts[n], TRUE) THEN Append(k, hosts[n]) ELSE k]]
           Def(f) == [n \in 0..N |->
                        IF n = 0 THEN << >>
                        ELSE IF Usable(hosts[n], TRUE) THEN Append(f[n - 1], hosts[n])
                        ELSE f[n - 1]]
           K == CHOOSE f : f = Def(f)
<1>1. N \in Nat /\ DOMAIN hosts = 1..N /\ << >> \in V
      /\ \A n \in 1..N : hosts[n] \in Range(hosts)
  BY DEF Range
<1>2. step \in [1..N -> [V -> V]]
  <2>1. ASSUME NEW n \in 1..N, NEW k \in V PROVE Append(k, hosts[n]) \in V
    BY <1>1, AppendProperties
  <2> HIDE DEF V, N
  <2>2. QED
    BY <2>1
<1>3. PICK f \in [0..N -> V] : Steps(f, N, step, << >>)
  <2> HIDE DEF step, N, V
  <2>1. QED
    BY <1>1, <1>2, Recursion
<1>4. f = Def(f)
  <2>1. \A n \in 1..N : n - 1 \in 0..N
    BY <1>1
  <2>2. \A n \in 0..N : n # 0 => n \in 1..N
    BY <1>1
  <2> HIDE DEF V, N
  <2>3. \A n \in 1..N : step[n][f[n - 1]]
           = IF Usable(hosts[n], TRUE) THEN Append(f[n - 1], hosts[n]) ELSE f[n - 1]
    BY <1>3, <2>1
  <2> HIDE DEF step
  <2>4. QED
    BY <1>3, <2>2, <2>3 DEF Steps
<1>5. K = Def(K)
  <2> HIDE DEF Def
  <2>1. QED
    BY <1>4
<1>6. Selectable(hosts, TRUE) = K[N]
  BY DEF Selectable
<1> HIDE DEF K
<1>7. /\ K[0] = << >>
      /\ \A n \in 1..N : K[n] = IF Usable(hosts[n], TRUE) THEN Append(K[n - 1], hosts[n])
                                ELSE K[n - 1]
  <2>1. 0 \in 0..N /\ \A n \in 1..N : n \in 0..N /\ n # 0
    BY <1>1
  <2>2. \A n \in 0..N : K[n] = Def(K)[n]
    BY <1>5
  <2> HIDE DEF N
  <2>3. QED
    BY <2>1, <2>2
<1> DEFINE T == {n \in 0..N : IsKept(K[n], hosts, n)}
<1>8. 0 \in T
  <2>1. Range(<< >>) = {} /\ IsInjective(<< >>)
    BY DEF Range, IsInjective
  <2>2. {hosts[m] : m \in {l \in 1..0 : Usable(hosts[l], TRUE)}} = {}
    OBVIOUS
  <2>3. IsKept(K[0], hosts, 0)
    BY <1>1, <1>7, <2>1, <2>2 DEF IsKept
  <2>4. QED
    BY <1>1, <2>3
<1>9. ASSUME NEW n \in 1..N, n - 1 \in T PROVE n \in T
  <2>1. IsKept(K[n - 1], hosts, n - 1) /\ n \in 0..N
    BY <1>1, <1>9
  <2> HIDE DEF T
  <2>2. \A l : l \in 1..n <=> l \in 1..(n - 1) \/ l = n
    BY <1>1
  <2>3. CASE ~Usable(hosts[n], TRUE)
    <3>1. {l \in 1..n : Usable(hosts[l], TRUE)} = {l \in 1..(n - 1) : Usable(hosts[l], TRUE)}
      BY <2>2, <2>3
    <3>2. K[n] = K[n - 1]
      BY <1>7, <2>3
    <3>3. IsKept(K[n], hosts, n)
      BY <2>1, <3>1, <3>2 DEF IsKept
    <3>4. QED
      BY <2>1, <3>3 DEF T
  <2>4. CASE Usable(hosts[n], TRUE)
    <3> DEFINE k == K[n - 1]
               h == hosts[n]
    <3>1. K[n] = Append(k, h) /\ h \in Range(hosts)
      BY <1>1, <1>7, <2>4
    <3>2. /\ k \in Seq(Range(hosts)) /\ (IsInjective(hosts) => IsInjective(k))
          /\ Range(k) = {hosts[m] : m \in {l \in 1..(n - 1) : Usable(hosts[l], TRUE)}}
      BY <2>1 DEF IsKept
    <3>3. {hosts[m] : m \in {l \in 1..n : Usable(hosts[l], TRUE)}} = Range(k) \cup {h}
      BY <2>2, <2>4, <3>2
    <3>4. IsInjective(hosts) => h \notin Range(k)
      <4>1. \A l \in 1..(n - 1) : l # n /\ l \in DOMAIN hosts
        BY <1>1
      <4>2. QED
        BY <1>1, <3>2, <4>1 DEF IsInjective
    <3> HIDE DEF k, h
    <3>5. /\ Append(k, h) \in Seq(Range(hosts)) /\ Range(Append(k, h)) = Range(k) \cup {h}
          /\ (IsInjective(k) /\ h \notin Range(k) => IsInjective(Append(k, h)))
      BY <3>1, <3>2, AppendRange
    <3>6. IsKept(K[n], hosts, n)
      BY <3>1, <3>2, <3>3, <3>4, <3>5 DEF IsKept
    <3>7. QED
      BY <2>1, <3>6 DEF T
  <2>5. QED
    BY <2>3, <2>4
<1>10. N \in T
  <2> HIDE DEF T
  <2>1. \A n \in 0..N : n \in T
    BY <1>1, <1>8, <1>9, UpTo
  <2>2. QED
    BY <1>1, <2>1
<1>11. QED
  BY <1>6, <1>10

\* Items to choose from.
AreItems(items) ==
    /\ items \in Seq(Range(items))
    /\ \A n \in 1..Len(items) : items[n].weight \in Nat \ {0}

\* The draw d belongs to the share of the k-th item.
InShare(items, k, d) ==
    d <= Cumulative(items)[k] /\ (k = 1 \/ Cumulative(items)[k - 1] < d)

LEMMA ItemsFacts ==
    ASSUME NEW items, AreItems(items)
    PROVE  /\ Len(items) \in Nat /\ DOMAIN items = 1..Len(items)
           /\ Cumulative(items) \in [0..Len(items) -> Nat]
           /\ Cumulative(items)[0] = 0
           /\ \A n \in 1..Len(items) : Cumulative(items)[n - 1] < Cumulative(items)[n]
           /\ \A n \in 0..Len(items) : \A m \in 0..n :
                 Cumulative(items)[m] <= Cumulative(items)[n]
<1>1. Len(items) \in Nat /\ DOMAIN items = 1..Len(items)
  BY DEF AreItems
<1>2. \A n \in 1..Len(items) : items[n].weight \in Nat \ {0} /\ items[n].weight \in Nat
  BY DEF AreItems
<1>3. QED
  BY <1>1, <1>2, CumulativeFacts, CumulativeGrows

\* choose: a draw takes the item to whose share it belongs.
LEMMA Chosen ==
    ASSUME NEW items, AreItems(items), NEW d \in Draws(items)
    PROVE  \E k \in 1..Len(items) : InShare(items, k, d) /\ Choose(items, d) = items[k]
<1> DEFINE N == Len(items)
           C == Cumulative(items)
           notLess == {n \in DOMAIN items : d <= C[n]}
<1>1. /\ N \in Nat /\ DOMAIN items = 1..N /\ C \in [0..N -> Nat] /\ C[0] = 0
      /\ d \in 0..(C[N] - 1)
  BY ItemsFacts DEF Draws
<1>2. Choose(items, d) = IF items = << >> THEN NoInstance
                         ELSE IF notLess = {} THEN Last(items) ELSE items[Min(notLess)]
  BY DEF Choose
<1> HIDE DEF N, C
<1>3. N \in 1..N /\ C[N] \in Nat /\ d \in Nat /\ d <= C[N]
  <2>1. C[N] \in Nat /\ d \in Nat /\ d < C[N]
    BY <1>1
  <2>2. N # 0
    BY <1>1, <2>1
  <2>3. QED
    BY <1>1, <2>1, <2>2
<1>4. items # << >> /\ N \in notLess /\ notLess \in SUBSET Nat
  BY <1>1, <1>3 DEF N
<1> DEFINE k == Min(notLess)
<1>5. k \in notLess /\ \A n \in notLess : k <= n
  <2> HIDE DEF notLess
  <2>1. \E n \in notLess : \A m \in notLess : n <= m
    BY <1>4, Least
  <2>2. QED
    BY <2>1 DEF Min
<1> HIDE DEF k
<1>6. k \in 1..N /\ d <= C[k] /\ Choose(items, d) = items[k]
  BY <1>1, <1>2, <1>4, <1>5 DEF k
<1>7. k = 1 \/ C[k - 1] < d
  <2>1. SUFFICES ASSUME k # 1 PROVE C[k - 1] < d
    OBVIOUS
  <2>2. k - 1 \in 1..N /\ k - 1 \in 0..N /\ ~(k <= k - 1)
    BY <1>1, <1>6, <2>1
  <2>3. k - 1 \notin notLess
    BY <1>5, <2>2
  <2>4. ~(d <= C[k - 1]) /\ C[k - 1] \in Nat
    BY <1>1, <2>2, <2>3
  <2>5. QED
    BY <1>3, <2>4
<1>8. QED
  BY <1>6, <1>7 DEF InShare, N, C

\* No draw belongs to two shares.
LEMMA SharesApart ==
    ASSUME NEW items, AreItems(items), NEW k \in 1..Len(items), NEW l \in 1..Len(items),
           NEW d \in Nat, InShare(items, k, d), InShare(items, l, d)
    PROVE  k = l
<1> DEFINE N == Len(items)
           C == Cumulative(items)
<1>1. /\ N \in Nat /\ C \in [0..N -> Nat]
      /\ \A n \in 0..N : \A m \in 0..n : C[m] <= C[n]
  BY ItemsFacts
<1>2. d <= C[k] /\ (k = 1 \/ C[k - 1] < d) /\ d <= C[l] /\ (l = 1 \/ C[l - 1] < d)
  BY DEF InShare
<1> HIDE DEF C
<1>3. ASSUME NEW i \in 1..N, NEW j \in 1..N, d <= C[i], j = 1 \/ C[j - 1] < d
      PROVE  j <= i
  <2>1. SUFFICES ASSUME i < j PROVE FALSE
    BY <1>1
  <2>2. j # 1 /\ j - 1 \in 0..N /\ i \in 0..(j - 1) /\ i \in 0..N
    BY <1>1, <2>1
  <2>3. C[i] <= C[j - 1] /\ C[i] \in Nat /\ C[j - 1] \in Nat
    BY <1>1, <2>2
  <2>4. QED
    BY <1>3, <2>2, <2>3
<1>4. k <= l /\ l <= k
  BY <1>2, <1>3
<1>5. QED
  BY <1>4

LEMMA WeightType ==
    ASSUME NEW items, AreItems(items), NEW k \in 1..Len(items)
    PROVE  Grain * items[k].weight \in Nat
<1> DEFINE w == items[k].weight
<1>1. w \in Nat /\ Grain \in Nat
  BY ChooserAssumption DEF AreItems
<1> HIDE DEF w
<1>2. Grain * w \in Nat
  BY <1>1
<1>3. QED
  BY <1>2 DEF w

\* A share has as many draws as its weight says, give or take one.
LEMMA ShareSize ==
    ASSUME NEW items, AreItems(items), NEW k \in 1..Len(items)
    PROVE  LET size == Cardinality({d \in Draws(items) : InShare(items, k, d)}) IN
           /\ size + 1 >= Grain * items[k].weight
           /\ size <= Grain * items[k].weight + 1
<1> DEFINE N == Len(items)
           C == Cumulative(items)
           w == Grain * items[k].weight
           lo == IF k = 1 THEN 0 ELSE C[k - 1] + 1
           hi == IF k = N THEN C[N] - 1 ELSE C[k]
           S == {d \in Draws(items) : InShare(items, k, d)}
<1>1. /\ N \in Nat /\ C \in [0..N -> Nat] /\ C[0] = 0
      /\ \A n \in 1..N : C[n - 1] < C[n]
      /\ \A n \in 0..N : \A m \in 0..n : C[m] <= C[n]
  BY ItemsFacts
<1>2. C[k] = C[k - 1] + w
  <2>1. \A n \in 1..Len(items) : items[n].weight \in Nat
    BY DEF AreItems
  <2>2. QED
    BY <1>1, <2>1, CumulativeFacts
<1>3. S = {d \in 0..(C[N] - 1) : d <= C[k] /\ (k = 1 \/ C[k - 1] < d)}
  BY DEF Draws, InShare
<1> HIDE DEF N, C, w, S
<1>4. k \in 1..N /\ k \in 0..N /\ k - 1 \in 0..N /\ N \in 0..N
  BY <1>1 DEF N
<1>5. /\ C[k] \in Nat /\ C[k - 1] \in Nat /\ C[N] \in Nat /\ C[k - 1] < C[k]
      /\ C[k] <= C[N] /\ (k = 1 => C[k - 1] = 0)
  BY <1>1, <1>4
<1>6. k # N => C[k] < C[N]
  <2>1. SUFFICES ASSUME k # N PROVE C[k] < C[N]
    OBVIOUS
  <2>2. k + 1 \in 1..N /\ k + 1 \in 0..N /\ (k + 1) - 1 = k /\ k + 1 \in 0..N
    BY <1>1, <1>4, <2>1
  <2>3. C[k] < C[k + 1] /\ C[k + 1] <= C[N] /\ C[k + 1] \in Nat
    BY <1>1, <1>4, <2>2
  <2>4. QED
    BY <1>5, <2>3
<1>7. lo \in Int /\ hi \in Int
  BY <1>5
<1>8. S = lo..hi
  <2>1. \A d : d \in S <=> d \in lo..hi
    BY <1>3, <1>5, <1>6
  <2>2. QED
    BY <2>1, <1>3
<1>9. Cardinality(S) = IF lo > hi THEN 0 ELSE hi - lo + 1
  <2> HIDE DEF lo, hi
  <2>1. QED
    BY <1>7, <1>8, FS_Interval
<1>10. Cardinality(S) + 1 >= w /\ Cardinality(S) <= w + 1
  <2>1. w \in Int
    BY WeightType DEF w
  <2> DEFINE x == C[k - 1]
             y == C[k]
             z == C[N]
  <2>2. /\ x \in Nat /\ y \in Nat /\ z \in Nat /\ y = x + w /\ x < y /\ y <= z
        /\ (k = 1 => x = 0) /\ (k # N => y < z) /\ (k = N => y = z)
    BY <1>2, <1>5, <1>6
  <2>3. lo = (IF k = 1 THEN 0 ELSE x + 1) /\ hi = (IF k = N THEN z - 1 ELSE y)
    OBVIOUS
  <2> HIDE DEF x, y, z, lo, hi
  <2>4. hi - lo + 1 \in Nat /\ w <= (hi - lo + 1) + 1 /\ hi - lo + 1 <= w + 1
    BY <2>1, <2>2, <2>3
  <2>5. Cardinality(S) = hi - lo + 1
    BY <1>7, <1>9, <2>4
  <2>6. QED
    BY <1>7, <2>1, <2>4, <2>5
<1>11. QED
  BY <1>10 DEF w, S

LEMMA SelectedItems ==
    ASSUME NEW hosts, AreHosts(hosts)
    PROVE  /\ AreItems(Selectable(hosts, TRUE))
           /\ \A i : i \in Range(Selectable(hosts, TRUE)) <=> IsGood(hosts, i)
           /\ IsInjective(hosts) => IsInjective(Selectable(hosts, TRUE))
<1> DEFINE items == Selectable(hosts, TRUE)
<1>1. hosts \in Seq(Range(hosts)) /\ DOMAIN hosts = 1..Len(hosts)
      /\ \A i \in Range(hosts) : i.weight \in Nat /\ i.healthy \in BOOLEAN /\ i.enabled \in BOOLEAN
  BY DEF AreHosts
<1>2. IsKept(items, hosts, Len(hosts))
  BY <1>1, SelectableFacts
<1> HIDE DEF items
<1>3. \A i : i \in Range(items) <=> \E m \in DOMAIN hosts : Usable(hosts[m], TRUE) /\ i = hosts[m]
  BY <1>1, <1>2 DEF IsKept
<1>4. \A i : i \in Range(items) <=> IsGood(hosts, i)
  <2>1. \A i \in Range(hosts) : Usable(i, TRUE) <=> i.healthy /\ i.enabled /\ i.weight > 0
    BY <1>1 DEF Usable
  <2>2. \A i : i \in Range(hosts) <=> \E m \in DOMAIN hosts : i = hosts[m]
    BY DEF Range
  <2>3. QED
    BY <1>3, <2>1, <2>2 DEF IsGood
<1>5. AreItems(items)
  <2>1. /\ items \in Seq(Range(hosts)) /\ Len(items) \in Nat /\ DOMAIN items = 1..Len(items)
    BY <1>2 DEF IsKept
  <2>2. \A n \in 1..Len(items) : items[n] \in Range(items)
    BY <2>1 DEF Range
  <2>3. \A n \in 1..Len(items) : items[n].weight \in Nat \ {0}
    BY <1>1, <1>4, <2>2 DEF IsGood
  <2>4. items \in Seq(Range(items))
    <3>1. items \in [1..Len(items) -> Range(items)]
      BY <2>1, <2>2
    <3>2. ASSUME NEW k \in Nat, NEW V, NEW f \in [1..k -> V] PROVE f \in Seq(V)
      BY <3>2, SeqDef
    <3>3. QED
      BY <2>1, <3>1, <3>2
  <2>5. QED
    BY <2>3, <2>4 DEF AreItems
<1>6. QED
  BY <1>2, <1>4, <1>5 DEF IsKept, items

\* select_one_healthy_instance gives an instance that may be used, of a list of
\* any length and weights; and the lists that have one are not refused.
LEMMA SelectedIsGood ==
    ASSUME NEW hosts, AreHosts(hosts)
    PROVE  /\ \A d \in Draws(Selectable(hosts, TRUE)) : IsGood(hosts, SelectOne(hosts, d))
           /\ (\E i \in Range(hosts) : IsGood(hosts, i)) => Selectable(hosts, TRUE) # << >>
<1> DEFINE items == Selectable(hosts, TRUE)
<1>1. AreItems(items) /\ \A i : i \in Range(items) <=> IsGood(hosts, i)
  BY SelectedItems
<1>2. \A d : SelectOne(hosts, d) = Choose(items, d)
  BY DEF SelectOne
<1> HIDE DEF items
<1>3. ASSUME NEW d \in Draws(items) PROVE IsGood(hosts, SelectOne(hosts, d))
  <2>1. PICK k \in 1..Len(items) : Choose(items, d) = items[k]
    BY <1>1, Chosen
  <2>2. items[k] \in Range(items)
    BY <1>1, <2>1, ItemsFacts DEF Range
  <2>3. QED
    BY <1>1, <1>2, <2>1, <2>2
<1>4. Range(<< >>) = {}
  BY DEF Range
<1>5. QED
  BY <1>1, <1>3, <1>4 DEF items

\* ... in proportion to the weights, when no instance is listed twice.
LEMMA SelectedIsFair ==
    ASSUME NEW hosts, AreHosts(hosts), IsInjective(hosts)
    PROVE  Fair(hosts)
<1> DEFINE items == Selectable(hosts, TRUE)
<1>1. AreItems(items) /\ IsInjective(items)
  BY SelectedItems
<1>2. \A d : SelectOne(hosts, d) = Choose(items, d)
  BY DEF SelectOne
<1> HIDE DEF items
<1>3. ASSUME NEW i \in Range(items)
      PROVE  LET times == Cardinality({d \in Draws(items) : SelectOne(hosts, d) = i}) IN
             times + 1 >= Grain * i.weight /\ times <= Grain * i.weight + 1
  <2>1. PICK k \in 1..Len(items) : i = items[k]
    BY <1>1, ItemsFacts DEF Range
  <2>2. ASSUME NEW d \in Draws(items)
        PROVE  SelectOne(hosts, d) = i <=> InShare(items, k, d)
    <3>1. PICK l \in 1..Len(items) : InShare(items, l, d) /\ Choose(items, d) = items[l]
      BY <1>1, Chosen
    <3>2. items[l] = items[k] <=> l = k
      BY <1>1, ItemsFacts DEF IsInjective
    <3>3. d \in Nat
      BY DEF Draws
    <3>4. InShare(items, k, d) => l = k
      BY <1>1, <3>1, <3>3, SharesApart
    <3>5. QED
      BY <1>2, <2>1, <3>1, <3>2, <3>4
  <2>3. {d \in Draws(items) : SelectOne(hosts, d) = i}
          = {d \in Draws(items) : InShare(items, k, d)}
    BY <2>2
  <2>4. QED
    BY <1>1, <2>1, <2>3, ShareSize
<1>4. QED
  BY <1>3 DEF Fair, items

-----------------------------------------------------------------------------
(* The theorems.                                                           *)

LEMMA StepInv ==
    ASSUME IInv, [Next]_vars
    PROVE  IInv' /\ cache <= cache'
<1>1. cache <= cache
  BY Numbers DEF IInv, NamingTypeOK, None
<1>2. CASE Change \/ SessionLost \/ Resubscribe \/ SubscribedInBackground
  BY <1>1, <1>2, ServerInv
<1>3. CASE HandlePush
  BY <1>3, HandlePushInv
<1>4. CASE Observing
  BY <1>1, <1>4, ObserveInv, CallListenerInv DEF Observing
<1>5. ASSUME NEW t \in Updaters, UpdateTask(t) \/ RefreshFails(t)
      PROVE  IInv' /\ cache <= cache'
  BY <1>1, <1>5, RefreshInv, AnswerRefreshInv, RefreshedInv, QuitInv, RefreshFailsInv
     DEF UpdateTask
<1>6. ASSUME NEW l \in Listeners,
             \/ Subscribe(l) \/ Unsubscribe(l) \/ Calling(l)
             \/ SubscribeFails(l) \/ UnsubscribeFails(l)
      PROVE  IInv' /\ cache <= cache'
  BY <1>1, <1>6, CallsInv, CallingInv DEF Calling
<1>7. CASE UNCHANGED vars
  <2>1. UNCHANGED <<setting, srv, subscribed, pushes, cache, emit, channel, registry, events,
                    heard, held, taskMap, made, task, redo, asking, pc, faults>>
    BY <1>7 DEF vars, server, emitter, observer, updater, calls
  <2>2. NamingTypeOK'
    BY <2>1 DEF IInv, NamingTypeOK
  <2>3. QED
    BY <1>1, <2>1, <2>2, OthersKeep DEF IInv
<1>8. QED
  BY <1>2, <1>3, <1>4, <1>5, <1>6, <1>7 DEF Next

LEMMA InductiveInv == Spec => []IInv
<1>1. IInv /\ [Next]_vars => IInv'
  BY StepInv
<1>2. QED
  BY <1>1, InitInv, PTL DEF Spec

\* Whatever the server, the callers and the update tasks do: the channel holds
\* no more than its size and one waiting change for each producer, and of the
\* update tasks exactly the one of the map is meant to run.
THEOREM NamingTypeCorrect == Spec => []NamingTypeOK
<1>1. IInv => NamingTypeOK
  BY DEF IInv
<1>2. QED
  BY <1>1, InductiveInv, PTL

\* The cache never takes an older version of a service for the one it holds, in
\* whatever order pushes and answers of queries arrive.
THEOREM CacheNeverGoesBackTheorem == Spec => CacheNeverGoesBack
<1>1. IInv /\ [Next]_vars => [cache <= cache']_vars
  BY StepInv
<1>2. QED
  BY <1>1, InductiveInv, PTL DEF Spec, CacheNeverGoesBack

LEMMA HostedStep ==
    ASSUME cache # None => Hosts[cache] # NoHosts, [Next]_vars
    PROVE  cache' # None => Hosts[cache'] # NoHosts
<1>1. ASSUME NEW p, NEW v, Emit(p, v)
      PROVE  cache' = cache \/ (cache' = v /\ Hosts[v] # NoHosts)
  BY <1>1 DEF Emit, IsNews, IsEmptyOrErrorPush
<1>2. CASE HandlePush
  BY <1>1, <1>2 DEF HandlePush
<1>3. ASSUME NEW t \in Updaters, Refreshed(t)
      PROVE  cache' # None => Hosts[cache'] # NoHosts
  BY <1>1, <1>3 DEF Refreshed
<1>4. CASE Change \/ SessionLost \/ Resubscribe \/ SubscribedInBackground \/ Observing
  BY <1>4 DEF Change, SessionLost, Resubscribe, SubscribedInBackground, Observing, Observe,
              CallListener, emitter
<1>5. ASSUME NEW t \in Updaters, Refresh(t) \/ AnswerRefresh(t) \/ Quit(t) \/ RefreshFails(t)
      PROVE  cache' = cache
  BY <1>5 DEF Refresh, AnswerRefresh, Quit, RefreshFails, emitter
<1>6. ASSUME NEW l \in Listeners,
             \/ Subscribe(l) \/ Unsubscribe(l) \/ Calling(l)
             \/ SubscribeFails(l) \/ UnsubscribeFails(l)
      PROVE  cache' = cache
  BY <1>6 DEF Subscribe, Unsubscribe, Calling, AddRedoTask, SubscribeAnswered,
              UnsubscribeAnswered, SubscribeFails, UnsubscribeFails, emitter
<1>7. CASE UNCHANGED vars
  BY <1>7 DEF vars, emitter
<1>8. QED
  BY <1>2, <1>3, <1>4, <1>5, <1>6, <1>7 DEF Next, UpdateTask

\* No list of hosts names an instance twice.
NoTwins == \A v \in Versions : Hosts[v] # NoHosts => IsInjective(Hosts[v])

\* Whatever lists of whatever length and weights the cache comes to hold: an
\* instance that is selected may be used, there is one when there can be, and
\* each is chosen by as many draws as its weight says, give or take one
\* (select_instances_async, RandomWeightChooser).
THEOREM SelectionSoundTheorem ==
    ASSUME NoTwins
    PROVE  Spec => []SelectionSound
<1> DEFINE Hosted == cache # None => Hosts[cache] # NoHosts
<1>1. Spec => []Hosted
  <2>1. Init => Hosted
    BY DEF Init
  <2>2. Hosted /\ [Next]_vars => Hosted'
    BY HostedStep
  <2> HIDE DEF Hosted
  <2>3. QED
    BY <2>1, <2>2, PTL DEF Spec
<1>2. ASSUME NEW v \in Versions, Hosts[v] # NoHosts
      PROVE  SoundFor(v)
  <2>1. AreHosts(Hosts[v]) /\ IsInjective(Hosts[v])
    BY <1>2, NamingAssumption DEF NoTwins
  <2>2. QED
    BY <2>1, SelectedIsGood, SelectedIsFair DEF SoundFor
<1>3. NamingTypeOK /\ Hosted => SelectionSound
  BY <1>2 DEF NamingTypeOK, SelectionSound, SoundVersions
<1> HIDE DEF Hosted
<1>4. QED
  BY <1>1, <1>3, NamingTypeCorrect, PTL

\* The types and bounds of what the handler, the observer and the updater share,
\* and the selection from whatever the cache has come to hold.
THEOREM NamingInvTheorem ==
    ASSUME NoTwins
    PROVE  Spec => []NamingInv
<1>1. NamingTypeOK /\ SelectionSound => NamingInv
  BY DEF NamingInv
<1>2. QED
  BY <1>1, NamingTypeCorrect, SelectionSoundTheorem, PTL
=============================================================================
