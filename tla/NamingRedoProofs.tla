-------------------------- MODULE NamingRedoProofs --------------------------
(***************************************************************************)
(* Theorems of Listeners and of NamingRedo, for any number of attempts and *)
(* every set of services, whatever the sessions, the server and the order  *)
(* of the tasks do.                                                        *)
(***************************************************************************)
EXTENDS NamingRedo, TLAPS

-----------------------------------------------------------------------------
(* The listeners of the connection.                                        *)

\* The only id that can be up is the latest attempt's, and while it is not up
\* no receiver has seen it.
SeenInv ==
    /\ watch \in {None, opened}
    /\ \A k \in Kinds : prev[k] <= opened
    /\ watch = None => \A k \in Kinds : prev[k] < opened \/ prev[k] = None

\* The id reported lost is of an attempt before the latest, and before the one
\* that will be reported next.
LostInv ==
    /\ told["disconnected"] # None => told["disconnected"] < opened
    /\ prev["disconnected"] # None => told["disconnected"] < prev["disconnected"]

\* The latest id is reported connected only once its receiver has seen it.
ConnectedInv ==
    /\ told["connected"] <= opened
    /\ told["connected"] = opened => opened = 0 \/ (watch = opened /\ prev["connected"] = opened)

ListenersInv == ListenersTypeOK /\ SeenInv /\ LostInv /\ ConnectedInv

LEMMA Attempts ==
    /\ MaxSessions \in Nat
    /\ "connected" \in Kinds /\ "disconnected" \in Kinds /\ "connected" # "disconnected"
    /\ \A k \in Kinds : k = "connected" \/ k = "disconnected"
  BY SessionAssumption DEF Kinds

LEMMA ListenersNumbers ==
    ASSUME ListenersInv
    PROVE  /\ watch \in Nat /\ opened \in Nat /\ opened <= MaxSessions
           /\ \A k \in Kinds : prev[k] \in Nat /\ told[k] \in Nat
  BY Attempts DEF ListenersInv, ListenersTypeOK, SessionTypeOK

LEMMA ListenersInit == Init => ListenersInv
<1> SUFFICES ASSUME Init PROVE ListenersInv
  OBVIOUS
<1>1. /\ opened = 0 /\ watch = 0 /\ unread = {}
      /\ prev = [k \in Kinds |-> 0] /\ told = [k \in Kinds |-> 0]
  BY DEF Init, SessionInit, None
<1>2. QED
  BY <1>1, Attempts
  DEF ListenersInv, ListenersTypeOK, SessionTypeOK, SeenInv, LostInv, ConnectedInv, None

\* What a receiver sees.
LEMMA ObserveFacts ==
    ASSUME ListenersInv, NEW k \in Kinds, Observe(k), UNCHANGED sessionVars
    PROVE  /\ prev' \in [Kinds -> 0..MaxSessions] /\ prev'[k] = watch
           /\ \A j \in Kinds : j # k => prev'[j] = prev[j]
           /\ unread' \in SUBSET Kinds
           /\ watch' = watch /\ opened' = opened
           /\ SeenInv'
<1>1. /\ prev \in [Kinds -> 0..MaxSessions] /\ watch \in 0..MaxSessions
      /\ prev' = [prev EXCEPT ![k] = watch] /\ unread' = unread \ {k}
      /\ unread \in SUBSET Kinds /\ watch' = watch /\ opened' = opened
  BY DEF ListenersInv, ListenersTypeOK, SessionTypeOK, Observe, sessionVars
<1>2. SeenInv'
  BY <1>1, ListenersNumbers DEF ListenersInv, SeenInv, None
<1>3. QED
  BY <1>1, <1>2

LEMMA ListenersStep == ListenersInv /\ [Next]_vars => ListenersInv'
<1> SUFFICES ASSUME ListenersInv, [Next]_vars PROVE ListenersInv'
  OBVIOUS
<1> USE ListenersNumbers, Attempts
<1>1. CASE Send /\ Open
  <2>1. /\ watch' = None /\ opened' = opened + 1 /\ opened < MaxSessions
        /\ unread' = Kinds /\ prev' = prev /\ told' = told
    BY <1>1 DEF Send, Open
  <2>2. ListenersTypeOK'
    BY <2>1 DEF ListenersInv, ListenersTypeOK, SessionTypeOK, None
  <2>3. SeenInv' /\ LostInv'
    BY <2>1 DEF ListenersInv, SeenInv, LostInv, None
  <2>4. ConnectedInv'
    BY <2>1 DEF ListenersInv, ConnectedInv, None
  <2>5. QED
    BY <2>2, <2>3, <2>4 DEF ListenersInv
<1>2. CASE Send /\ Establish
  <2>1. /\ watch = None /\ watch' = opened /\ opened' = opened /\ opened > 0
        /\ unread' = Kinds /\ prev' = prev /\ told' = told
    BY <1>2 DEF Send, Establish
  <2>2. ListenersTypeOK'
    BY <2>1 DEF ListenersInv, ListenersTypeOK, SessionTypeOK, None
  <2>3. SeenInv' /\ LostInv'
    BY <2>1 DEF ListenersInv, SeenInv, LostInv, None
  <2>4. ConnectedInv'
    BY <2>1 DEF ListenersInv, ConnectedInv, None
  <2>5. QED
    BY <2>2, <2>3, <2>4 DEF ListenersInv
<1>3. CASE OnConnected
  <2>1. /\ prev' \in [Kinds -> 0..MaxSessions] /\ prev'["connected"] = watch
        /\ prev'["disconnected"] = prev["disconnected"]
        /\ unread' \in SUBSET Kinds /\ watch' = watch /\ opened' = opened
        /\ SeenInv'
    BY <1>3, ObserveFacts DEF OnConnected
  <2>2. /\ told' \in [Kinds -> 0..MaxSessions]
        /\ told'["disconnected"] = told["disconnected"]
        /\ told'["connected"] = IF prev["connected"] = None /\ watch # None
                                THEN watch ELSE told["connected"]
    BY <1>3 DEF OnConnected, ListenersInv, ListenersTypeOK, SessionTypeOK
  <2>3. ListenersTypeOK'
    BY <2>1, <2>2 DEF ListenersInv, ListenersTypeOK, SessionTypeOK
  <2>4. LostInv'
    BY <2>1, <2>2 DEF ListenersInv, LostInv
  <2>5. ConnectedInv'
    BY <2>1, <2>2 DEF ListenersInv, SeenInv, ConnectedInv, None
  <2>6. QED
    BY <2>1, <2>3, <2>4, <2>5 DEF ListenersInv
<1>4. CASE OnDisconnected
  <2>1. /\ prev' \in [Kinds -> 0..MaxSessions] /\ prev'["disconnected"] = watch
        /\ prev'["connected"] = prev["connected"]
        /\ unread' \in SUBSET Kinds /\ watch' = watch /\ opened' = opened
        /\ SeenInv'
    BY <1>4, ObserveFacts DEF OnDisconnected
  <2>2. /\ told' \in [Kinds -> 0..MaxSessions]
        /\ told'["connected"] = told["connected"]
        /\ told'["disconnected"] = IF prev["disconnected"] # None /\ watch = None
                                   THEN prev["disconnected"] ELSE told["disconnected"]
    BY <1>4 DEF OnDisconnected, ListenersInv, ListenersTypeOK, SessionTypeOK
  <2>3. ListenersTypeOK'
    BY <2>1, <2>2 DEF ListenersInv, ListenersTypeOK, SessionTypeOK
  <2>4. LostInv'
    BY <2>1, <2>2 DEF ListenersInv, SeenInv, LostInv, None
  <2>5. ConnectedInv'
    BY <2>1, <2>2 DEF ListenersInv, ConnectedInv
  <2>6. QED
    BY <2>1, <2>3, <2>4, <2>5 DEF ListenersInv
<1>5. CASE UNCHANGED vars
  BY <1>5
  DEF vars, sessionVars, listenerVars, ListenersInv, ListenersTypeOK, SessionTypeOK,
      SeenInv, LostInv, ConnectedInv
<1>6. QED
  BY <1>1, <1>2, <1>3, <1>4, <1>5 DEF Next, Send, SessionNext

LEMMA ListenersInvariance == Spec => []ListenersInv
  BY ListenersInit, ListenersStep, PTL DEF Spec

-----------------------------------------------------------------------------
(* The redo keeps to the listeners.                                        *)

\* What the application, the executor and the server do is a stutter of the
\* connection and its listeners.
LEMMA KeepsToListeners == [RedoNext]_allVars => [Next]_vars
<1> SUFFICES ASSUME [RedoNext]_allVars PROVE [Next]_vars
  OBVIOUS
<1>1. CASE Connection
  BY <1>1 DEF Connection, Reopen, Reconnect, ConnectedCallback, DisconnectedCallback,
              OnReconnect, OnDisconnect, RunCallback, Next, Send, SessionNext
<1>2. ASSUME NEW s \in Sessions, SessionLost(s) PROVE UNCHANGED vars
  BY <1>2 DEF SessionLost
<1>3. ASSUME NEW f \in Senders, Network(f) PROVE UNCHANGED vars
  BY <1>3 DEF Network, SendRequest, Apply, Reject, Answer, Break
<1>4. ASSUME NEW k \in Keys, Register(k) \/ Deregister(k) \/ Caller(k)
      PROVE  UNCHANGED vars
  BY <1>4 DEF Register, Deregister, Caller, AddTask, RegisterReturns, DeregisterAnswered,
              RemoveTask
<1>5. CASE Executor
  BY <1>5 DEF Executor, RedoRound, TaskRan, RunTask
<1>6. CASE UNCHANGED allVars
  BY <1>6 DEF allVars
<1>7. QED
  BY <1>1, <1>2, <1>3, <1>4, <1>5, <1>6 DEF RedoNext

\* The redo of registrations implements the listeners' specification: whatever
\* holds of them holds here.
LEMMA RedoImplementsListeners == RedoSpec => Spec
  BY KeepsToListeners, PTL DEF RedoSpec, RedoInit, Spec

\* However late the disconnected listener runs, it never names the connection
\* that is up.
THEOREM DisconnectTheorem ==
    /\ Spec => []DisconnectNamesTheDead
    /\ RedoSpec => []DisconnectNamesTheDead
<1>1. ListenersInv => DisconnectNamesTheDead
  BY ListenersNumbers, Attempts DEF ListenersInv, SeenInv, LostInv, DisconnectNamesTheDead
<1>2. QED
  BY <1>1, ListenersInvariance, RedoImplementsListeners, PTL

-----------------------------------------------------------------------------
(* The inductive invariant of the redo.                                    *)

TaskTypes ==
    /\ map \in [Keys -> Nat]
    /\ keyOf \in Seq(Keys)
    /\ pc \in [Keys -> {"idle", "adding", "registering", "deregistering",
                        "removing"}]
    /\ mine \in [Keys -> Nat]
    /\ left \in SUBSET Keys

\* A task that exists belongs to the key it is found under.
Owns(k, n) == n # NoTask => n \in DOMAIN keyOf /\ keyOf[n] = k

OwnKeys == \A k \in Keys : Owns(k, map[k]) /\ Owns(k, mine[k])

\* What deregister has removed comes back only by way of a register call,
\* which takes the key out of left before it adds the task.
LeftInv == \A k \in left : map[k] = NoTask /\ pc[k] # "adding"

RedoInv == TaskTypes /\ OwnKeys /\ LeftInv /\ RoundWithinMap

taskVars == <<map, keyOf, todo, running, pc, mine, left>>

LEMMA RedoInvInit == RedoInit => RedoInv
  BY DEF RedoInit, RedoInv, TaskTypes, OwnKeys, Owns, LeftInv, RoundWithinMap,
         NoTask

\* What the connection, the network, the server and the callbacks do is out of
\* the invariant's sight.
LEMMA OutOfSight ==
    ASSUME RedoInv, UNCHANGED taskVars
    PROVE  RedoInv'
  BY DEF RedoInv, TaskTypes, OwnKeys, Owns, LeftInv, RoundWithinMap, InMap,
         taskVars

\* The map alone says what is in it.
LEMMA SameMap == UNCHANGED map => InMap' = InMap
  BY DEF InMap

\* A map whose round is over may be changed.
LEMMA NoRound == ~Guarded /\ UNCHANGED <<todo, running>> => RoundWithinMap'
  BY DEF Guarded, RoundWithinMap

LEMMA RedoInvStep == RedoInv /\ [RedoNext]_allVars => RedoInv'
<1> SUFFICES ASSUME RedoInv, [RedoNext]_allVars PROVE RedoInv'
  OBVIOUS
<1> USE DEF clientVars, serverVars, redoVars, allVars
<1>1. ASSUME NEW k \in Keys, Register(k) PROVE RedoInv'
  <2> DEFINE n == Len(keyOf) + 1
  <2>1. /\ keyOf' = Append(keyOf, k) /\ mine' = [mine EXCEPT ![k] = n]
        /\ pc' = [pc EXCEPT ![k] = "adding"] /\ left' = left \ {k}
        /\ UNCHANGED <<map, todo, running>>
    BY <1>1 DEF Register
  <2>2. n \in Nat /\ Len(keyOf) \in Nat
    BY DEF RedoInv, TaskTypes
  <2>3. TaskTypes'
    BY <2>1, <2>2 DEF RedoInv, TaskTypes
  <2>4. n \in DOMAIN keyOf' /\ keyOf'[n] = k
    BY <2>1 DEF RedoInv, TaskTypes
  <2>5. \A i \in DOMAIN keyOf : i \in DOMAIN keyOf' /\ keyOf'[i] = keyOf[i]
    BY <2>1 DEF RedoInv, TaskTypes
  <2>6. OwnKeys'
    <3> SUFFICES ASSUME NEW j \in Keys
                 PROVE  (Owns(j, map[j]) /\ Owns(j, mine[j]))'
      BY DEF OwnKeys
    <3>1. Owns(j, map[j]) /\ Owns(j, mine[j])
      BY DEF RedoInv, OwnKeys
    <3>2. Owns(j, map[j])'
      BY <2>1, <2>5, <3>1 DEF Owns
    <3>3. CASE j = k
      <4>1. mine'[j] = n
        BY <2>1, <3>3 DEF RedoInv, TaskTypes
      <4>2. QED
        BY <2>4, <3>2, <3>3, <4>1 DEF Owns
    <3>4. CASE j # k
      <4>1. mine'[j] = mine[j]
        BY <2>1, <3>4 DEF RedoInv, TaskTypes
      <4>2. QED
        BY <2>5, <3>1, <3>2, <4>1 DEF Owns
    <3>5. QED
      BY <3>3, <3>4
  <2>7. LeftInv'
    BY <2>1 DEF RedoInv, TaskTypes, LeftInv
  <2>8. RoundWithinMap'
    BY <2>1, SameMap DEF RedoInv, RoundWithinMap
  <2>9. QED
    BY <2>3, <2>6, <2>7, <2>8 DEF RedoInv
<1>2. ASSUME NEW k \in Keys, AddTask(k) PROVE RedoInv'
  <2>1. TaskTypes'
    BY <1>2 DEF AddTask, RedoInv, TaskTypes
  <2>2. OwnKeys'
    BY <1>2 DEF AddTask, RedoInv, TaskTypes, OwnKeys, Owns
  <2>3. LeftInv'
    BY <1>2 DEF AddTask, RedoInv, TaskTypes, LeftInv
  <2>4. QED
    BY <1>2, <2>1, <2>2, <2>3, NoRound DEF AddTask, RedoInv
<1>3. ASSUME NEW k \in Keys, RemoveTask(k) PROVE RedoInv'
  <2>1. TaskTypes'
    BY <1>3 DEF RemoveTask, RedoInv, TaskTypes, NoTask
  <2>2. OwnKeys'
    BY <1>3 DEF RemoveTask, RedoInv, TaskTypes, OwnKeys, Owns
  <2>3. LeftInv'
    BY <1>3 DEF RemoveTask, RedoInv, TaskTypes, LeftInv
  <2>4. QED
    BY <1>3, <2>1, <2>2, <2>3, NoRound DEF RemoveTask, RedoInv
<1>4. ASSUME NEW k \in Keys, Deregister(k) \/ RegisterReturns(k)
                             \/ DeregisterAnswered(k)
      PROVE  RedoInv'
  <2>1. /\ \E st \in {"idle", "deregistering", "removing"} :
              pc' = [pc EXCEPT ![k] = st]
        /\ UNCHANGED <<map, keyOf, todo, running, mine, left>>
    BY <1>4 DEF Deregister, RegisterReturns, DeregisterAnswered
  <2>2. TaskTypes' /\ LeftInv'
    BY <2>1 DEF RedoInv, TaskTypes, LeftInv
  <2>3. OwnKeys'
    BY <2>1 DEF RedoInv, OwnKeys, Owns
  <2>4. RoundWithinMap'
    BY <2>1, SameMap DEF RedoInv, RoundWithinMap
  <2>5. QED
    BY <2>2, <2>3, <2>4 DEF RedoInv
<1>5. CASE RedoRound
  <2>1. UNCHANGED <<map, keyOf, pc, mine, left>> /\ running' = NoTask
        /\ todo' \subseteq InMap
    BY <1>5 DEF RedoRound, Guarded
  <2>2. RoundWithinMap'
    BY <2>1, SameMap DEF RoundWithinMap
  <2>3. QED
    BY <2>1, <2>2 DEF RedoInv, TaskTypes, OwnKeys, Owns, LeftInv
<1>6. ASSUME NEW n \in Tasks, RunTask(n) PROVE RedoInv'
  <2>1. UNCHANGED <<map, keyOf, pc, mine, left>> /\ n \in todo
        /\ running' = n /\ todo' = todo \ {n}
    BY <1>6 DEF RunTask
  <2>2. RoundWithinMap'
    BY <2>1, SameMap DEF RedoInv, RoundWithinMap
  <2>3. QED
    BY <2>1, <2>2 DEF RedoInv, TaskTypes, OwnKeys, Owns, LeftInv
<1>7. CASE TaskRan
  <2>1. UNCHANGED <<map, keyOf, pc, mine, left, todo>> /\ running' = NoTask
    BY <1>7 DEF TaskRan
  <2>2. RoundWithinMap'
    BY <2>1, SameMap DEF RedoInv, RoundWithinMap
  <2>3. QED
    BY <2>1, <2>2 DEF RedoInv, TaskTypes, OwnKeys, Owns, LeftInv
<1>8. CASE Connection
  <2>1. UNCHANGED taskVars
    BY <1>8 DEF Connection, Reopen, Reconnect, ConnectedCallback,
                DisconnectedCallback, OnReconnect, OnDisconnect, RunCallback,
                taskVars
  <2>2. QED
    BY <2>1, OutOfSight
<1>9. ASSUME NEW s \in Sessions, SessionLost(s) PROVE RedoInv'
  <2>1. UNCHANGED taskVars
    BY <1>9 DEF SessionLost, taskVars
  <2>2. QED
    BY <2>1, OutOfSight
<1>10. ASSUME NEW f \in Senders, Network(f) PROVE RedoInv'
  <2>1. UNCHANGED taskVars
    BY <1>10 DEF Network, SendRequest, Apply, Reject, Answer, Break, taskVars
  <2>2. QED
    BY <2>1, OutOfSight
<1>11. CASE UNCHANGED allVars
  <2>1. UNCHANGED taskVars
    BY <1>11 DEF taskVars
  <2>2. QED
    BY <2>1, OutOfSight
<1>12. QED
  BY <1>1, <1>2, <1>3, <1>4, <1>5, <1>6, <1>7, <1>8, <1>9, <1>10, <1>11
  DEF RedoNext, Caller, Executor

LEMMA RedoInvariance == RedoSpec => []RedoInv
  BY RedoInvInit, RedoInvStep, PTL DEF RedoSpec

-----------------------------------------------------------------------------

\* While the executor is in a round, no task it has still to run is replaced or
\* removed: the read guard is held across every run().await.
THEOREM RoundTheorem == RedoSpec => []RoundWithinMap
  BY RedoInvariance, PTL DEF RedoInv

\* A deregister call that has returned Ok leaves no redo request of its key
\* behind.
THEOREM NoRedoTheorem == RedoSpec => []NoRedoAfterLeaving
<1>1. RedoInv => NoRedoAfterLeaving
  <2> SUFFICES ASSUME RedoInv, NEW k \in left, running # NoTask,
                      keyOf[running] = k
               PROVE  FALSE
    BY DEF NoRedoAfterLeaving
  <2>1. PICK j \in Keys : running = map[j]
    BY DEF RedoInv, RoundWithinMap, InMap, TaskTypes, Range
  <2>2. keyOf[running] = j
    BY <2>1 DEF RedoInv, OwnKeys, Owns
  <2>3. map[k] = NoTask
    BY DEF RedoInv, LeftInv
  <2>4. QED
    BY <2>1, <2>2, <2>3
<1>2. QED
  BY <1>1, RedoInvariance, PTL

-----------------------------------------------------------------------------
(* The type invariant.                                                     *)

\* A callback is spawned for each id that a listener is called with, once.
PendingInv ==
    /\ pending \in [Kinds -> 0..MaxSessions]
    /\ \A k \in Kinds : pending[k] <= told[k]

\* The types of what the requests carry and of the server.
Flights == [st : Requests, on : 0..MaxSessions]

NetworkTypes ==
    /\ flight \in [Senders -> Flights]
    /\ live \in SUBSET Sessions
    /\ registered \in [Sessions -> [Keys -> 0..MaxTasks]]

\* The types of the executor's tasks and of the callers.
ExecutorTypes ==
    /\ map \in [Keys -> 0..MaxTasks]
    /\ keyOf \in Seq(Keys) /\ Len(keyOf) <= MaxTasks
    /\ active \in SUBSET Tasks
    /\ todo \in SUBSET Tasks
    /\ running \in 0..MaxTasks
    /\ pc \in [Keys -> {"idle", "adding", "registering", "deregistering", "removing"}]
    /\ mine \in [Keys -> 0..MaxTasks]
    /\ wanted \in [Keys -> 0..MaxTasks]
    /\ left \in SUBSET Keys

executorVars == <<map, keyOf, active, todo, running, pc, mine, wanted, left>>

TypeInv == ListenersInv /\ PendingInv /\ NetworkTypes /\ ExecutorTypes

LEMMA Bounds ==
    /\ MaxTasks \in Nat /\ MaxSessions \in Nat
    /\ 0 \in 0..MaxTasks /\ 0 \in 0..MaxSessions
    /\ Tasks \subseteq 0..MaxTasks /\ Sessions \subseteq 0..MaxSessions
    /\ Quiet \in Flights /\ Waiting \in Flights
<1>1. MaxTasks \in Nat /\ MaxSessions \in Nat
  BY RedoAssumption, SessionAssumption
<1>2. 0 \in 0..MaxTasks /\ 0 \in 0..MaxSessions
      /\ Tasks \subseteq 0..MaxTasks /\ Sessions \subseteq 0..MaxSessions
  BY <1>1 DEF Tasks, Sessions
<1>3. Quiet \in Flights /\ Waiting \in Flights
  BY <1>2 DEF Quiet, Waiting, Flights, Requests, None
<1>4. QED
  BY <1>1, <1>2, <1>3

LEMMA TypeInvInit == RedoInit => TypeInv
<1> SUFFICES ASSUME RedoInit PROVE TypeInv
  OBVIOUS
<1>1. ListenersInv
  BY ListenersInit DEF RedoInit
<1>2. PendingInv
  BY Bounds DEF RedoInit, Init, PendingInv, None
<1>3. NetworkTypes
  <2>1. NoRegistrations \in [Keys -> 0..MaxTasks]
    BY Bounds DEF NoRegistrations, NoTask
  <2>2. QED
    BY <2>1, Bounds DEF RedoInit, NetworkTypes
<1>4. ExecutorTypes
  BY Bounds DEF RedoInit, ExecutorTypes, NoTask
<1>5. QED
  BY <1>1, <1>2, <1>3, <1>4 DEF TypeInv

LEMMA InMapTasks == ExecutorTypes => InMap \subseteq Tasks
  BY Bounds DEF ExecutorTypes, InMap, NoTask, Tasks, Range

\* The callbacks: what was spawned has not run more often than it was spawned.
LEMMA PendingStep ==
    ASSUME TypeInv, [RedoNext]_allVars
    PROVE  PendingInv'
<1> USE DEF clientVars, serverVars, redoVars, allVars
<1>1. /\ pending \in [Kinds -> 0..MaxSessions] /\ told \in [Kinds -> 0..MaxSessions]
      /\ \A k \in Kinds : pending[k] <= told[k]
      /\ \A k \in Kinds : pending[k] \in Nat /\ told[k] \in Nat
      /\ MaxSessions \in Nat
  BY Bounds DEF TypeInv, PendingInv, ListenersInv, ListenersTypeOK
<1>2. CASE UNCHANGED pending /\ UNCHANGED told
  BY <1>1, <1>2 DEF PendingInv
<1>3. CASE ConnectedCallback
  <2> DEFINE fires == prev["connected"] = None /\ watch # None
  <2>1. /\ pending' = IF fires THEN [pending EXCEPT !["connected"] = @ + 1] ELSE pending
        /\ told' = IF fires THEN [told EXCEPT !["connected"] = watch] ELSE told
    BY <1>3 DEF ConnectedCallback, OnConnected, SpawnOn
  <2>2. fires => told["connected"] < watch /\ watch \in 0..MaxSessions
    BY ListenersNumbers, Attempts
    DEF TypeInv, ListenersInv, ListenersTypeOK, SessionTypeOK, SeenInv, ConnectedInv, None
  <2> HIDE DEF fires
  <2>3. CASE fires
    <3>1. /\ pending["connected"] + 1 <= watch
          /\ pending["connected"] + 1 \in 0..MaxSessions
      BY <1>1, <2>2, <2>3, Attempts
    <3>2. QED
      BY <1>1, <2>1, <2>3, <3>1, Attempts DEF PendingInv
  <2>4. QED
    BY <1>1, <2>1, <2>3 DEF PendingInv
<1>4. CASE DisconnectedCallback
  <2> DEFINE fires == prev["disconnected"] # None /\ watch = None
  <2>1. /\ pending' = IF fires THEN [pending EXCEPT !["disconnected"] = @ + 1] ELSE pending
        /\ told' = IF fires THEN [told EXCEPT !["disconnected"] = prev["disconnected"]]
                   ELSE told
    BY <1>4 DEF DisconnectedCallback, OnDisconnected, SpawnOn
  <2>2. /\ prev["disconnected"] \in 0..MaxSessions
        /\ fires => told["disconnected"] < prev["disconnected"]
    BY Attempts DEF TypeInv, ListenersInv, ListenersTypeOK, LostInv
  <2> HIDE DEF fires
  <2>3. CASE fires
    <3>1. /\ pending["disconnected"] + 1 <= prev["disconnected"]
          /\ pending["disconnected"] + 1 \in 0..MaxSessions
      BY <1>1, <2>2, <2>3, Attempts
    <3>2. QED
      BY <1>1, <2>1, <2>3, <3>1, Attempts DEF PendingInv
  <2>4. QED
    BY <1>1, <2>1, <2>3 DEF PendingInv
<1>5. ASSUME NEW k \in Kinds, pending[k] > 0, pending' = [pending EXCEPT ![k] = @ - 1],
             told' = told
      PROVE  PendingInv'
  <2>1. pending[k] - 1 \in 0..MaxSessions /\ pending[k] - 1 <= told[k]
    BY <1>1, <1>5
  <2>2. QED
    BY <1>1, <1>5, <2>1 DEF PendingInv
<1>6. CASE OnReconnect \/ OnDisconnect
  <2>1. PICK k \in Kinds : /\ pending[k] > 0 /\ pending' = [pending EXCEPT ![k] = @ - 1]
                           /\ told' = told
    BY <1>6, Attempts DEF OnReconnect, OnDisconnect, RunCallback, vars, listenerVars
  <2>2. QED
    BY <1>5, <2>1
<1>7. CASE Reopen \/ Reconnect
  BY <1>2, <1>7 DEF Reopen, Reconnect, Send
<1>8. ASSUME NEW s \in Sessions, SessionLost(s) PROVE PendingInv'
  BY <1>2, <1>8 DEF SessionLost, vars, listenerVars
<1>9. ASSUME NEW f \in Senders, Network(f) PROVE PendingInv'
  BY <1>2, <1>9 DEF Network, SendRequest, Apply, Reject, Answer, Break, vars, listenerVars
<1>10. ASSUME NEW k \in Keys, Register(k) \/ Deregister(k) \/ Caller(k) PROVE PendingInv'
  BY <1>2, <1>10 DEF Register, Deregister, Caller, AddTask, RegisterReturns,
                     DeregisterAnswered, RemoveTask, vars, listenerVars
<1>11. CASE Executor
  BY <1>2, <1>11 DEF Executor, RedoRound, TaskRan, RunTask, vars, listenerVars
<1>12. CASE UNCHANGED allVars
  BY <1>2, <1>12 DEF vars, listenerVars
<1>13. QED
  BY <1>3, <1>4, <1>6, <1>7, <1>8, <1>9, <1>10, <1>11, <1>12 DEF RedoNext, Connection

\* What a step may put into a request.
LEMMA RequestType ==
    ASSUME TypeInv, NEW f \in Senders,
           \/ flight' = flight
           \/ flight' = [flight EXCEPT ![f] = Quiet]
           \/ flight' = [flight EXCEPT ![f] = Waiting]
           \/ flight' = [flight EXCEPT ![f] = [st |-> "sent", on |-> watch]]
           \/ \E st \in Requests : flight' = [flight EXCEPT ![f].st = st]
    PROVE  flight' \in [Senders -> Flights]
<1>1. /\ flight \in [Senders -> Flights] /\ flight[f] \in Flights
      /\ watch \in 0..MaxSessions
  BY DEF TypeInv, NetworkTypes, ListenersInv, ListenersTypeOK, SessionTypeOK
<1>2. [st |-> "sent", on |-> watch] \in Flights
  BY <1>1 DEF Flights, Requests
<1>3. \A st \in Requests : [flight[f] EXCEPT !.st = st] \in Flights
  BY <1>1 DEF Flights
<1>4. CASE \E st \in Requests : flight' = [flight EXCEPT ![f].st = st]
  BY <1>1, <1>3, <1>4
<1>5. QED
  BY <1>1, <1>2, <1>4, Bounds

LEMMA NetworkTypesStep ==
    ASSUME TypeInv, [RedoNext]_allVars
    PROVE  NetworkTypes'
<1> USE DEF clientVars, serverVars, redoVars, allVars
<1>1. /\ flight \in [Senders -> Flights] /\ live \in SUBSET Sessions
      /\ registered \in [Sessions -> [Keys -> 0..MaxTasks]]
  BY DEF TypeInv, NetworkTypes
<1>2. CASE UNCHANGED <<flight, live, registered>>
  BY <1>2 DEF TypeInv, NetworkTypes
<1>3. CASE Reconnect
  <2>1. opened \in Sessions
    BY <1>3, ListenersNumbers, Bounds DEF Reconnect, Establish, TypeInv, Sessions
  <2>2. QED
    BY <1>1, <1>3, <2>1 DEF Reconnect, NetworkTypes
<1>4. ASSUME NEW s \in Sessions, SessionLost(s) PROVE NetworkTypes'
  <2>1. NoRegistrations \in [Keys -> 0..MaxTasks]
    BY Bounds DEF NoRegistrations, NoTask
  <2>2. QED
    BY <1>1, <1>4, <2>1 DEF SessionLost, NetworkTypes
<1>5. ASSUME NEW f \in Senders, SendRequest(f) \/ Reject(f) \/ Answer(f) \/ Break(f)
      PROVE  NetworkTypes'
  <2>1. /\ UNCHANGED <<live, registered>>
        /\ \/ flight' = [flight EXCEPT ![f] = [st |-> "sent", on |-> watch]]
           \/ \E st \in Requests : flight' = [flight EXCEPT ![f].st = st]
    BY <1>5 DEF SendRequest, Reject, Answer, Break, Advance, Requests
  <2>2. QED
    BY <1>1, <2>1, RequestType DEF NetworkTypes
<1>6. ASSUME NEW f \in Senders, Apply(f) PROVE NetworkTypes'
  <2>1. /\ UNCHANGED live /\ \E st \in Requests : flight' = [flight EXCEPT ![f].st = st]
        /\ registered' = [registered EXCEPT ![flight[f].on][KeyOfRequest(f)] = Payload(f)]
    BY <1>6 DEF Apply, Advance, Requests
  <2>2. Payload(f) \in 0..MaxTasks
    BY Bounds DEF Payload, TypeInv, ExecutorTypes, NoTask, Senders
  <2>3. registered' \in [Sessions -> [Keys -> 0..MaxTasks]]
    BY <1>1, <2>1, <2>2
  <2>4. QED
    BY <1>1, <2>1, <2>3, RequestType DEF NetworkTypes
<1>7. ASSUME NEW k \in Keys, Register(k) \/ Deregister(k) \/ Caller(k)
      PROVE  NetworkTypes'
  <2>1. /\ UNCHANGED <<live, registered>> /\ k \in Senders
        /\ \/ flight' = flight
           \/ flight' = [flight EXCEPT ![k] = Quiet]
           \/ flight' = [flight EXCEPT ![k] = Waiting]
    BY <1>7 DEF Register, Deregister, Caller, AddTask, RegisterReturns, DeregisterAnswered,
                RemoveTask, Senders
  <2>2. QED
    BY <1>1, <2>1, RequestType DEF NetworkTypes
<1>8. CASE Executor
  <2>1. /\ UNCHANGED <<live, registered>> /\ Redo \in Senders
        /\ \/ flight' = flight
           \/ flight' = [flight EXCEPT ![Redo] = Quiet]
           \/ flight' = [flight EXCEPT ![Redo] = Waiting]
    BY <1>8 DEF Executor, RedoRound, TaskRan, RunTask, Senders
  <2>2. QED
    BY <1>1, <2>1, RequestType DEF NetworkTypes
<1>9. CASE Reopen \/ ConnectedCallback \/ DisconnectedCallback \/ OnReconnect \/ OnDisconnect
  BY <1>2, <1>9 DEF Reopen, ConnectedCallback, DisconnectedCallback, OnReconnect,
                    OnDisconnect, RunCallback
<1>10. CASE UNCHANGED allVars
  BY <1>2, <1>10
<1>11. QED
  BY <1>3, <1>4, <1>5, <1>6, <1>7, <1>8, <1>9, <1>10 DEF RedoNext, Connection, Network

LEMMA ExecutorTypesStep ==
    ASSUME TypeInv, [RedoNext]_allVars
    PROVE  ExecutorTypes'
<1> USE DEF clientVars, serverVars, redoVars, allVars
<1>1. ExecutorTypes /\ InMap \subseteq Tasks
  BY InMapTasks DEF TypeInv
<1>2. CASE UNCHANGED executorVars
  BY <1>1, <1>2 DEF ExecutorTypes, executorVars
<1>3. ASSUME NEW k \in Keys, Register(k) PROVE ExecutorTypes'
  <2> DEFINE n == Len(keyOf) + 1
  <2>1. /\ n \in Tasks /\ n \in 0..MaxTasks /\ n <= MaxTasks
        /\ Append(keyOf, k) \in Seq(Keys) /\ Len(Append(keyOf, k)) = n
    BY <1>1, <1>3, Bounds DEF Register, ExecutorTypes, Tasks
  <2>2. /\ keyOf' = Append(keyOf, k) /\ mine' = [mine EXCEPT ![k] = n]
        /\ active' = active \cup {n} /\ wanted' = [wanted EXCEPT ![k] = n]
        /\ pc' = [pc EXCEPT ![k] = "adding"] /\ left' = left \ {k}
        /\ UNCHANGED <<map, todo, running>>
    BY <1>3 DEF Register
  <2> HIDE DEF n
  <2>3. QED
    BY <1>1, <2>1, <2>2 DEF ExecutorTypes
<1>4. ASSUME NEW k \in Keys, Deregister(k) PROVE ExecutorTypes'
  BY <1>1, <1>4, Bounds DEF Deregister, ExecutorTypes, NoTask
<1>5. ASSUME NEW k \in Keys, AddTask(k) \/ RemoveTask(k) PROVE ExecutorTypes'
  BY <1>1, <1>5, Bounds DEF AddTask, RemoveTask, ExecutorTypes, NoTask
<1>6. ASSUME NEW k \in Keys, RegisterReturns(k) \/ DeregisterAnswered(k)
      PROVE  ExecutorTypes'
  BY <1>1, <1>6 DEF RegisterReturns, DeregisterAnswered, ExecutorTypes
<1>7. CASE RedoRound
  BY <1>1, <1>7 DEF RedoRound, ExecutorTypes
<1>8. ASSUME NEW n \in Tasks, RunTask(n) PROVE ExecutorTypes'
  <2>1. n \in 0..MaxTasks
    BY Bounds
  <2>2. QED
    BY <1>1, <1>8, <2>1 DEF RunTask, ExecutorTypes
<1>9. CASE TaskRan
  <2>1. running \in Tasks
    BY <1>1, <1>9, Bounds DEF TaskRan, ExecutorTypes, Tasks, NoTask
  <2>2. QED
    BY <1>1, <1>9, <2>1, Bounds DEF TaskRan, ExecutorTypes, NoTask
<1>10. CASE OnReconnect \/ OnDisconnect
  BY <1>1, <1>10 DEF OnReconnect, OnDisconnect, RunCallback, ExecutorTypes
<1>11. CASE Reopen \/ Reconnect \/ ConnectedCallback \/ DisconnectedCallback
  BY <1>2, <1>11 DEF Reopen, Reconnect, ConnectedCallback, DisconnectedCallback, executorVars
<1>12. ASSUME NEW s \in Sessions, SessionLost(s) PROVE ExecutorTypes'
  BY <1>2, <1>12 DEF SessionLost, executorVars
<1>13. ASSUME NEW f \in Senders, Network(f) PROVE ExecutorTypes'
  BY <1>2, <1>13 DEF Network, SendRequest, Apply, Reject, Answer, Break, executorVars
<1>14. CASE UNCHANGED allVars
  BY <1>2, <1>14 DEF executorVars
<1>15. QED
  BY <1>3, <1>4, <1>5, <1>6, <1>7, <1>8, <1>9, <1>10, <1>11, <1>12, <1>13, <1>14
  DEF RedoNext, Connection, Caller, Executor

\* Types, and that no callback is spawned more often than ids were announced.
\* The bound on what is pending needs the ids: each callback spawned is for an
\* id larger than the one before.
THEOREM RedoTypeCorrect == RedoSpec => []RedoTypeOK
<1>1. TypeInv /\ [RedoNext]_allVars => TypeInv'
  BY ListenersStep, KeepsToListeners, PendingStep, NetworkTypesStep, ExecutorTypesStep
  DEF TypeInv
<1>2. TypeInv => RedoTypeOK
  <2> SUFFICES ASSUME TypeInv PROVE RedoTypeOK
    OBVIOUS
  <2>1. ListenersTypeOK
    BY DEF TypeInv, ListenersInv
  <2>2. pending \in [Kinds -> 0..opened]
    <3>1. /\ pending \in [Kinds -> 0..MaxSessions]
          /\ \A k \in Kinds : pending[k] <= told[k]
      BY DEF TypeInv, PendingInv
    <3>2. \A k \in Kinds : told[k] <= opened
      BY ListenersNumbers, Attempts DEF TypeInv, ListenersInv, LostInv, ConnectedInv, None
    <3>3. \A k \in Kinds : pending[k] \in 0..opened
      BY <3>1, <3>2, ListenersNumbers, Bounds DEF TypeInv
    <3>4. QED
      BY <3>1, <3>3
  <2>3. QED
    BY <2>1, <2>2 DEF TypeInv, NetworkTypes, ExecutorTypes, Flights, RedoTypeOK
<1>3. QED
  BY <1>1, <1>2, TypeInvInit, PTL DEF RedoSpec
=============================================================================
