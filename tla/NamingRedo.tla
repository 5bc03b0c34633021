----------------------------- MODULE NamingRedo -----------------------------
(***************************************************************************)
(* Registration of instances and its redo (src/naming/mod.rs,              *)
(* src/naming/redo/): application callers register and deregister, the     *)
(* RedoTaskExecutor re-sends active tasks, and the two listeners of the    *)
(* connection (Listeners) activate and freeze every task.                  *)
(*                                                                         *)
(* One caller per task key issues its operations in sequence; callers of   *)
(* different keys, the executor and the callbacks interleave freely.       *)
(* Subscribe and unsubscribe keep the same protocol with the server.       *)
(***************************************************************************)
EXTENDS Listeners, Sequences, Functions

CONSTANTS
    Keys,        \* task keys: namespace@@group@@service@@request type
    Redo,        \* the executor, as a sender of requests
    MaxTasks,    \* bound: register calls made
    \* What the environment may do.
    PromptTasks, \* local tasks keep up: they end in the order of what woke them,
                 \* and before a new session starts unless the lock holds them up
    Zombies,     \* a session may outlive the client's interest in it
    Rejections   \* the senders the server may answer with a failing result code

ASSUME RedoAssumption ==
    /\ MaxTasks \in Nat /\ Redo \notin Keys
    /\ PromptTasks \in BOOLEAN /\ Zombies \in BOOLEAN
    /\ Rejections \subseteq Keys \cup {Redo}

Sessions == 1..MaxSessions
Tasks == 1..MaxTasks
NoTask == 0
Senders == Keys \cup {Redo}

VARIABLES
    pending,   \* callback tasks spawned by the listeners and not yet run
    map,       \* RedoTaskExecutor.map: the task of each key, or NoTask
    keyOf,     \* the key of each task made so far
    active,    \* the tasks whose active flag is set
    todo,      \* the executor's active_tasks still to run
    running,   \* the task the executor is running
    pc,        \* where each caller is in its operation
    mine,      \* the task each caller's register made
    flight,    \* the request of each sender
    live,      \* the sessions the server holds
    registered,\* the server: per session and key, the task registered
    wanted,    \* what the application last asked for, per key
    left       \* the keys whose last deregister call returned Ok

clientVars == <<pending, map, keyOf, active, todo, running, pc, mine, wanted,
                left>>
serverVars == <<live, registered>>
redoVars == <<clientVars, flight, serverVars>>
allVars == <<vars, redoVars>>

Requests == {"none", "waiting", "sent", "applied", "rejected", "ok", "failed",
             "broken"}

RedoTypeOK ==
    /\ ListenersTypeOK
    /\ pending \in [Kinds -> 0..opened]
    /\ map \in [Keys -> 0..MaxTasks]
    /\ keyOf \in Seq(Keys) /\ Len(keyOf) <= MaxTasks
    /\ active \in SUBSET Tasks
    /\ todo \in SUBSET Tasks
    /\ running \in 0..MaxTasks
    /\ pc \in [Keys -> {"idle", "adding", "registering", "deregistering",
                        "removing"}]
    /\ mine \in [Keys -> 0..MaxTasks]
    /\ flight \in [Senders -> [st : Requests, on : 0..MaxSessions]]
    /\ live \in SUBSET Sessions
    /\ registered \in [Sessions -> [Keys -> 0..MaxTasks]]
    /\ wanted \in [Keys -> 0..MaxTasks]
    /\ left \in SUBSET Keys

Quiet == [st |-> "none", on |-> None]

NoRegistrations == [k \in Keys |-> NoTask]

RedoInit ==
    /\ Init
    /\ pending = [k \in Kinds |-> 0]
    /\ map = [k \in Keys |-> NoTask]
    /\ keyOf = << >>
    /\ active = {} /\ todo = {} /\ running = NoTask
    /\ pc = [k \in Keys |-> "idle"]
    /\ mine = [k \in Keys |-> NoTask]
    /\ flight = [f \in Senders |-> Quiet]
    /\ live = {}
    /\ registered = [s \in Sessions |-> NoRegistrations]
    /\ wanted = [k \in Keys |-> NoTask]
    /\ left = {}

InMap == Range(map) \ {NoTask}

\* The executor keeps the read guard across every run().await of a round.
Guarded == todo # {} \/ running # NoTask

\* A caller is at add_task or remove_task, and waits for the write guard.
\* Whoever asks for the lock later comes after it, readers included.
WriterWaits == \E k \in Keys : pc[k] \in {"adding", "removing"}

OnServer(f) == flight[f].st \in {"sent", "applied", "rejected"}
Returned(f) == flight[f].st \in {"ok", "failed", "broken"}

-----------------------------------------------------------------------------
(* The connection as the naming service sees it.                           *)

\* Nothing that the end of the last session woke is still to be done, but for
\* callbacks behind a writer that the round keeps waiting.
CaughtUp ==
    /\ unread = {}
    /\ (\A k \in Kinds : pending[k] = 0) \/ (Guarded /\ WriterWaits)
    /\ \A f \in Senders : OnServer(f) => flight[f].on \in live
    /\ \A f \in Senders : ~Returned(f)

\* The connection is given up: None is sent.  Attempts that fail are not
\* distinguished from one long attempt.
Reopen ==
    /\ watch # None \/ opened = 0
    /\ watch \in live => Zombies
    /\ Send /\ Open
    /\ UNCHANGED redoVars

Reconnect ==
    /\ PromptTasks /\ opened > 1 => CaughtUp
    /\ Send /\ Establish
    /\ live' = live \cup {opened}
    /\ UNCHANGED <<clientVars, flight, registered>>

\* A session ends at the server, and its registrations with it.  The last
\* session stays: the losses are over at some time.
SessionLost(s) ==
    /\ s \in live /\ opened < MaxSessions
    /\ live' = live \ {s}
    /\ registered' = [registered EXCEPT ![s] = NoRegistrations]
    /\ UNCHANGED <<vars, clientVars, flight>>

\* The callbacks given to the builder spawn a task each.
SpawnOn(k, fires) ==
    pending' = IF fires THEN [pending EXCEPT ![k] = @ + 1] ELSE pending

\* A variant of ConnectedCallback that does not compare with the previous id.
ConnectedCallbackAlways ==
    /\ OnConnected
    /\ SpawnOn("connected", TRUE)
    /\ UNCHANGED <<map, keyOf, active, todo, running, pc, mine, wanted, left,
                   flight, serverVars>>

ConnectedCallback ==
    /\ OnConnected
    /\ SpawnOn("connected", prev["connected"] = None /\ watch # None)
    /\ UNCHANGED <<map, keyOf, active, todo, running, pc, mine, wanted, left,
                   flight, serverVars>>

DisconnectedCallback ==
    /\ OnDisconnected
    /\ SpawnOn("disconnected", prev["disconnected"] # None /\ watch = None)
    /\ UNCHANGED <<map, keyOf, active, todo, running, pc, mine, wanted, left,
                   flight, serverVars>>

\* The callback of the latest event is the last to run.
Latest == IF told["connected"] > told["disconnected"] THEN "connected" ELSE "disconnected"
InTurn(k) ==
    PromptTasks => k # Latest \/ pending[k] > 1 \/ \A j \in Kinds \ {k} : pending[j] = 0

\* A spawned task reads the map.  It shares the lock with the round of the
\* executor, unless a writer waits for the end of that round.
RunCallback(k, flags) ==
    /\ pending[k] > 0 /\ InTurn(k)
    /\ Guarded => ~WriterWaits
    /\ pending' = [pending EXCEPT ![k] = @ - 1]
    /\ active' = flags
    /\ UNCHANGED <<vars, map, keyOf, todo, running, pc, mine, wanted, left,
                   flight, serverVars>>

\* A variant of OnReconnect that reactivates nothing.
OnReconnectForgets == RunCallback("connected", active)

OnReconnect == RunCallback("connected", active \cup InMap)

OnDisconnect == RunCallback("disconnected", active \ InMap)

-----------------------------------------------------------------------------
(* A request on its way: the Buffer, the server, and back.                 *)

Waiting == [st |-> "waiting", on |-> None]

\* The task whose registration the request of f carries; a deregistration
\* carries none.
Payload(f) ==
    IF f = Redo THEN running
    ELSE IF pc[f] = "registering" THEN mine[f] ELSE NoTask

KeyOfRequest(f) == IF f = Redo THEN keyOf[running] ELSE f

Advance(f, st) == flight' = [flight EXCEPT ![f].st = st]

\* The worker calls the service of the current connection.
SendRequest(f) ==
    /\ flight[f].st = "waiting" /\ watch # None
    /\ flight' = [flight EXCEPT ![f] = [st |-> "sent", on |-> watch]]
    /\ UNCHANGED <<vars, clientVars, serverVars>>

\* The server executes it.  Requests are separate HTTP/2 streams: two in
\* flight may be executed in either order.
Apply(f) ==
    /\ flight[f].st = "sent" /\ flight[f].on \in live
    /\ registered' = [registered EXCEPT
                         ![flight[f].on][KeyOfRequest(f)] = Payload(f)]
    /\ Advance(f, "applied")
    /\ UNCHANGED <<vars, clientVars, live>>

\* The server answers with a result code other than success.
Reject(f) ==
    /\ f \in Rejections
    /\ flight[f].st = "sent" /\ flight[f].on \in live
    /\ Advance(f, "rejected")
    /\ UNCHANGED <<vars, clientVars, serverVars>>

Answer(f) ==
    /\ flight[f].st \in {"applied", "rejected"} /\ flight[f].on \in live
    /\ Advance(f, IF flight[f].st = "applied" THEN "ok" ELSE "failed")
    /\ UNCHANGED <<vars, clientVars, serverVars>>

\* A variant of Break: the loss of a session does not fail what was sent on it.
BreakWaitingOnly(f) ==
    /\ flight[f].st = "waiting" /\ opened = 1 /\ watch = None
    /\ Advance(f, "broken")
    /\ UNCHANGED <<vars, clientVars, serverVars>>

\* The session is gone before the answer has come, or the very first attempt
\* has used up its retries.
Break(f) ==
    /\ \/ OnServer(f) /\ flight[f].on \notin live
       \/ flight[f].st = "waiting" /\ opened = 1 /\ watch = None
    /\ Advance(f, "broken")
    /\ UNCHANGED <<vars, clientVars, serverVars>>

-----------------------------------------------------------------------------
(* execute_by_register_with_redo and execute_by_deregister_with_redo.      *)

Register(k) ==
    /\ pc[k] = "idle" /\ Len(keyOf) < MaxTasks
    /\ LET n == Len(keyOf) + 1 IN
       /\ keyOf' = Append(keyOf, k)
       /\ mine' = [mine EXCEPT ![k] = n]
       /\ active' = active \cup {n}
       /\ wanted' = [wanted EXCEPT ![k] = n]
    /\ pc' = [pc EXCEPT ![k] = "adding"]
    /\ left' = left \ {k}
    /\ UNCHANGED <<vars, pending, map, todo, running, flight, serverVars>>

\* A variant of AddTask that does not wait for the executor's round.
AddTaskAtOnce(k) ==
    /\ pc[k] = "adding"
    /\ map' = [map EXCEPT ![k] = mine[k]]
    /\ pc' = [pc EXCEPT ![k] = "registering"]
    /\ flight' = [flight EXCEPT ![k] = Waiting]
    /\ UNCHANGED <<vars, pending, keyOf, active, todo, running, mine, wanted,
                   left, serverVars>>

\* add_task, under the write guard, then the request.
AddTask(k) ==
    /\ pc[k] = "adding" /\ ~Guarded
    /\ map' = [map EXCEPT ![k] = mine[k]]
    /\ pc' = [pc EXCEPT ![k] = "registering"]
    /\ flight' = [flight EXCEPT ![k] = Waiting]
    /\ UNCHANGED <<vars, pending, keyOf, active, todo, running, mine, wanted,
                   left, serverVars>>

\* The answer of a register request: success freezes the task, anything else
\* leaves it to the executor.
RegisterReturns(k) ==
    /\ pc[k] = "registering" /\ Returned(k)
    /\ active' = IF flight[k].st = "ok" THEN active \ {mine[k]} ELSE active
    /\ pc' = [pc EXCEPT ![k] = "idle"]
    /\ flight' = [flight EXCEPT ![k] = Quiet]
    /\ UNCHANGED <<vars, pending, map, keyOf, todo, running, mine, wanted, left,
                   serverVars>>

Deregister(k) ==
    /\ pc[k] = "idle" /\ wanted[k] # NoTask
    /\ wanted' = [wanted EXCEPT ![k] = NoTask]
    /\ pc' = [pc EXCEPT ![k] = "deregistering"]
    /\ flight' = [flight EXCEPT ![k] = Waiting]
    /\ UNCHANGED <<vars, pending, map, keyOf, active, todo, running, mine, left,
                   serverVars>>

\* Only a success goes on to remove the redo task.
DeregisterAnswered(k) ==
    /\ pc[k] = "deregistering" /\ Returned(k)
    /\ pc' = [pc EXCEPT ![k] = IF flight[k].st = "ok" THEN "removing" ELSE "idle"]
    /\ flight' = [flight EXCEPT ![k] = Quiet]
    /\ UNCHANGED <<vars, pending, map, keyOf, active, todo, running, mine,
                   wanted, left, serverVars>>

\* A variant of RemoveTask that does not wait for the executor's round.
RemoveTaskAtOnce(k) ==
    /\ pc[k] = "removing"
    /\ map' = [map EXCEPT ![k] = NoTask]
    /\ pc' = [pc EXCEPT ![k] = "idle"]
    /\ left' = left \cup {k}
    /\ UNCHANGED <<vars, pending, keyOf, active, todo, running, mine, flight,
                   wanted, serverVars>>

\* remove_task, under the write guard, then Ok.
RemoveTask(k) ==
    /\ pc[k] = "removing" /\ ~Guarded
    /\ map' = [map EXCEPT ![k] = NoTask]
    /\ pc' = [pc EXCEPT ![k] = "idle"]
    /\ left' = left \cup {k}
    /\ UNCHANGED <<vars, pending, keyOf, active, todo, running, mine, flight,
                   wanted, serverVars>>

-----------------------------------------------------------------------------
(* The executor's loop.                                                    *)

\* A tick: read guard, for which writers that wait come first, then the active
\* tasks of the map.  A tick that finds none changes nothing.
RedoRound ==
    /\ ~Guarded /\ ~WriterWaits
    /\ InMap \cap active # {}
    /\ todo' = InMap \cap active
    /\ UNCHANGED <<vars, pending, map, keyOf, active, running, pc, mine, flight,
                   wanted, left, serverVars>>

\* task.run(): the tasks come in the arbitrary order of a HashMap.
RunTask(n) ==
    /\ running = NoTask /\ n \in todo
    /\ todo' = todo \ {n} /\ running' = n
    /\ flight' = [flight EXCEPT ![Redo] = Waiting]
    /\ UNCHANGED <<vars, pending, map, keyOf, active, pc, mine, wanted, left,
                   serverVars>>

\* The call back of NamingRedoTask::run.  Every response is Ok(()), whatever
\* its result code; only a failed call keeps the task active.
TaskRan ==
    /\ running # NoTask /\ Returned(Redo)
    /\ active' = IF flight[Redo].st = "broken" THEN active \cup {running}
                 ELSE active \ {running}
    /\ running' = NoTask
    /\ flight' = [flight EXCEPT ![Redo] = Quiet]
    /\ UNCHANGED <<vars, pending, map, keyOf, todo, pc, mine, wanted, left,
                   serverVars>>

-----------------------------------------------------------------------------
Connection ==
    \/ Reopen \/ Reconnect
    \/ ConnectedCallback \/ DisconnectedCallback \/ OnReconnect \/ OnDisconnect

Network(f) == SendRequest(f) \/ Apply(f) \/ Reject(f) \/ Answer(f) \/ Break(f)

Caller(k) ==
    \/ AddTask(k) \/ RegisterReturns(k)
    \/ DeregisterAnswered(k) \/ RemoveTask(k)

Executor == RedoRound \/ TaskRan \/ \E n \in Tasks : RunTask(n)

RedoNext ==
    \/ Connection
    \/ \E s \in Sessions : SessionLost(s)
    \/ \E f \in Senders : Network(f)
    \/ \E k \in Keys : Register(k) \/ Deregister(k) \/ Caller(k)
    \/ Executor

RedoSpec == RedoInit /\ [][RedoNext]_allVars

\* Every task runs, requests on a live session are answered, requests on a
\* dead one fail, and the connection comes back.  Callers need not call and
\* sessions need not be lost.
RedoFairness ==
    /\ WF_allVars(Reopen /\ watch \notin live) /\ WF_allVars(Reconnect)
    /\ WF_allVars(ConnectedCallback) /\ WF_allVars(DisconnectedCallback)
    /\ WF_allVars(OnReconnect) /\ WF_allVars(OnDisconnect)
    /\ \A f \in Senders : WF_allVars(Network(f))
    /\ \A k \in Keys : WF_allVars(Caller(k))
    /\ WF_allVars(Executor)

FairRedoSpec == RedoSpec /\ RedoFairness

-----------------------------------------------------------------------------
(* Properties.                                                             *)

\* The read guard held across a round: every task the executor is running or
\* has still to run is the task of its key in the map.
RoundWithinMap == \A n \in todo \cup ({running} \ {NoTask}) : n \in InMap

\* Once deregister has returned Ok, and until the next register call, no redo
\* request for the key is on its way any more.
NoRedoAfterLeaving ==
    \A k \in left : running # NoTask => keyOf[running] # k

\* Every call returns, although add_task and remove_task wait for requests
\* the executor makes.
CallsReturn == \A k \in Keys : pc[k] # "idle" ~> pc[k] = "idle"

\* An instance that is wanted is, always again, registered in the session that
\* is up: the redo tasks restore it after every loss.
RegisteredNow(k) ==
    watch \in live /\ registered[watch][k] = wanted[k]
WantedIsRegistered ==
    \A k \in Keys : []<>(wanted[k] # NoTask => RegisteredNow(k))

\* (Not kept.)  A deregistered instance is not brought back by a redo request
\* that was under way: once deregister has returned Ok, the server has no
\* registration of the key.
LeavingLasts ==
    \A k \in left : \A s \in live : registered[s][k] = NoTask
=============================================================================
