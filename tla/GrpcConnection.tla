--------------------------- MODULE GrpcConnection ---------------------------
(***************************************************************************)
(* The long-lived gRPC connection of a Nacos client                        *)
(* (src/common/remote/grpc/nacos_grpc_connection.rs): the state machine    *)
(* that NacosGrpcConnection::poll_ready drives, the bi-stream task spawned *)
(* for every attempt, the health-check task of FailoverConnection and one  *)
(* user request.  The listeners of the connection id are in Listeners.    *)
(*                                                                         *)
(* Time is abstracted: a sleep or a timeout may end at any moment.  The    *)
(* Buffer worker polls the state machine only while a message is queued.   *)
(* Network faults are bounded by MaxFaults; see CanFault.                  *)
(***************************************************************************)
EXTENDS Naturals

CONSTANTS
    MaxRetries,     \* max_retries.unwrap_or(1), the initialisation budget
    ProbeAttempts,  \* HEALTH_CHECK_RETRY_TIMES
    MaxFaults       \* bound: how many faults the environment injects

ASSUME ConstantsAssumption ==
    /\ MaxRetries \in Nat
    /\ ProbeAttempts \in Nat \ {0}
    /\ MaxFaults \in Nat

\* One dead link can end three attempts: its own, the next when the verdict of
\* a probe sent on it comes late, and one more when its stream task notices
\* late.  The liveness properties show that this bound is never in the way.
MaxAttempts == 3 * MaxFaults + 1
Attempts == 1..MaxAttempts
None == 0

VARIABLES
    state,         \* the enum State of the connection
    phase,         \* how far init_connection is, inside Initializing
    attempt,       \* the number of services made; the latest is the current one
    retryCount,    \* retry_count
    isInitialized, \* is_initialized
    health,        \* the AtomicBool shared by every task
    active,        \* last_active is less than HEALTH_CHECK_INTERVAL ago
    link,          \* the transport of each attempt, as the network has it
    stream,        \* the bi-stream task of each attempt
    connId,        \* the oneshot that hands the connection id to that task
    watch,         \* connection_id_watcher's value
    request,       \* one user request inside the Buffer
    probe,         \* the health-check task
    dropped,       \* FailoverConnection has been dropped
    faults         \* faults injected so far

connVars == <<state, phase, attempt, retryCount, isInitialized>>
sharedVars == <<health, active>>
streamVars == <<stream, connId>>
callVars == <<request, probe, dropped>>
envVars == <<link, faults>>
vars == <<connVars, sharedVars, streamVars, watch, callVars, envVars>>

States == {"Idle", "Connecting", "Initializing", "Connected", "Retry"}
Phases == {"none", "setup", "checking", "checked", "sent"}
Links == {"none", "up", "lost", "closed"}
\* The last two tell a task that ended and lowered the health flag, or had no
\* need to, from one that ended and told nobody.
StreamStates == {"none", "opening", "waitId", "running", "quit", "unheard"}

TypeOK ==
    /\ state \in States
    /\ phase \in Phases
    /\ attempt \in 0..MaxAttempts
    /\ retryCount \in Nat
    /\ isInitialized \in BOOLEAN
    /\ health \in BOOLEAN
    /\ active \in BOOLEAN
    /\ link \in [Attempts -> Links]
    /\ stream \in [Attempts -> StreamStates]
    /\ connId \in [Attempts -> {"pending", "sent", "dropped"}]
    /\ watch \in 0..MaxAttempts
    /\ request \in [st : {"none", "queued", "called"}, conn : 0..MaxAttempts]
    /\ probe \in [st : {"sleeping", "queued", "called", "quit"},
                  conn : 0..MaxAttempts, tries : 0..ProbeAttempts]
    /\ dropped \in BOOLEAN
    /\ faults \in 0..MaxFaults

NoRequest == [st |-> "none", conn |-> None]
Sleeping == [st |-> "sleeping", conn |-> None, tries |-> 0]

\* NacosGrpcConnection::new and FailoverConnection::new.
Init ==
    /\ state = "Idle" /\ phase = "none" /\ attempt = 0
    /\ retryCount = 0 /\ isInitialized = FALSE
    /\ health = FALSE /\ active = TRUE
    /\ link = [c \in Attempts |-> "none"]
    /\ stream = [c \in Attempts |-> "none"]
    /\ connId = [c \in Attempts |-> "pending"]
    /\ watch = None
    /\ request = NoRequest /\ probe = Sleeping /\ dropped = FALSE
    /\ faults = 0

-----------------------------------------------------------------------------
(* Shared pieces of poll_ready.                                            *)

\* The Buffer worker polls only for a message whose caller still waits.
Polled == request.st = "queued" \/ probe.st = "queued"

\* The test at the top of poll_ready's loop: no further attempt is made.
Exhausted == ~isInitialized /\ retryCount >= MaxRetries

Polling == Polled /\ ~Exhausted

\* A variant of EnterRetry that counts a failure twice.
EnterRetryTwice == state' = "Retry" /\ retryCount' = retryCount + 2

\* State::Retry is entered and the failure counted.
EnterRetry == state' = "Retry" /\ retryCount' = retryCount + 1

CanFault == faults < MaxFaults
Fault == CanFault /\ faults' = faults + 1

-----------------------------------------------------------------------------
(* The state machine, one action per arm of poll_ready.                    *)

\* A variant of OpenConnection that leaves the old id in the watch.
OpenConnectionSilently ==
    /\ Polling /\ state = "Idle" /\ attempt < MaxAttempts
    /\ state' = "Connecting" /\ attempt' = attempt + 1
    /\ link' = [link EXCEPT ![attempt + 1] = "up"]
    /\ UNCHANGED <<phase, retryCount, isInitialized, sharedVars, streamVars,
                   watch, callVars, faults>>

\* State::Idle: None is sent to the watch and a service is made.  The bound
\* on attempts is never the reason to stop: see MaxAttempts.
OpenConnection ==
    /\ Polling /\ state = "Idle" /\ attempt < MaxAttempts
    /\ watch' = None
    /\ state' = "Connecting" /\ attempt' = attempt + 1
    /\ link' = [link EXCEPT ![attempt + 1] = "up"]
    /\ UNCHANGED <<phase, retryCount, isInitialized, sharedVars, streamVars,
                   callVars, faults>>

\* State::Connecting, Ready(Ok): init_connection becomes the future polled.
ServiceMade ==
    /\ Polling /\ state = "Connecting"
    /\ state' = "Initializing" /\ phase' = "setup"
    /\ UNCHANGED <<attempt, retryCount, isInitialized, sharedVars, streamVars,
                   watch, callVars, envVars>>

\* State::Connecting, Ready(Err): no server could be chosen.
ServiceNotMade ==
    /\ Polling /\ state = "Connecting"
    /\ Fault /\ EnterRetry
    /\ link' = [link EXCEPT ![attempt] = "closed"]
    /\ UNCHANGED <<phase, attempt, isInitialized, sharedVars, streamVars,
                   watch, callVars>>

\* setup: the setup request is queued and the bi-stream task spawned.
SetupStream ==
    /\ Polling /\ phase = "setup"
    /\ phase' = "checking"
    /\ stream' = [stream EXCEPT ![attempt] = "opening"]
    /\ UNCHANGED <<state, attempt, retryCount, isInitialized, sharedVars,
                   connId, watch, callVars, envVars>>

\* check_server's answer has come.  The health checks init_connection makes
\* before it only delay it: their failures are ignored.
ServerChecked ==
    /\ Polling /\ phase = "checking" /\ link[attempt] = "up"
    /\ phase' = "checked"
    /\ UNCHANGED <<state, attempt, retryCount, isInitialized, sharedVars,
                   streamVars, watch, callVars, envVars>>

\* State::Initializing, Ready(Err): the init future is dropped, and with it
\* the sender of the connection id.
InitFails ==
    /\ phase' = "none" /\ EnterRetry
    /\ connId' = [connId EXCEPT ![attempt] = "dropped"]
    /\ UNCHANGED <<attempt, isInitialized, sharedVars, stream, watch,
                   callVars, link>>

\* check_server fails once the transport reports an error; on a silently lost
\* link it waits, for the request has no timeout.
CheckServerFails ==
    /\ Polling /\ phase = "checking" /\ link[attempt] = "closed"
    /\ InitFails /\ UNCHANGED faults

\* The server answers check_server with an error or without a connection id.
CheckServerRejected ==
    /\ Polling /\ phase = "checking" /\ link[attempt] = "up"
    /\ InitFails /\ Fault

Ended(c) == stream[c] \in {"quit", "unheard"}

\* conn_id_sender.send succeeds while the bi-stream task still exists.
SendConnectionId ==
    /\ Polling /\ phase = "checked" /\ ~Ended(attempt)
    /\ phase' = "sent"
    /\ connId' = [connId EXCEPT ![attempt] = "sent"]
    /\ UNCHANGED <<state, attempt, retryCount, isInitialized, sharedVars,
                   stream, watch, callVars, envVars>>

SendConnectionIdFails ==
    /\ Polling /\ phase = "checked" /\ Ended(attempt)
    /\ InitFails /\ UNCHANGED faults

\* State::Initializing, Ready(Ok), in the poll that sent the id: the bi-stream
\* task may already be running, or have ended, when the flag is raised.
InitComplete ==
    /\ phase = "sent"
    /\ watch' = attempt
    /\ state' = "Connected" /\ phase' = "none"
    /\ retryCount' = 0 /\ isInitialized' = TRUE
    /\ health' = TRUE /\ active' = TRUE
    /\ UNCHANGED <<attempt, streamVars, callVars, envVars>>

\* A variant of ServiceNotReady that leaves the health flag up.
ServiceNotReadyStaysHealthy ==
    /\ Polling /\ state = "Connected" /\ link[attempt] = "closed"
    /\ EnterRetry
    /\ UNCHANGED <<phase, attempt, isInitialized, sharedVars, streamVars,
                   watch, callVars, envVars>>

\* State::Connected, poll_ready of the service fails.
ServiceNotReady ==
    /\ Polling /\ state = "Connected" /\ link[attempt] = "closed"
    /\ health' = FALSE /\ EnterRetry
    /\ UNCHANGED <<phase, attempt, isInitialized, active, streamVars,
                   watch, callVars, envVars>>

\* State::Connected, the service is ready and the health flag is down.
AbandonUnhealthy ==
    /\ Polling /\ state = "Connected" /\ ~health
    /\ EnterRetry
    /\ UNCHANGED <<phase, attempt, isInitialized, sharedVars, streamVars,
                   watch, callVars, envVars>>

\* State::Retry, the back-off sleep of sleep_time(retry_count) has elapsed.
RetryElapsed ==
    /\ Polling /\ state = "Retry"
    /\ state' = "Idle"
    /\ UNCHANGED <<phase, attempt, retryCount, isInitialized, sharedVars,
                   streamVars, watch, callVars, envVars>>

-----------------------------------------------------------------------------
(* Messages served by the Buffer worker, and their answers.                *)

Serving == Polling /\ state = "Connected" /\ health

\* send_request: one user request enters the Buffer.
SubmitRequest ==
    /\ ~dropped /\ request.st = "none"
    /\ request' = [st |-> "queued", conn |-> None]
    /\ UNCHANGED <<connVars, sharedVars, streamVars, watch, probe, dropped,
                   envVars>>

ServeRequest ==
    /\ Serving /\ request.st = "queued"
    /\ request' = [st |-> "called", conn |-> attempt]
    /\ UNCHANGED <<connVars, sharedVars, streamVars, watch, probe, dropped,
                   envVars>>

\* The response future of call stores last_active, whichever connection
\* answered.
RequestAnswered ==
    /\ request.st = "called" /\ link[request.conn] = "up"
    /\ request' = NoRequest /\ active' = TRUE
    /\ UNCHANGED <<connVars, health, streamVars, watch, probe, dropped,
                   envVars>>

\* A request on a lost link has no timeout of its own: it waits for the
\* transport to give up.  An error that comes through the callback is stored as
\* activity like any answer; one that drops the callback is not.
RequestFails ==
    /\ request.st = "called" /\ link[request.conn] = "closed"
    /\ request' = NoRequest
    /\ active' = TRUE \/ UNCHANGED active
    /\ UNCHANGED <<connVars, health, streamVars, watch, probe, dropped,
                   envVars>>

\* A variant of NextProbeAttempt that makes one attempt too many.
NextProbeAttemptLate ==
    IF probe.tries <= ProbeAttempts
    THEN /\ probe' = [st |-> "queued", conn |-> None, tries |-> probe.tries + 1]
         /\ UNCHANGED health
    ELSE probe' = Sleeping /\ health' = FALSE

\* An attempt of the health check has failed.  After the last one the task
\* lowers the shared flag by compare_exchange(true, false), whichever
\* connection the flag now speaks of, and sleeps.
NextProbeAttempt ==
    IF probe.tries < ProbeAttempts
    THEN /\ probe' = [st |-> "queued", conn |-> None, tries |-> probe.tries + 1]
         /\ UNCHANGED health
    ELSE probe' = Sleeping /\ health' = FALSE

\* poll_ready answers Ready(Ok) although there is no connection, and call
\* fails the message it was polled for.
GiveUpRequest ==
    /\ Exhausted /\ request.st = "queued"
    /\ retryCount' = 0 /\ request' = NoRequest
    /\ UNCHANGED <<state, phase, attempt, isInitialized, sharedVars,
                   streamVars, watch, probe, dropped, envVars>>

GiveUpProbe ==
    /\ Exhausted /\ probe.st = "queued"
    /\ retryCount' = 0 /\ NextProbeAttempt
    /\ UNCHANGED <<state, phase, attempt, isInitialized, active,
                   streamVars, watch, request, dropped, envVars>>

-----------------------------------------------------------------------------
(* The health-check task of FailoverConnection.                            *)

ProbeStart ==
    /\ probe.st = "sleeping" /\ ~dropped /\ ~active
    /\ probe' = [st |-> "queued", conn |-> None, tries |-> 1]
    /\ UNCHANGED <<connVars, sharedVars, streamVars, watch, request,
                   dropped, envVars>>

ServeProbe ==
    /\ Serving /\ probe.st = "queued"
    /\ probe' = [probe EXCEPT !.st = "called", !.conn = attempt]
    /\ UNCHANGED <<connVars, sharedVars, streamVars, watch, request,
                   dropped, envVars>>

ProbeAnswered ==
    /\ probe.st = "called" /\ link[probe.conn] = "up"
    /\ probe' = Sleeping /\ active' = TRUE
    /\ UNCHANGED <<connVars, health, streamVars, watch, request, dropped,
                   envVars>>

\* HEALTH_CHECK_REQUEST_TIMEOUT passes while the request is in the Buffer:
\* against a connection that would have served it a fault of the environment.
ProbeTimesOut ==
    /\ probe.st = "queued"
    /\ IF Serving THEN Fault ELSE UNCHANGED faults
    /\ NextProbeAttempt
    /\ UNCHANGED <<connVars, active, streamVars, watch, request, dropped, link>>

\* No answer in time, or an error.  An error is stored as activity, like the
\* failure of any request; on a lost link there is none.
ProbeAttemptFails ==
    /\ probe.st = "called"
    /\ IF link[probe.conn] = "up" THEN Fault ELSE UNCHANGED faults
    /\ \/ UNCHANGED active
       \/ link[probe.conn] # "lost" /\ active' = TRUE
    /\ NextProbeAttempt
    /\ UNCHANGED <<connVars, streamVars, watch, request, dropped, link>>

\* FailoverConnection::drop clears active_health_check, which the task reads
\* when it wakes.
DropClient ==
    /\ ~dropped /\ request.st = "none"
    /\ dropped' = TRUE
    /\ UNCHANGED <<connVars, sharedVars, streamVars, watch, request, probe,
                   envVars>>

\* A variant of ProbeQuits that never reads active_health_check.
ProbeNeverQuits == FALSE /\ UNCHANGED vars

ProbeQuits ==
    /\ dropped /\ probe.st = "sleeping"
    /\ probe' = [Sleeping EXCEPT !.st = "quit"]
    /\ UNCHANGED <<connVars, sharedVars, streamVars, watch, request,
                   dropped, envVars>>

-----------------------------------------------------------------------------
(* The bi-stream task of attempt c.  It is never cancelled: it outlives its *)
(* connection for as long as the server keeps the stream open.              *)

StreamOpens(c) ==
    /\ stream[c] = "opening" /\ link[c] = "up"
    /\ stream' = [stream EXCEPT ![c] = "waitId"]
    /\ UNCHANGED <<connVars, sharedVars, connId, watch, callVars, envVars>>

\* The stream cannot be opened: the task returns and leaves the flag alone.
OpeningFails(c) ==
    /\ stream[c] = "opening"
    /\ stream' = [stream EXCEPT ![c] = "unheard"]
    /\ UNCHANGED <<connVars, sharedVars, connId, watch, callVars, link>>

StreamOpenFails(c) == link[c] = "closed" /\ OpeningFails(c) /\ UNCHANGED faults

\* The server refuses the stream on a transport that lives.
StreamRefused(c) == link[c] = "up" /\ OpeningFails(c) /\ Fault

ReceiveConnectionId(c) ==
    /\ stream[c] = "waitId" /\ connId[c] # "pending"
    /\ stream' = [stream EXCEPT ![c] = IF connId[c] = "sent" THEN "running"
                                       ELSE "quit"]
    /\ UNCHANGED <<connVars, sharedVars, connId, watch, callVars, envVars>>

\* A message from the server: last_active is stored before its handler runs.
StreamMessage(c) ==
    /\ stream[c] = "running" /\ link[c] = "up"
    /\ active' = TRUE
    /\ UNCHANGED <<connVars, health, streamVars, watch, callVars, envVars>>

\* A variant of LeaveStream that leaves the flag alone.
LeaveStreamQuietly(c) ==
    /\ stream[c] = "running"
    /\ stream' = [stream EXCEPT ![c] = "quit"]
    /\ UNCHANGED <<connVars, sharedVars, connId, watch, callVars, link>>

\* The stream has ended: compare_exchange(true, false) on the shared flag.
LeaveStream(c) ==
    /\ stream[c] = "running"
    /\ stream' = [stream EXCEPT ![c] = IF health THEN "quit" ELSE "unheard"]
    /\ health' = FALSE
    /\ UNCHANGED <<connVars, active, connId, watch, callVars, link>>

StreamEnds(c) == link[c] = "closed" /\ LeaveStream(c) /\ UNCHANGED faults

\* The server ends the stream, an error comes, or the reply to a message
\* cannot be sent, on a transport that lives.
StreamReset(c) == link[c] = "up" /\ LeaveStream(c) /\ Fault

-----------------------------------------------------------------------------
(* The environment: the network and the clock.                             *)

\* Somebody in the client still depends on attempt c.
Observed(c) ==
    \/ c = attempt /\ state # "Idle"
    \/ stream[c] \in {"opening", "waitId", "running"}
    \/ request.conn = c \/ probe.conn = c

\* The server or the network closes a transport in a way the client sees.
LinkCloses(c) ==
    /\ link[c] = "up" /\ Observed(c) /\ Fault
    /\ link' = [link EXCEPT ![c] = "closed"]
    /\ UNCHANGED <<connVars, sharedVars, streamVars, watch, callVars>>

\* A half-dead connection: nothing arrives any more and nobody is told.
LinkLost(c) ==
    /\ link[c] = "up" /\ Observed(c) /\ Fault
    /\ link' = [link EXCEPT ![c] = "lost"]
    /\ UNCHANGED <<connVars, sharedVars, streamVars, watch, callVars>>

\* A variant without http2 keep-alive: a lost link is never found out.
NoKeepAlive(c) == link[c] = "lost" /\ UNCHANGED vars

\* http2_keep_alive_interval and _timeout: a lost link is closed in the end.
KeepAliveTimeout(c) ==
    /\ link[c] = "lost"
    /\ link' = [link EXCEPT ![c] = "closed"]
    /\ UNCHANGED <<connVars, sharedVars, streamVars, watch, callVars,
                   faults>>

\* HEALTH_CHECK_INTERVAL passes without traffic.
IntervalPasses ==
    /\ active /\ active' = FALSE
    /\ UNCHANGED <<connVars, health, streamVars, watch, callVars, envVars>>

-----------------------------------------------------------------------------
Poll ==
    \/ OpenConnection \/ ServiceMade \/ SetupStream \/ ServerChecked
    \/ CheckServerFails \/ SendConnectionId \/ SendConnectionIdFails
    \/ InitComplete \/ AbandonUnhealthy \/ RetryElapsed

PollFault == ServiceNotMade \/ CheckServerRejected \/ ServiceNotReady

StreamTask(c) ==
    \/ StreamOpens(c) \/ StreamOpenFails(c) \/ ReceiveConnectionId(c)
    \/ StreamEnds(c)

StreamFault(c) == StreamRefused(c) \/ StreamReset(c)

ProbeTask ==
    \/ ServeProbe \/ ProbeAnswered \/ ProbeTimesOut \/ ProbeAttemptFails
    \/ GiveUpProbe \/ ProbeQuits

Next ==
    \/ Poll \/ PollFault
    \/ SubmitRequest \/ ServeRequest \/ RequestAnswered \/ RequestFails
    \/ GiveUpRequest
    \/ ProbeStart \/ ProbeTask \/ DropClient
    \/ \E c \in Attempts : StreamTask(c) \/ StreamMessage(c) \/ StreamFault(c)
    \/ \E c \in Attempts : LinkCloses(c) \/ LinkLost(c) \/ KeepAliveTimeout(c)
    \/ IntervalPasses

Spec == Init /\ [][Next]_vars

\* Tasks that can run do run; an answer that can come, comes; time passes.
\* Poll, Serve and GiveUp are strongly fair: they are enabled only while a
\* caller waits, and a caller waits for seconds, so that a transition that has
\* become possible is taken at one of the polls it causes; the Buffer serves
\* its messages in order, so that neither caller starves the other.  Faults, user
\* requests, server pushes and the drop of the client may never happen.
Fairness ==
    /\ SF_vars(Poll) /\ SF_vars(ServeRequest) /\ SF_vars(ServeProbe)
    /\ WF_vars(RequestAnswered \/ RequestFails) /\ SF_vars(GiveUpRequest)
    /\ SF_vars(GiveUpProbe)
    /\ WF_vars(ProbeStart) /\ WF_vars(ProbeTask)
    /\ \A c \in Attempts : WF_vars(StreamTask(c)) /\ WF_vars(KeepAliveTimeout(c))
    /\ WF_vars(IntervalPasses)

FairSpec == Spec /\ Fairness

\* ProbeStart needs an idle interval.  Pushes, also those of an abandoned
\* stream, can put it off for ever; here they leave such intervals again and
\* again.
GapsSpec == FairSpec /\ SF_vars(ProbeStart)

-----------------------------------------------------------------------------
(* Properties.                                                             *)

\* The flag every task shares is up only while a connection is: poll_ready
\* lowers it on the way out of Connected, or leaves because it is down.
HealthOnlyWhenConnected == health => state = "Connected"

\* Before the first success no more failures are counted than the budget of
\* poll_ready allows, so that callers are not kept waiting for more.
RetryBudget == ~isInitialized => retryCount <= MaxRetries

\* The watch channel is the Session its listeners rely on.
Announced == INSTANCE Session
                 WITH opened <- attempt, MaxSessions <- MaxAttempts
SessionRefined == Announced!SessionSpec

\* Every request that enters the Buffer is answered or failed, also when it
\* was sent on a connection that then goes silent.
RequestCompletes == request.st # "none" ~> request.st = "none"

\* Once the faults are over the client always returns to a connection that
\* lives, is taken for healthy and has its bi-stream task running, so that pushes
\* arrive again, whatever was lost before: unless the connection is deaf.  It is
\* so when its bi-stream task ended with no flag to lower: at the opening of the
\* stream, or before poll_ready raised the flag.
PushChannelUp ==
    /\ state = "Connected" /\ health
    /\ link[attempt] = "up" /\ stream[attempt] = "running"
Deaf == state = "Connected" /\ health /\ stream[attempt] = "unheard"
PushChannelRestored == []<>(PushChannelUp \/ Deaf \/ dropped)

\* The health-check task ends after the client has been dropped.
ProbeStopsAfterDrop == dropped ~> probe.st = "quit"

(* What the code does not keep: each is checked by a run that expects a    *)
(* violation.                                                              *)

\* Pushes arrive again without exception: a connection whose bi-stream task has
\* quit is not kept.
NeverDeaf == []<>(PushChannelUp \/ dropped)

\* The connection left behind by a newer attempt is destroyed: its bi-stream
\* task comes to an end.
AbandonedStreamStops ==
    \A c \in Attempts : c < attempt ~> stream[c] # "running" \/ dropped
=============================================================================
