------------------------ MODULE GrpcConnectionProofs ------------------------
(***************************************************************************)
(* Theorems of GrpcConnection, for every retry budget, number of probe     *)
(* attempts and number of faults.                                          *)
(***************************************************************************)
EXTENDS GrpcConnection, TLAPS

-----------------------------------------------------------------------------
(* The inductive invariant.                                                *)

\* init_connection exists exactly in State::Initializing.
PhaseInv == phase # "none" <=> state = "Initializing"

\* Outside Idle there is a current attempt.
AttemptInv == state # "Idle" => attempt >= 1

\* The id that Idle withdrew stays withdrawn until the attempt succeeds.
WatchInv == state \in {"Connecting", "Initializing"} => watch = None

\* A failure is counted only while the budget is not used up, unless the
\* connection has been initialised; State::Connected is reached only so.
BudgetInv ==
    /\ state = "Connected" => isInitialized
    /\ ~isInitialized => retryCount <= MaxRetries

IInv ==
    /\ TypeOK
    /\ PhaseInv /\ AttemptInv /\ WatchInv
    /\ HealthOnlyWhenConnected
    /\ BudgetInv

-----------------------------------------------------------------------------
(* Type correctness.                                                       *)

LEMMA MaxAttemptsNat == MaxAttempts \in Nat
  BY ConstantsAssumption DEF MaxAttempts

\* Every way into State::Retry.
LEMMA EnterRetryType ==
    TypeOK /\ EnterRetry => state' \in States /\ retryCount' \in Nat
  BY DEF TypeOK, EnterRetry, States

LEMMA FaultType == TypeOK /\ Fault => faults' \in 0..MaxFaults
  BY ConstantsAssumption DEF TypeOK, Fault, CanFault

LEMMA SleepingType ==
    Sleeping \in [st : {"sleeping", "queued", "called", "quit"},
                 conn : 0..MaxAttempts, tries : 0..ProbeAttempts]
<1>1. None \in 0..MaxAttempts /\ 0 \in 0..ProbeAttempts
  BY MaxAttemptsNat, ConstantsAssumption DEF None
<1>2. QED
  BY <1>1 DEF Sleeping

\* The probe either counts one more try within its limit or goes to sleep.
LEMMA NextProbeAttemptType ==
    TypeOK /\ NextProbeAttempt =>
        /\ probe' \in [st : {"sleeping", "queued", "called", "quit"},
                      conn : 0..MaxAttempts, tries : 0..ProbeAttempts]
        /\ health' \in BOOLEAN
<1> SUFFICES ASSUME TypeOK, NextProbeAttempt
             PROVE  /\ probe' \in [st : {"sleeping", "queued", "called", "quit"},
                                  conn : 0..MaxAttempts, tries : 0..ProbeAttempts]
                    /\ health' \in BOOLEAN
  OBVIOUS
<1>1. None \in 0..MaxAttempts /\ probe.tries \in 0..ProbeAttempts
  BY MaxAttemptsNat DEF None, TypeOK
<1>2. CASE probe.tries < ProbeAttempts
  <2>1. probe.tries + 1 \in 0..ProbeAttempts
    BY <1>1, <1>2, ConstantsAssumption
  <2>2. /\ probe' = [st |-> "queued", conn |-> None, tries |-> probe.tries + 1]
        /\ health' = health
    BY <1>2 DEF NextProbeAttempt
  <2>3. QED
    BY <1>1, <2>1, <2>2 DEF TypeOK
<1>3. CASE ~(probe.tries < ProbeAttempts)
  <2>1. probe' = Sleeping /\ health' = FALSE
    BY <1>3 DEF NextProbeAttempt
  <2>2. QED
    BY <1>1, <2>1, SleepingType
<1>4. QED
  BY <1>2, <1>3

LEMMA TypeOKInit == Init => TypeOK
<1> SUFFICES ASSUME Init PROVE TypeOK
  OBVIOUS
<1>1. None \in 0..MaxAttempts /\ 0 \in 0..MaxFaults /\ 0 \in Nat
  BY MaxAttemptsNat, ConstantsAssumption DEF None
<1>2. /\ link \in [Attempts -> Links] /\ stream \in [Attempts -> StreamStates]
      /\ connId \in [Attempts -> {"pending", "sent", "dropped"}]
  BY DEF Init, Links, StreamStates
<1>3. request \in [st : {"none", "queued", "called"}, conn : 0..MaxAttempts]
  BY <1>1 DEF Init, NoRequest
<1>4. QED
  BY <1>1, <1>2, <1>3, SleepingType
  DEF Init, TypeOK, States, Phases, None

\* Every variable keeps its type: attempt stays within the bound, and the
\* probe never counts more tries than HEALTH_CHECK_RETRY_TIMES.
LEMMA TypeOKStep == TypeOK /\ [Next]_vars => TypeOK'
<1> SUFFICES ASSUME TypeOK, [Next]_vars PROVE TypeOK'
  OBVIOUS
<1> USE ConstantsAssumption, MaxAttemptsNat
    DEF TypeOK, vars, connVars, sharedVars, streamVars, callVars, envVars,
        States, Phases, Links, StreamStates, None
<1>1. CASE OpenConnection
  <2>1. attempt' \in 0..MaxAttempts
    BY <1>1 DEF OpenConnection
  <2>2. link' \in [Attempts -> Links]
    BY <1>1 DEF OpenConnection
  <2>3. state' \in States /\ watch' \in 0..MaxAttempts
    BY <1>1 DEF OpenConnection
  <2>4. QED
    BY <1>1, <2>1, <2>2, <2>3 DEF OpenConnection
<1>2. CASE ServiceMade
  BY <1>2 DEF ServiceMade
<1>3. CASE SetupStream
  BY <1>3 DEF SetupStream
<1>4. CASE ServerChecked
  BY <1>4 DEF ServerChecked
<1>5. CASE CheckServerFails
  BY <1>5, EnterRetryType DEF CheckServerFails, InitFails
<1>6. CASE SendConnectionId
  BY <1>6 DEF SendConnectionId
<1>7. CASE SendConnectionIdFails
  BY <1>7, EnterRetryType DEF SendConnectionIdFails, InitFails
<1>8. CASE InitComplete
  BY <1>8 DEF InitComplete
<1>9. CASE AbandonUnhealthy
  BY <1>9, EnterRetryType DEF AbandonUnhealthy
<1>10. CASE RetryElapsed
  BY <1>10 DEF RetryElapsed
<1>11. CASE ServiceNotMade
  <2>1. link' \in [Attempts -> Links]
    BY <1>11 DEF ServiceNotMade
  <2>2. faults' \in 0..MaxFaults
    BY <1>11, FaultType DEF ServiceNotMade
  <2>3. state' \in States /\ retryCount' \in Nat
    BY <1>11, EnterRetryType DEF ServiceNotMade
  <2>4. QED
    BY <1>11, <2>1, <2>2, <2>3 DEF ServiceNotMade
<1>12. CASE CheckServerRejected
  BY <1>12, EnterRetryType, FaultType DEF CheckServerRejected, InitFails
<1>13. CASE ServiceNotReady
  BY <1>13, EnterRetryType DEF ServiceNotReady
<1>14. CASE SubmitRequest
  BY <1>14 DEF SubmitRequest
<1>15. CASE ServeRequest
  BY <1>15 DEF ServeRequest, Serving, Polling
<1>16. CASE RequestAnswered
  BY <1>16 DEF RequestAnswered, NoRequest
<1>17. CASE RequestFails
  <2>1. active' \in BOOLEAN
    BY <1>17 DEF RequestFails
  <2>2. request' \in [st : {"none", "queued", "called"}, conn : 0..MaxAttempts]
    BY <1>17 DEF RequestFails, NoRequest
  <2>3. QED
    BY <1>17, <2>1, <2>2 DEF RequestFails
<1>18. CASE GiveUpRequest
  BY <1>18 DEF GiveUpRequest, NoRequest
<1>19. CASE ProbeStart
  BY <1>19 DEF ProbeStart
<1>20. CASE ServeProbe
  BY <1>20 DEF ServeProbe
<1>21. CASE ProbeAnswered
  BY <1>21 DEF ProbeAnswered, Sleeping
<1>22. CASE ProbeAttemptFails
  <2>1. active' \in BOOLEAN
    BY <1>22 DEF ProbeAttemptFails
  <2>2. faults' \in 0..MaxFaults
    BY <1>22, FaultType DEF ProbeAttemptFails
  <2>3. QED
    BY <1>22, <2>1, <2>2, NextProbeAttemptType DEF ProbeAttemptFails
<1>22a. CASE ProbeTimesOut
  BY <1>22a, NextProbeAttemptType, FaultType DEF ProbeTimesOut
<1>23. CASE GiveUpProbe
  BY <1>23, NextProbeAttemptType DEF GiveUpProbe
<1>24. CASE ProbeQuits
  BY <1>24 DEF ProbeQuits, Sleeping
<1>25. CASE DropClient
  BY <1>25 DEF DropClient
<1>26. ASSUME NEW c \in Attempts, StreamOpens(c) PROVE TypeOK'
  BY <1>26 DEF StreamOpens
<1>27. ASSUME NEW c \in Attempts, StreamOpenFails(c) \/ StreamRefused(c) PROVE TypeOK'
  BY <1>27, FaultType DEF StreamOpenFails, StreamRefused, OpeningFails
<1>28. ASSUME NEW c \in Attempts, ReceiveConnectionId(c) PROVE TypeOK'
  BY <1>28 DEF ReceiveConnectionId
<1>29. ASSUME NEW c \in Attempts, StreamEnds(c) \/ StreamReset(c) PROVE TypeOK'
  <2>1. LeaveStream(c) /\ faults' \in 0..MaxFaults
    BY <1>29, FaultType DEF StreamEnds, StreamReset
  <2>2. stream' \in [Attempts -> StreamStates]
    BY <2>1 DEF LeaveStream
  <2>3. QED
    BY <2>1, <2>2 DEF LeaveStream
<1>30. ASSUME NEW c \in Attempts, StreamMessage(c) PROVE TypeOK'
  BY <1>30 DEF StreamMessage
<1>31. ASSUME NEW c \in Attempts, LinkCloses(c) PROVE TypeOK'
  BY <1>31 DEF LinkCloses, Fault, CanFault
<1>32. ASSUME NEW c \in Attempts, LinkLost(c) PROVE TypeOK'
  BY <1>32 DEF LinkLost, Fault, CanFault
<1>33. ASSUME NEW c \in Attempts, KeepAliveTimeout(c) PROVE TypeOK'
  BY <1>33 DEF KeepAliveTimeout
<1>34. CASE IntervalPasses
  BY <1>34 DEF IntervalPasses
<1>35. CASE UNCHANGED vars
  BY <1>35
<1>36. QED
  BY <1>1, <1>2, <1>3, <1>4, <1>5, <1>6, <1>7, <1>8, <1>9, <1>10, <1>11,
     <1>12, <1>13, <1>14, <1>15, <1>16, <1>17, <1>18, <1>19, <1>20, <1>21,
     <1>22, <1>23, <1>24, <1>25, <1>26, <1>27, <1>28, <1>29, <1>30, <1>31,
     <1>32, <1>33, <1>34, <1>35, <1>22a
  DEF Next, Poll, PollFault, ProbeTask, StreamTask, StreamFault

\* The type invariant of the connection, its bi-stream tasks and its
\* health-check task.
THEOREM TypeCorrect == Spec => []TypeOK
  BY TypeOKInit, TypeOKStep, PTL DEF Spec

-----------------------------------------------------------------------------
(* The state machine and what it shares.                                   *)

\* What no action outside poll_ready touches, except that it may lower the
\* health flag.
LEMMA OutsideStep ==
    ASSUME IInv, TypeOK', UNCHANGED <<connVars, watch>>,
           health' = FALSE \/ health' = health
    PROVE  IInv'
  BY DEF IInv, PhaseInv, AttemptInv, WatchInv, HealthOnlyWhenConnected,
         BudgetInv, connVars

\* One step per action; those outside poll_ready are instances of OutsideStep.
LEMMA IInvStep == IInv /\ [Next]_vars => IInv'
<1> SUFFICES ASSUME IInv, [Next]_vars PROVE IInv'
  OBVIOUS
<1>t. TypeOK'
  BY TypeOKStep DEF IInv
<1>b. MaxRetries \in Nat /\ attempt \in Nat /\ retryCount \in Nat
  BY ConstantsAssumption, MaxAttemptsNat DEF IInv, TypeOK
<1> USE <1>t, <1>b
    DEF IInv, PhaseInv, AttemptInv, WatchInv, HealthOnlyWhenConnected,
        BudgetInv, vars, connVars, sharedVars, streamVars, callVars, envVars
<1>1. CASE OpenConnection
  BY <1>1 DEF OpenConnection, Polling, Exhausted, None
<1>2. CASE ServiceMade
  BY <1>2 DEF ServiceMade
<1>3. CASE SetupStream
  BY <1>3 DEF SetupStream
<1>4. CASE ServerChecked
  BY <1>4 DEF ServerChecked
<1>5. CASE CheckServerFails
  BY <1>5 DEF CheckServerFails, InitFails, EnterRetry, Polling, Exhausted
<1>6. CASE SendConnectionId
  BY <1>6 DEF SendConnectionId
<1>7. CASE SendConnectionIdFails
  BY <1>7 DEF SendConnectionIdFails, InitFails, EnterRetry, Polling, Exhausted
<1>8. CASE InitComplete
  BY <1>8 DEF InitComplete
<1>9. CASE AbandonUnhealthy
  BY <1>9 DEF AbandonUnhealthy, EnterRetry, Polling, Exhausted
<1>10. CASE RetryElapsed
  BY <1>10 DEF RetryElapsed
<1>11. CASE ServiceNotMade
  BY <1>11 DEF ServiceNotMade, EnterRetry, Polling, Exhausted
<1>12. CASE CheckServerRejected
  BY <1>12 DEF CheckServerRejected, InitFails, EnterRetry, Polling, Exhausted
<1>13. CASE ServiceNotReady
  BY <1>13 DEF ServiceNotReady, EnterRetry, Polling, Exhausted
<1>14. CASE GiveUpRequest
  BY <1>14 DEF GiveUpRequest
<1>15. CASE GiveUpProbe
  BY <1>15 DEF GiveUpProbe, NextProbeAttempt
<1>16. CASE SubmitRequest
  BY <1>16, OutsideStep DEF SubmitRequest
<1>17. CASE ServeRequest
  BY <1>17, OutsideStep DEF ServeRequest
<1>18. CASE RequestAnswered
  BY <1>18, OutsideStep DEF RequestAnswered
<1>19. CASE RequestFails
  BY <1>19, OutsideStep DEF RequestFails
<1>20. CASE ProbeStart
  BY <1>20, OutsideStep DEF ProbeStart
<1>21. CASE ServeProbe
  BY <1>21, OutsideStep DEF ServeProbe
<1>22. CASE ProbeAnswered
  BY <1>22, OutsideStep DEF ProbeAnswered
<1>23. CASE ProbeAttemptFails
  BY <1>23, OutsideStep DEF ProbeAttemptFails, NextProbeAttempt
<1>23a. CASE ProbeTimesOut
  BY <1>23a, OutsideStep DEF ProbeTimesOut, NextProbeAttempt
<1>24. CASE ProbeQuits
  BY <1>24, OutsideStep DEF ProbeQuits
<1>25. CASE DropClient
  BY <1>25, OutsideStep DEF DropClient
<1>26. CASE IntervalPasses
  BY <1>26, OutsideStep DEF IntervalPasses
<1>27. ASSUME NEW c \in Attempts, StreamOpens(c) PROVE IInv'
  BY <1>27, OutsideStep DEF StreamOpens
<1>28. ASSUME NEW c \in Attempts, StreamOpenFails(c) \/ StreamRefused(c) PROVE IInv'
  BY <1>28, OutsideStep DEF StreamOpenFails, StreamRefused, OpeningFails
<1>29. ASSUME NEW c \in Attempts, ReceiveConnectionId(c) PROVE IInv'
  BY <1>29, OutsideStep DEF ReceiveConnectionId
<1>30. ASSUME NEW c \in Attempts, StreamEnds(c) \/ StreamReset(c) PROVE IInv'
  BY <1>30, OutsideStep DEF StreamEnds, StreamReset, LeaveStream
<1>31. ASSUME NEW c \in Attempts, StreamMessage(c) PROVE IInv'
  BY <1>31, OutsideStep DEF StreamMessage
<1>32. ASSUME NEW c \in Attempts, LinkCloses(c) PROVE IInv'
  BY <1>32, OutsideStep DEF LinkCloses
<1>33. ASSUME NEW c \in Attempts, LinkLost(c) PROVE IInv'
  BY <1>33, OutsideStep DEF LinkLost
<1>34. ASSUME NEW c \in Attempts, KeepAliveTimeout(c) PROVE IInv'
  BY <1>34, OutsideStep DEF KeepAliveTimeout
<1>35. CASE UNCHANGED vars
  BY <1>35
<1>36. QED
  BY <1>1, <1>2, <1>3, <1>4, <1>5, <1>6, <1>7, <1>8, <1>9, <1>10, <1>11,
     <1>12, <1>13, <1>14, <1>15, <1>16, <1>17, <1>18, <1>19, <1>20, <1>21,
     <1>22, <1>23, <1>24, <1>25, <1>26, <1>27, <1>28, <1>29, <1>30, <1>31,
     <1>32, <1>33, <1>34, <1>35, <1>23a
  DEF Next, Poll, PollFault, ProbeTask, StreamTask, StreamFault

LEMMA Invariance == Spec => []IInv
<1>1. Init => IInv
  BY TypeOKInit, ConstantsAssumption
  DEF Init, IInv, PhaseInv, AttemptInv, WatchInv, HealthOnlyWhenConnected,
      BudgetInv
<1>2. QED
  BY <1>1, IInvStep, PTL DEF Spec

\* Whatever the tasks do with the shared flag, it is up only in
\* State::Connected.
THEOREM HealthTheorem == Spec => []HealthOnlyWhenConnected
  BY Invariance, PTL DEF IInv

\* The budget of max_retries bounds the failures counted before the first
\* success, for every max_retries.
THEOREM RetryBudgetTheorem == Spec => []RetryBudget
<1>1. IInv => RetryBudget
  BY DEF IInv, BudgetInv, RetryBudget
<1>2. QED
  BY <1>1, Invariance, PTL

-----------------------------------------------------------------------------
(* Refinement: the watch channel implements Session.                       *)

\* Idle is Open, the completion of init_connection is Establish, and every
\* other action leaves the session as it is.
LEMMA SessionStep ==
    IInv /\ [Next]_vars => [Announced!SessionNext]_(Announced!sessionVars)
<1> SUFFICES ASSUME IInv, [Next]_vars
             PROVE  [Announced!SessionNext]_(Announced!sessionVars)
  OBVIOUS
<1> USE DEF Announced!sessionVars, vars, connVars, sharedVars, streamVars,
            callVars, envVars
<1>1. CASE OpenConnection
  BY <1>1 DEF OpenConnection, Announced!SessionNext, Announced!Open,
              Announced!None, None
<1>2. CASE InitComplete
  <2>1. attempt > 0 /\ watch = None
    BY <1>2, MaxAttemptsNat
    DEF InitComplete, IInv, TypeOK, PhaseInv, AttemptInv, WatchInv
  <2>2. QED
    BY <1>2, <2>1 DEF InitComplete, Announced!SessionNext,
                      Announced!Establish, Announced!None, None
<1>3. CASE UNCHANGED vars
  BY <1>3
<1>4. CASE ServiceMade
  BY <1>4 DEF ServiceMade
<1>5. CASE SetupStream
  BY <1>5 DEF SetupStream
<1>6. CASE ServerChecked
  BY <1>6 DEF ServerChecked
<1>7. CASE CheckServerFails
  BY <1>7 DEF CheckServerFails, InitFails
<1>8. CASE SendConnectionId
  BY <1>8 DEF SendConnectionId
<1>9. CASE SendConnectionIdFails
  BY <1>9 DEF SendConnectionIdFails, InitFails
<1>10. CASE AbandonUnhealthy
  BY <1>10 DEF AbandonUnhealthy
<1>11. CASE RetryElapsed
  BY <1>11 DEF RetryElapsed
<1>12. CASE ServiceNotMade
  BY <1>12 DEF ServiceNotMade
<1>13. CASE CheckServerRejected
  BY <1>13 DEF CheckServerRejected, InitFails
<1>14. CASE ServiceNotReady
  BY <1>14 DEF ServiceNotReady
<1>15. CASE GiveUpRequest
  BY <1>15 DEF GiveUpRequest
<1>16. CASE GiveUpProbe
  BY <1>16 DEF GiveUpProbe
<1>17. CASE SubmitRequest
  BY <1>17 DEF SubmitRequest
<1>18. CASE ServeRequest
  BY <1>18 DEF ServeRequest
<1>19. CASE RequestAnswered
  BY <1>19 DEF RequestAnswered
<1>20. CASE RequestFails
  BY <1>20 DEF RequestFails
<1>21. CASE ProbeStart
  BY <1>21 DEF ProbeStart
<1>22. CASE ServeProbe
  BY <1>22 DEF ServeProbe
<1>23. CASE ProbeAnswered
  BY <1>23 DEF ProbeAnswered
<1>24. CASE ProbeAttemptFails
  BY <1>24 DEF ProbeAttemptFails
<1>24a. CASE ProbeTimesOut
  BY <1>24a DEF ProbeTimesOut
<1>25. CASE ProbeQuits
  BY <1>25 DEF ProbeQuits
<1>26. CASE DropClient
  BY <1>26 DEF DropClient
<1>27. CASE IntervalPasses
  BY <1>27 DEF IntervalPasses
<1>28. ASSUME NEW c \in Attempts, StreamOpens(c)
       PROVE UNCHANGED Announced!sessionVars
  BY <1>28 DEF StreamOpens
<1>29. ASSUME NEW c \in Attempts, StreamOpenFails(c) \/ StreamRefused(c)
       PROVE UNCHANGED Announced!sessionVars
  BY <1>29 DEF StreamOpenFails, StreamRefused, OpeningFails
<1>30. ASSUME NEW c \in Attempts, ReceiveConnectionId(c)
       PROVE UNCHANGED Announced!sessionVars
  BY <1>30 DEF ReceiveConnectionId
<1>31. ASSUME NEW c \in Attempts, StreamEnds(c) \/ StreamReset(c)
       PROVE UNCHANGED Announced!sessionVars
  BY <1>31 DEF StreamEnds, StreamReset, LeaveStream
<1>32. ASSUME NEW c \in Attempts, StreamMessage(c)
       PROVE UNCHANGED Announced!sessionVars
  BY <1>32 DEF StreamMessage
<1>33. ASSUME NEW c \in Attempts, LinkCloses(c)
       PROVE UNCHANGED Announced!sessionVars
  BY <1>33 DEF LinkCloses
<1>34. ASSUME NEW c \in Attempts, LinkLost(c)
       PROVE UNCHANGED Announced!sessionVars
  BY <1>34 DEF LinkLost
<1>35. ASSUME NEW c \in Attempts, KeepAliveTimeout(c)
       PROVE UNCHANGED Announced!sessionVars
  BY <1>35 DEF KeepAliveTimeout
<1>36. QED
  BY <1>1, <1>2, <1>3, <1>4, <1>5, <1>6, <1>7, <1>8, <1>9, <1>10, <1>11,
     <1>12, <1>13, <1>14, <1>15, <1>16, <1>17, <1>18, <1>19, <1>20, <1>21,
     <1>22, <1>23, <1>24, <1>25, <1>26, <1>27, <1>28, <1>29, <1>30, <1>31,
     <1>32, <1>33, <1>34, <1>35, <1>24a
  DEF Next, Poll, PollFault, ProbeTask, StreamTask, StreamFault

\* No listener of the connection id ever sees two ids without the None
\* between them, nor an id for the second time.
THEOREM SessionTheorem == Spec => SessionRefined
<1>1. Init => Announced!SessionInit
  BY DEF Init, Announced!SessionInit, Announced!None, None
<1>2. QED
  BY <1>1, SessionStep, Invariance, PTL
  DEF Spec, SessionRefined, Announced!SessionSpec
=============================================================================
