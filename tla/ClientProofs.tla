---------------------------- MODULE ClientProofs ----------------------------
(***************************************************************************)
(* Theorems of Client, for any services, lists of servers and times.       *)
(***************************************************************************)
EXTENDS Client, TLAPS

-----------------------------------------------------------------------------
(* The invariant.                                                          *)

\* The builder comes to its health check without a connection, an attempt that
\* counts is within the budget, and the keys are there before the client is.
BuildInv ==
    /\ phase = "list" => conn.st = "down" /\ attempts = 0
    /\ phase = "health" /\ conn.st \in {"listing", "connecting"} => attempts < MaxRetries
    /\ phase = "up" /\ service.plugin = "aliyun" => keys
    /\ \A c \in Callers : fetch[c].st = "answered" => fetch[c].v \in Versions

\* Only a login brings a token, the next is asked for after the hold, and a hold
\* begins with a success.
LoginInv ==
    /\ login.st = "asked" => login.t \in 0..Timeout /\ hold = 0 /\ service.plugin = "http"
    /\ login.st = "sleep" => login.t \in 0..Period
    /\ login.st = "none" \/ service.plugin # "http" => ~token.set
    /\ phase \in {"list", "health"} => login.st = "none"
    /\ hold > 0 => failures = 0

\* The time until the login under way, or the one after the sleep, is over.
Left ==
    CASE login.st = "sleep" -> login.t + 2 * Timeout
      [] login.st = "list" ->
           (IF Asked("auth") THEN Timeout - fetch["auth"].t ELSE 0) + Timeout
      [] login.st = "login" -> Timeout
      [] login.st = "asked" -> Timeout - login.t
      [] OTHER -> 0
Cycle == Period + 2 * Timeout

\* During the hold a token is as old as what has passed of it, and its request;
\* the first login after the hold begins within a cycle, and each that fails
\* costs another.
BudgetInv ==
    token.set /\ login.st # "dead" /\ failures <= Tolerated =>
        IF hold > 0 THEN token.age + hold <= Timeout + Delay + 1
        ELSE token.age + Left <= Timeout + Delay + (failures + 1) * Cycle

IInv == ClientTypeOK /\ BuildInv /\ LoginInv /\ BudgetInv

-----------------------------------------------------------------------------
(* Numbers.                                                                *)

LEMMA MinOfTwo ==
    ASSUME NEW a \in Nat, NEW b \in Nat
    PROVE  Min({a, b}) = IF a <= b THEN a ELSE b
<1>1. \E x \in {a, b} : \A y \in {a, b} : x =< y
  OBVIOUS
<1>2. Min({a, b}) \in {a, b} /\ \A y \in {a, b} : Min({a, b}) =< y
  BY <1>1 DEF Min
<1>3. QED
  BY <1>2

LEMMA Times ==
    /\ Interval \in Nat \ {0} /\ Period \in Nat \ {0} /\ Timeout \in Nat \ {0}
    /\ Ttl \in Nat \ {0} /\ Indexes \in Nat \ {0}
    /\ Tolerated \in Nat /\ MaxRetries \in Nat
    /\ Delay \in Nat /\ Cycle \in Nat
  BY ClientAssumption DEF Delay, Cycle

\* One more failure, one more cycle.
LEMMA CyclesGrow ==
    ASSUME NEW f \in Nat
    PROVE  /\ (f + 1) * Cycle + Cycle = (f + 1 + 1) * Cycle
           /\ (f + 1) * Cycle \in Nat /\ (0 + 1) * Cycle = Cycle
           /\ f <= Tolerated => (f + 1) * Cycle <= (Tolerated + 1) * Cycle
<1>1. Cycle \in Nat /\ Tolerated \in Nat
  BY Times
<1> HIDE DEF Cycle
<1>2. QED
  BY <1>1

-----------------------------------------------------------------------------
(* The requests of the provider.                                           *)

Fetch == [st : {"none", "asked", "answered"}, t : 0..Timeout, v : {None} \cup Versions]

LEMMA FetchFacts ==
    ASSUME ClientTypeOK, NEW c \in Callers
    PROVE  /\ fetch \in [Callers -> Fetch] /\ fetch[c] \in Fetch
           /\ fetch[c].st \in {"none", "asked", "answered"}
           /\ fetch[c].t \in 0..Timeout /\ fetch[c].v \in {None} \cup Versions
  BY DEF ClientTypeOK, Fetch

LEMMA FetchUpdates ==
    /\ NoFetch \in Fetch /\ NoFetch.st = "none"
    /\ [NoFetch EXCEPT !.st = "asked"] \in Fetch
    /\ [NoFetch EXCEPT !.st = "asked"].st = "asked"
    /\ [NoFetch EXCEPT !.st = "asked"].t = 0
  BY Times DEF NoFetch, Fetch

\* A request may be sent, and no answer comes of that.
LEMMA AskOrNot ==
    ASSUME ClientTypeOK, NEW c \in Callers, UNCHANGED fetch \/ Ask(c)
    PROVE  /\ fetch' \in [Callers -> Fetch]
           /\ \A d \in Callers : fetch'[d].st = "answered" => fetch'[d] = fetch[d]
           /\ \A d \in Callers \ {c} : fetch'[d] = fetch[d]
           /\ Asked("auth")' => fetch'["auth"].t \in 0..Timeout
<1>1. fetch \in [Callers -> Fetch]
  BY FetchFacts DEF ClientTypeOK, Fetch
<1>2. CASE UNCHANGED fetch
  BY <1>1, <1>2 DEF Fetch, Callers
<1>3. CASE Ask(c)
  BY <1>1, <1>3, FetchUpdates DEF Ask, Fetch, Callers
<1>4. QED
  BY <1>2, <1>3

\* A request that is over.
LEMMA FetchOver ==
    ASSUME ClientTypeOK, NEW c \in Callers, fetch' = [fetch EXCEPT ![c] = NoFetch]
    PROVE  /\ fetch' \in [Callers -> Fetch]
           /\ \A d \in Callers : fetch'[d].st = "answered" => fetch'[d] = fetch[d]
           /\ Asked("auth")' => fetch'["auth"] = fetch["auth"]
  BY FetchFacts, FetchUpdates DEF Asked, Callers, ClientTypeOK, Fetch

-----------------------------------------------------------------------------
(* The builder, the provider and the connection leave the logins alone.    *)

LEMMA LeftFacts ==
    ASSUME ClientTypeOK, LoginInv
    PROVE  Left \in 0..Cycle
<1>1. fetch["auth"].t \in 0..Timeout
  BY FetchFacts DEF Callers
<1>2. (IF Asked("auth") THEN Timeout - fetch["auth"].t ELSE 0) \in 0..Timeout
  BY <1>1, Times
<1>3. QED
  BY <1>2, Times DEF Left, Cycle, LoginInv

LEMMA LoginsStay ==
    ASSUME IInv,
           UNCHANGED <<service, login, token, hold, failures>>,
           phase' \in {"list", "health"} => phase \in {"list", "health"},
           Asked("auth")' => fetch'["auth"] = fetch["auth"]
    PROVE  LoginInv' /\ BudgetInv'
<1>1. LoginInv'
  BY DEF IInv, LoginInv
<1>2. Left' <= Left /\ Left \in Nat /\ Left' \in Int
  <2>1. fetch["auth"].t \in 0..Timeout
    BY FetchFacts DEF Callers, IInv
  <2>2. Left \in Nat
    BY LeftFacts, Times DEF IInv
  <2>3. CASE login.st = "list"
    <3>1. Asked("auth")' => Asked("auth") /\ fetch'["auth"].t = fetch["auth"].t
      BY DEF Asked
    <3>2. QED
      BY <2>1, <2>3, <3>1, Times DEF Left
  <2>4. CASE login.st # "list"
    <3>1. Left' = Left
      BY <2>4 DEF Left
    <3>2. QED
      BY <2>2, <3>1
  <2>5. QED
    BY <2>2, <2>3, <2>4
<1>3. BudgetInv'
  <2>1. token.age \in Nat /\ hold \in Nat /\ failures \in Nat
    BY DEF IInv, ClientTypeOK
  <2>2. (failures + 1) * Cycle \in Nat
    BY <2>1, CyclesGrow
  <2>3. Delay' = Delay /\ Cycle' = Cycle
    BY DEF Delay, Cycle
  <2>4. QED
    BY <1>2, <2>1, <2>2, <2>3, Times DEF IInv, BudgetInv
<1>4. QED
  BY <1>1, <1>3

LEMMA InitInv == Init => IInv
<1> SUFFICES ASSUME Init PROVE IInv
  OBVIOUS
<1>1. ClientTypeOK
  <2>1. /\ login \in [st : {"none", "list", "login", "asked", "sleep", "dead"},
                      t : 0..Timeout \cup 0..Period]
        /\ token \in [set : BOOLEAN, age : 0..(Ttl + 1)]
    BY Times DEF Init, NoLogin
  <2>2. fetch \in [Callers -> Fetch]
    BY FetchUpdates DEF Init
  <2>3. remote \in Versions /\ list = None
    BY ClientAssumption DEF Init, Versions
  <2>4. /\ age \in 0..Interval /\ index \in 0..(Indexes - 1) /\ attempts \in 0..MaxRetries
        /\ hold \in 0..(Ttl \div 10 + 1) /\ failures \in 0..(Tolerated + 1)
    BY Times DEF Init, Delay
  <2>5. conn.st = "down"
    BY DEF Init, NoConn
  <2>6. QED
    BY <2>1, <2>2, <2>3, <2>4, <2>5 DEF Init, ClientTypeOK, Phases, Fetch
<1>2. BuildInv
  BY FetchUpdates DEF Init, BuildInv, NoConn
<1>3. LoginInv
  BY DEF Init, LoginInv, NoLogin
<1>4. BudgetInv
  BY DEF Init, BudgetInv
<1>5. QED
  BY <1>1, <1>2, <1>3, <1>4 DEF IInv

\* Steps of the endpoint and the provider that change no list.
LEMMA RequestsInv ==
    ASSUME IInv, NEW c \in Callers, Requests(c) \/ ChangeList
    PROVE  IInv'
<1>1. CASE ChangeList
  <2> USE DEF ChangeList, polling, identity
  <2>1. ClientTypeOK' /\ BuildInv'
    BY <1>1 DEF IInv, ClientTypeOK, BuildInv
  <2>2. QED
    BY <1>1, <2>1, LoginsStay DEF IInv
<1>2. CASE EndpointAnswers(c)
  <2> USE DEF EndpointAnswers, polling, identity
  <2>1. /\ fetch' \in [Callers -> Fetch]
        /\ \A d \in Callers : fetch'[d].st = "answered" => fetch'[d].v \in Versions
        /\ Asked("auth")' => fetch'["auth"] = fetch["auth"]
    BY <1>2, FetchFacts DEF IInv, BuildInv, ClientTypeOK, Fetch, Asked, Callers
  <2>2. ClientTypeOK' /\ BuildInv'
    BY <1>2, <2>1 DEF IInv, ClientTypeOK, BuildInv, Fetch
  <2>3. QED
    BY <1>2, <2>1, <2>2, LoginsStay DEF IInv
<1>3. CASE Refreshed(c)
  <2> USE DEF Refreshed, Store, polling, identity
  <2>1. /\ fetch' \in [Callers -> Fetch]
        /\ \A d \in Callers : fetch'[d].st = "answered" => fetch'[d] = fetch[d]
        /\ Asked("auth")' => fetch'["auth"] = fetch["auth"]
    BY <1>3, FetchOver DEF IInv
  <2>2. list' \in {None} \cup Versions /\ (list' # None => Parsed[list'] # << >>)
    BY <1>3, FetchFacts DEF IInv, ClientTypeOK
  <2>3. age' \in 0..Interval
    BY <1>3, Times
  <2>4. ClientTypeOK' /\ BuildInv'
    BY <1>3, <2>1, <2>2, <2>3 DEF IInv, ClientTypeOK, BuildInv, Fetch
  <2>5. QED
    BY <1>3, <2>1, <2>4, LoginsStay DEF IInv
<1>4. CASE RefreshFails(c)
  <2> USE DEF RefreshFails, polling, identity
  <2>1. /\ fetch' \in [Callers -> Fetch]
        /\ \A d \in Callers : fetch'[d].st = "answered" => fetch'[d] = fetch[d]
        /\ Asked("auth")' => fetch'["auth"] = fetch["auth"]
    BY <1>4, FetchOver DEF IInv
  <2>2. age' \in 0..Interval
    BY <1>4, Times
  <2>3. ClientTypeOK' /\ BuildInv'
    BY <1>4, <2>1, <2>2 DEF IInv, ClientTypeOK, BuildInv, Fetch
  <2>4. QED
    BY <1>4, <2>1, <2>3, LoginsStay DEF IInv
<1>5. QED
  BY <1>1, <1>2, <1>3, <1>4 DEF Requests

\* A list that is not empty has come, and with it the polling.
LEMMA ProvidedInv ==
    ASSUME IInv, NEW v \in Versions, phase = "list", Parsed[v] # << >>, Provided(v)
    PROVE  IInv'
<1> USE DEF Provided, identity
<1>1. /\ fetch' \in [Callers -> Fetch]
      /\ \A d \in Callers : fetch'[d].st = "answered" => fetch'[d] = fetch[d]
      /\ Asked("auth")' => fetch'["auth"] = fetch["auth"]
  BY FetchOver DEF IInv, Callers
<1>2. index' \in 0..(Indexes - 1)
  <2>1. Len(Parsed[v]) \in 0..Indexes
    BY ClientAssumption DEF Parsed, Versions
  <2>2. QED
    BY <2>1, Times
<1>3. age' \in 0..Interval
  BY Times
<1>4. ClientTypeOK'
  BY <1>1, <1>2, <1>3 DEF IInv, ClientTypeOK, Phases, Fetch
<1>5. BuildInv'
  BY <1>1 DEF IInv, BuildInv
<1>6. QED
  BY <1>1, <1>4, <1>5, LoginsStay DEF IInv

LEMMA CreatingInv ==
    ASSUME IInv, Creating
    PROVE  IInv'
<1>1. CASE CreateStatic
  BY <1>1, ProvidedInv DEF CreateStatic, IInv, ClientTypeOK
<1>2. CASE CreateEndpoint
  <2> USE DEF CreateEndpoint, polling, identity
  <2>1. UNCHANGED fetch \/ Ask("conn")
    BY <1>2
  <2>2. /\ fetch' \in [Callers -> Fetch]
        /\ \A d \in Callers : fetch'[d].st = "answered" => fetch'[d] = fetch[d]
        /\ fetch'["auth"] = fetch["auth"]
    BY <2>1, AskOrNot DEF IInv, Callers
  <2>3. ClientTypeOK' /\ BuildInv'
    BY <1>2, <2>2 DEF IInv, ClientTypeOK, BuildInv, Fetch, Phases
  <2>4. QED
    BY <1>2, <2>2, <2>3, LoginsStay DEF IInv
<1>3. CASE EndpointCreated
  <2>1. fetch["conn"].v \in Versions
    BY <1>3 DEF EndpointCreated, IInv, BuildInv, Callers
  <2>2. QED
    BY <1>3, <2>1, ProvidedInv DEF EndpointCreated
<1>4. CASE EndpointFails
  <2> USE DEF EndpointFails, polling, identity
  <2>1. /\ fetch' \in [Callers -> Fetch]
        /\ \A d \in Callers : fetch'[d].st = "answered" => fetch'[d] = fetch[d]
        /\ Asked("auth")' => fetch'["auth"] = fetch["auth"]
    BY <1>4, FetchOver DEF IInv, Callers
  <2>2. ClientTypeOK' /\ BuildInv'
    BY <1>4, <2>1 DEF IInv, ClientTypeOK, BuildInv, Fetch, Phases
  <2>3. QED
    BY <1>4, <2>1, <2>2, LoginsStay DEF IInv
<1>5. CASE StaticFails
  <2> USE DEF StaticFails, provider, polling, identity
  <2>1. ClientTypeOK' /\ BuildInv'
    BY <1>5 DEF IInv, ClientTypeOK, BuildInv, Phases
  <2>2. QED
    BY <1>5, <2>1, LoginsStay DEF IInv
<1>6. QED
  BY <1>1, <1>2, <1>3, <1>4, <1>5 DEF Creating

LEMMA ConnectingInv ==
    ASSUME IInv, Connecting
    PROVE  IInv'
<1> USE DEF provider, identity, Connects
<1>1. CASE Call
  <2> USE DEF Call
  <2>1. UNCHANGED fetch \/ Ask("conn")
    BY <1>1
  <2>2. /\ fetch' \in [Callers -> Fetch]
        /\ \A d \in Callers : fetch'[d].st = "answered" => fetch'[d] = fetch[d]
        /\ fetch'["auth"] = fetch["auth"]
    BY <2>1, AskOrNot DEF IInv, Callers
  <2>3. index' \in 0..(Indexes - 1) /\ conn'.st = "listing"
    <3>1. index + 1 \in Nat /\ Indexes \in Nat \ {0}
      BY Times DEF IInv, ClientTypeOK
    <3>2. (index + 1) % Indexes \in 0..(Indexes - 1)
      BY <3>1
    <3>3. QED
      BY <1>1, <3>2 DEF NoConn
  <2>4. ClientTypeOK'
    BY <1>1, <2>2, <2>3 DEF IInv, ClientTypeOK, Fetch
  <2>5. BuildInv'
    BY <1>1, <2>2, <2>3 DEF IInv, BuildInv, MayTry
  <2>6. QED
    BY <1>1, <2>2, <2>4, <2>5, LoginsStay DEF IInv
<1>2. ASSUME conn.st \in {"listing", "connecting"}, Connects, AttemptFails,
             UNCHANGED <<service, phase, provider, index, login, identity>>
      PROVE  IInv'
  <2>1. conn'.st = "down" /\ attempts' \in 0..MaxRetries
    BY <1>2, Times DEF AttemptFails, NoConn, IInv, ClientTypeOK, BuildInv
  <2>2. ClientTypeOK' /\ BuildInv'
    BY <1>2, <2>1 DEF IInv, ClientTypeOK, BuildInv
  <2>3. QED
    BY <1>2, <2>2, LoginsStay DEF IInv
<1>3. ASSUME conn.st \in {"listing", "connecting", "connected"}, Connects,
             conn'.st \in {"connecting", "connected", "down"},
             conn'.st = "connecting" => conn.st = "listing",
             UNCHANGED <<service, phase, provider, index, attempts, login, identity>>
      PROVE  IInv'
  <2>1. ClientTypeOK' /\ BuildInv'
    BY <1>3 DEF IInv, ClientTypeOK, BuildInv
  <2>2. QED
    BY <1>3, <2>1, LoginsStay DEF IInv
<1>4. CASE Choose
  BY <1>2, <1>3, <1>4 DEF Choose, NoConn
<1>5. CASE Connected
  BY <1>3, <1>5 DEF Connected, NoConn
<1>6. CASE Unreachable
  BY <1>2, <1>6 DEF Unreachable
<1>7. CASE Disconnected
  BY <1>3, <1>7 DEF Disconnected, NoConn
<1>8. QED
  BY <1>1, <1>4, <1>5, <1>6, <1>7 DEF Connecting

-----------------------------------------------------------------------------
(* The logins.                                                             *)

Login1 == [st : {"none", "list", "login", "asked", "sleep", "dead"},
           t : 0..Timeout \cup 0..Period]

\* With a login the time left is a cycle at most, and the state is in its type.
LEMMA LoginBegins ==
    ASSUME IInv, login' = [NoLogin EXCEPT !.st = "list"], UNCHANGED fetch \/ Ask("auth")
    PROVE  /\ login' \in Login1 /\ login'.st = "list"
           /\ fetch' \in [Callers -> Fetch]
           /\ \A d \in Callers : fetch'[d].st = "answered" => fetch'[d] = fetch[d]
           /\ Left' \in 0..Cycle /\ Left' <= 2 * Timeout
<1>1. login' \in Login1 /\ login'.st = "list"
  BY Times DEF NoLogin, Login1
<1>2. /\ fetch' \in [Callers -> Fetch]
      /\ \A d \in Callers : fetch'[d].st = "answered" => fetch'[d] = fetch[d]
      /\ Asked("auth")' => fetch'["auth"].t \in 0..Timeout
  BY AskOrNot DEF IInv, Callers
<1>3. Left' = (IF Asked("auth")' THEN Timeout - fetch'["auth"].t ELSE 0) + Timeout
  BY <1>1 DEF Left
<1>4. QED
  BY <1>1, <1>2, <1>3, Times DEF Cycle

LEMMA LoginOverFacts ==
    ASSUME IInv, LoginOver
    PROVE  /\ login' \in Login1 /\ login'.st \in {"list", "sleep"}
           /\ login'.st = "sleep" => login'.t \in 0..Period
           /\ fetch' \in [Callers -> Fetch]
           /\ \A d \in Callers : fetch'[d].st = "answered" => fetch'[d] = fetch[d]
           /\ Left' \in 0..Cycle
           /\ phase' = IF phase = "login" THEN "up" ELSE phase
<1>1. CASE phase = "login"
  <2>1. UNCHANGED fetch \/ Ask("auth")
    BY <1>1 DEF LoginOver
  <2>2. login' = [NoLogin EXCEPT !.st = "list"] /\ phase' = "up"
    BY <1>1 DEF LoginOver
  <2>3. QED
    BY <1>1, <2>1, <2>2, LoginBegins
<1>2. CASE phase # "login"
  <2>1. login' = [st |-> "sleep", t |-> Period] /\ phase' = phase /\ fetch' = fetch
    BY <1>2 DEF LoginOver
  <2>2. login' \in Login1 /\ login'.st = "sleep" /\ login'.t = Period
    BY <2>1, Times DEF Login1
  <2>3. Left' = Cycle
    BY <2>2 DEF Left, Cycle
  <2>4. QED
    BY <1>2, <2>1, <2>2, <2>3, Times, FetchFacts DEF IInv, Callers
<1>3. QED
  BY <1>1, <1>2

\* What the type of the other variables needs in the steps of a login.
LEMMA LoginTypeOK ==
    ASSUME IInv, UNCHANGED <<service, remote, list, age, polling>>,
           phase' \in Phases,
           login' \in Login1,
           fetch' \in [Callers -> Fetch],
           \A d \in Callers : fetch'[d].st = "answered" => fetch'[d] = fetch[d],
           token' \in [set : BOOLEAN, age : 0..(Ttl + 1)],
           hold' \in 0..(Ttl \div 10 + 1), keys' \in BOOLEAN,
           failures' \in 0..(Tolerated + 1),
           phase' \notin {"list", "health"},
           phase' = "up" /\ service.plugin = "aliyun" => keys'
    PROVE  ClientTypeOK' /\ BuildInv'
<1>1. ClientTypeOK'
  BY DEF IInv, ClientTypeOK, Login1, Fetch, polling
<1>2. BuildInv'
  BY DEF IInv, BuildInv, polling
<1>3. QED
  BY <1>1, <1>2

\* A step that neither makes a token nor shortens its budget: the time left does
\* not grow, or the hold goes on.
LEMMA BudgetStays ==
    ASSUME IInv, UNCHANGED <<token, hold, failures>>, Left' \in Int,
           login.st # "dead",
           hold > 0 \/ Left' <= Left
    PROVE  BudgetInv'
<1>1. token.age \in Nat /\ hold \in Nat /\ failures \in Nat
  BY DEF IInv, ClientTypeOK
<1>2. Left \in 0..Cycle /\ (failures + 1) * Cycle \in Nat
  BY <1>1, LeftFacts, CyclesGrow DEF IInv
<1>3. Delay' = Delay /\ Cycle' = Cycle
  BY DEF Delay, Cycle
<1>4. QED
  BY <1>1, <1>2, <1>3, Times DEF IInv, BudgetInv

\* A health check has an end, and a login follows: there is no token yet.
LEMMA HealthCheckInv ==
    ASSUME IInv, HealthCheck
    PROVE  IInv'
<1>1. phase = "health" /\ UNCHANGED <<service, remote, list, age, polling, identity>>
  BY DEF HealthCheck, HealthCheckPasses, HealthCheckFails
<1>2. ~token.set /\ login.st = "none"
  BY <1>1 DEF IInv, LoginInv
<1>3. UNCHANGED <<token, hold, keys, failures>>
  BY <1>1 DEF identity
<1>4. CASE phase' = "login"
  <2>1. login' = [NoLogin EXCEPT !.st = "list"] /\ (UNCHANGED fetch \/ Ask("auth"))
    BY <1>4 DEF HealthCheck, HealthCheckPasses, HealthCheckFails
  <2>2. ClientTypeOK' /\ BuildInv'
    BY <1>1, <1>3, <1>4, <2>1, LoginBegins, LoginTypeOK
       DEF IInv, ClientTypeOK, Phases
  <2>3. LoginInv' /\ BudgetInv'
    BY <1>2, <1>3, <1>4, <2>1, LoginBegins DEF IInv, LoginInv, BudgetInv
  <2>4. QED
    BY <2>2, <2>3 DEF IInv
<1>5. CASE phase' # "login"
  <2>1. phase' = "failed" /\ UNCHANGED <<login, fetch>>
    BY <1>5 DEF HealthCheck, HealthCheckPasses, HealthCheckFails
  <2>2. login \in Login1 /\ fetch \in [Callers -> Fetch]
    BY FetchFacts DEF IInv, ClientTypeOK, Login1, Callers
  <2>3. ClientTypeOK' /\ BuildInv'
    BY <1>1, <1>3, <2>1, <2>2, LoginTypeOK DEF IInv, ClientTypeOK, Phases
  <2>4. LoginInv' /\ BudgetInv'
    BY <1>2, <1>3, <2>1 DEF IInv, LoginInv, BudgetInv
  <2>5. QED
    BY <2>3, <2>4 DEF IInv
<1>6. QED
  BY <1>4, <1>5

\* A login that panics leaves a dead task.
LEMMA PanicInv ==
    ASSUME IInv, login.st # "none", Panic,
           UNCHANGED <<service, remote, list, age, polling, identity>>
    PROVE  IInv'
<1>1. /\ login' \in Login1 /\ login'.st = "dead" /\ fetch' = fetch
      /\ phase' \in {phase, "panicked"} /\ (phase = "login" => phase' = "panicked")
  BY Times DEF Panic, NoLogin, Login1
<1>2. UNCHANGED <<token, hold, keys, failures>> /\ phase \notin {"list", "health"}
  BY DEF identity, IInv, LoginInv
<1>3. fetch' \in [Callers -> Fetch]
  BY <1>1, FetchFacts DEF IInv, Callers
<1>4. ClientTypeOK' /\ BuildInv'
  BY <1>1, <1>2, <1>3, LoginTypeOK DEF IInv, ClientTypeOK, BuildInv, Phases
<1>5. LoginInv' /\ BudgetInv'
  BY <1>1, <1>2 DEF IInv, LoginInv, BudgetInv
<1>6. QED
  BY <1>4, <1>5 DEF IInv

\* A login that ends as it began: without a request, during the hold or with a
\* plugin that has no token.
LEMMA SkippedInv ==
    ASSUME IInv, login.st = "login", LoginOver,
           UNCHANGED <<service, remote, list, age, polling, token, hold, failures>>,
           keys' \in BOOLEAN, phase' = "up" /\ service.plugin = "aliyun" => keys',
           hold > 0 \/ ~token.set
    PROVE  IInv'
<1>1. phase \notin {"list", "health"} /\ phase' \in Phases
  BY LoginOverFacts DEF IInv, LoginInv, ClientTypeOK, Phases
<1>2. ClientTypeOK' /\ BuildInv'
  BY <1>1, LoginOverFacts, LoginTypeOK DEF IInv, ClientTypeOK
<1>3. LoginInv'
  BY <1>1, LoginOverFacts DEF IInv, LoginInv
<1>4. BudgetInv'
  <2>1. CASE ~token.set
    BY <2>1 DEF BudgetInv
  <2>2. CASE hold > 0
    BY <2>2, LoginOverFacts, BudgetStays, Times
  <2>3. QED
    BY <2>1, <2>2
<1>5. QED
  BY <1>2, <1>3, <1>4 DEF IInv

LEMMA LoginStartsInv ==
    ASSUME IInv, LoginStarts
    PROVE  IInv'
<1> USE DEF LoginStarts
<1>1. login' \in Login1 /\ login'.st = "login"
  BY Times DEF NoLogin, Login1
<1>2. UNCHANGED <<token, hold, keys, failures, remote, list, age, fetch, polling>>
  BY DEF identity, provider
<1>3. phase \notin {"list", "health"} /\ fetch \in [Callers -> Fetch]
  BY FetchFacts DEF IInv, LoginInv, Callers
<1>4. ClientTypeOK' /\ BuildInv'
  BY <1>1, <1>2, <1>3, LoginTypeOK DEF IInv, ClientTypeOK, BuildInv
<1>5. LoginInv'
  BY <1>1, <1>2, <1>3 DEF IInv, LoginInv
<1>6. BudgetInv'
  <2>1. fetch["auth"].st = "none"
    BY FetchUpdates
  <2>2. Left = Timeout /\ Left' = Timeout
    BY <1>1, <2>1, Times DEF Left, Asked
  <2>3. QED
    BY <1>2, <2>2, BudgetStays, Times
<1>7. QED
  BY <1>4, <1>5, <1>6 DEF IInv

LEMMA NoopLoginInv ==
    ASSUME IInv, NoopLogin
    PROVE  IInv'
<1>1. UNCHANGED <<token, hold, keys, failures>> /\ ~token.set
  BY DEF NoopLogin, identity, IInv, LoginInv
<1>2. QED
  BY <1>1, SkippedInv DEF NoopLogin, IInv, ClientTypeOK

LEMMA AliyunLoginInv ==
    ASSUME IInv, AliyunLogin
    PROVE  IInv'
<1>1. CASE LoginOver /\ keys' = TRUE
  BY <1>1, SkippedInv DEF AliyunLogin, IInv, LoginInv
<1>2. CASE Panic /\ UNCHANGED keys
  BY <1>2, PanicInv DEF AliyunLogin, identity
<1>3. QED
  BY <1>1, <1>2 DEF AliyunLogin

LEMMA HttpLoginInv ==
    ASSUME IInv, HttpLogin
    PROVE  IInv'
<1>1. UNCHANGED <<token, hold, keys, failures>> /\ phase \notin {"list", "health"}
         /\ login.st = "login" /\ service.plugin = "http" /\ hold \in Nat
  BY DEF HttpLogin, identity, IInv, LoginInv, ClientTypeOK
<1>2. CASE LoginOver /\ hold > 0
  BY <1>1, <1>2, SkippedInv DEF HttpLogin, IInv, ClientTypeOK
<1>3. CASE Panic
  BY <1>1, <1>3, PanicInv DEF HttpLogin
<1>4. CASE login' = [NoLogin EXCEPT !.st = "asked"] /\ UNCHANGED <<phase, fetch>> /\ hold = 0
  <2>1. login' \in Login1 /\ login'.st = "asked" /\ login'.t = 0
    BY <1>4, Times DEF NoLogin, Login1
  <2>2. fetch \in [Callers -> Fetch]
    BY FetchFacts DEF IInv, Callers
  <2>3. ClientTypeOK' /\ BuildInv'
    BY <1>1, <1>4, <2>1, <2>2, LoginTypeOK DEF HttpLogin, IInv, ClientTypeOK, BuildInv
  <2>4. LoginInv'
    BY <1>1, <1>4, <2>1, Times DEF HttpLogin, IInv, LoginInv
  <2>5. Left = Timeout /\ Left' = Timeout
    BY <1>1, <2>1, Times DEF Left
  <2>6. BudgetInv'
    BY <1>1, <2>5, BudgetStays, Times
  <2>7. QED
    BY <2>3, <2>4, <2>6 DEF IInv
<1>5. QED
  BY <1>1, <1>2, <1>3, <1>4 DEF HttpLogin

\* The budget of a new token: its request, the hold and one cycle.
LEMMA LoginAnsweredInv ==
    ASSUME IInv, LoginAnswered
    PROVE  IInv'
<1>1. /\ login.st = "asked" /\ service.plugin = "http" /\ login.t \in 0..Timeout
      /\ phase \notin {"list", "health"} /\ phase' \in Phases
      /\ hold' = Delay + 1 /\ failures' = 0 /\ keys' = keys
      /\ UNCHANGED <<service, remote, list, age, polling>>
  BY LoginOverFacts DEF LoginAnswered, IInv, LoginInv, ClientTypeOK, Phases
<1>2. PICK a \in 0..login.t : token' = [set |-> TRUE, age |-> Min({a, Ttl + 1})]
  BY DEF LoginAnswered
<1>3. /\ token' \in [set : BOOLEAN, age : 0..(Ttl + 1)]
      /\ token'.age \in 0..Timeout
  <2>1. a \in Nat /\ a <= Timeout /\ Ttl + 1 \in Nat
    BY <1>1, Times
  <2>2. Min({a, Ttl + 1}) \in 0..(Ttl + 1) /\ Min({a, Ttl + 1}) <= a
    BY <2>1, MinOfTwo
  <2>3. PICK n \in 0..(Ttl + 1) : n <= a /\ token' = [set |-> TRUE, age |-> n]
    BY <1>2, <2>2
  <2>4. token'.age = n
    BY <2>3
  <2>5. token' \in [set : BOOLEAN, age : 0..(Ttl + 1)]
    BY <2>3
  <2>6. n \in 0..Timeout
    BY <2>1, <2>3, Times
  <2>7. QED
    BY <2>4, <2>5, <2>6
<1>4. ClientTypeOK' /\ BuildInv'
  <2>1. hold' \in 0..(Ttl \div 10 + 1) /\ failures' \in 0..(Tolerated + 1)
    BY <1>1, Times DEF Delay
  <2>2. QED
    BY <1>1, <1>3, <2>1, LoginOverFacts, LoginTypeOK DEF LoginAnswered, IInv, ClientTypeOK
<1>5. LoginInv'
  BY <1>1, LoginOverFacts DEF LoginAnswered, IInv, LoginInv
<1>6. BudgetInv'
  <2>1. Delay' = Delay /\ hold' > 0
    BY <1>1, Times DEF Delay
  <2>2. QED
    BY <1>1, <1>3, <2>1, Times DEF BudgetInv
<1>7. QED
  BY <1>4, <1>5, <1>6 DEF IInv

\* A failure: the next login is over within a cycle.
LEMMA LoginFailsInv ==
    ASSUME IInv, LoginFails
    PROVE  IInv'
<1>1. /\ login.st = "asked" /\ service.plugin = "http" /\ hold = 0
      /\ phase \notin {"list", "health"} /\ phase' \in Phases
      /\ UNCHANGED <<service, remote, list, age, polling, token, hold, keys>>
  BY LoginOverFacts DEF LoginFails, IInv, LoginInv, ClientTypeOK, Phases
<1>2. /\ failures \in Nat /\ token.age \in Nat
      /\ failures' = IF failures <= Tolerated THEN failures + 1 ELSE Tolerated + 1
  <2>1. failures \in Nat /\ token.age \in Nat
    BY DEF IInv, ClientTypeOK
  <2>2. failures + 1 \in Nat /\ Tolerated + 1 \in Nat
    BY <2>1, Times
  <2>3. failures' = Min({failures + 1, Tolerated + 1})
    BY DEF LoginFails
  <2>4. QED
    BY <2>1, <2>2, <2>3, MinOfTwo, Times
<1>3. ClientTypeOK' /\ BuildInv'
  <2>1. failures' \in 0..(Tolerated + 1)
    BY <1>2, Times
  <2>2. QED
    BY <1>1, <2>1, LoginOverFacts, LoginTypeOK DEF LoginFails, IInv, ClientTypeOK
<1>4. LoginInv'
  BY <1>1, LoginOverFacts DEF LoginFails, IInv, LoginInv
<1>5. BudgetInv'
  <2>1. SUFFICES ASSUME token.set, failures' <= Tolerated
                 PROVE  token.age + Left' <= Timeout + Delay + (failures' + 1) * Cycle
    BY <1>1 DEF BudgetInv, Delay, Cycle
  <2>2. failures <= Tolerated /\ failures' = failures + 1
    BY <1>2, <2>1, Times
  <2>3. token.age + Left <= Timeout + Delay + (failures + 1) * Cycle /\ Left \in Nat
    BY <1>1, <2>1, <2>2, LeftFacts, Times DEF IInv, BudgetInv
  <2>4. Left' \in 0..Cycle
    BY LoginOverFacts DEF LoginFails
  <2>5. /\ (failures + 1) * Cycle + Cycle = (failures' + 1) * Cycle
        /\ (failures + 1) * Cycle \in Nat
    BY <1>2, <2>2, CyclesGrow
  <2>6. QED
    BY <1>2, <2>3, <2>4, <2>5, Times
<1>6. QED
  BY <1>3, <1>4, <1>5 DEF IInv

LEMMA WakeUpInv ==
    ASSUME IInv, WakeUp
    PROVE  IInv'
<1>1. /\ login.st = "sleep" /\ login.t = 0
      /\ login' = [NoLogin EXCEPT !.st = "list"] /\ (UNCHANGED fetch \/ Ask("auth"))
      /\ UNCHANGED <<service, phase, remote, list, age, polling, token, hold, keys, failures>>
  BY DEF WakeUp, identity
<1>2. phase \notin {"list", "health"}
  BY <1>1 DEF IInv, LoginInv
<1>3. ClientTypeOK' /\ BuildInv'
  BY <1>1, <1>2, LoginBegins, LoginTypeOK DEF IInv, ClientTypeOK, BuildInv
<1>4. LoginInv'
  BY <1>1, <1>2, LoginBegins DEF IInv, LoginInv
<1>5. BudgetInv'
  <2>1. Left = 2 * Timeout
    BY <1>1, Times DEF Left
  <2>2. QED
    BY <1>1, <2>1, LoginBegins, BudgetStays, Times
<1>6. QED
  BY <1>3, <1>4, <1>5 DEF IInv

-----------------------------------------------------------------------------
(* Time.                                                                   *)

\* Who is late does not let time pass, so that what is left shrinks with it.
LEMMA TickLeft ==
    ASSUME IInv, Tick, login.st \notin {"none", "dead"}
    PROVE  Left' = Left - 1 /\ Left \in 1..Cycle
<1>1. /\ login.t \in Nat /\ fetch["auth"].t \in 0..Timeout
      /\ login.st \in {"list", "login", "asked", "sleep"}
  BY FetchFacts, Times DEF IInv, ClientTypeOK, Callers
<1>2. CASE login.st = "sleep"
  <2>1. login'.st = "sleep" /\ login'.t = login.t - 1 /\ login.t \in 1..Period
    <3>1. login' = [login EXCEPT !.t = @ - 1] /\ login.t > 0
      BY <1>2 DEF Tick, CanWait
    <3>2. login \in Login1
      BY DEF IInv, ClientTypeOK, Login1
    <3>3. login'.st = login.st /\ login'.t = login.t - 1
      BY <3>1, <3>2 DEF Login1
    <3>4. login.t \in 1..Period
      BY <1>2, <3>1, Times DEF IInv, LoginInv
    <3>5. QED
      BY <1>2, <3>3, <3>4
  <2>2. QED
    BY <1>2, <2>1, Times DEF Left, Cycle
<1>3. CASE login.st = "asked"
  <2>1. login'.st = "asked" /\ login'.t = login.t + 1 /\ login.t < Timeout
    BY <1>3 DEF Tick, CanWait, IInv, ClientTypeOK
  <2>2. QED
    BY <1>1, <1>3, <2>1, Times DEF Left, Cycle
<1>4. CASE login.st = "list"
  <2>1. login' = login /\ Asked("auth") /\ fetch["auth"].t < Timeout
    BY <1>4 DEF Tick, CanWait, Callers
  <2>2. fetch'["auth"].t = fetch["auth"].t + 1 /\ Asked("auth")'
    BY <2>1, FetchFacts DEF Tick, Asked, Callers, IInv, ClientTypeOK
  <2>3. QED
    BY <1>1, <1>4, <2>1, <2>2, Times DEF Left, Cycle
<1>5. CASE login.st = "login"
  BY <1>5 DEF Tick, CanWait
<1>6. QED
  BY <1>1, <1>2, <1>3, <1>4, <1>5

LEMMA TickInv ==
    ASSUME IInv, Tick
    PROVE  IInv'
<1>1. UNCHANGED <<service, phase, remote, list, index, conn, attempts, keys, failures>>
  BY DEF Tick, polling
<1>2. /\ token.set \in BOOLEAN /\ token.age \in 0..(Ttl + 1) /\ hold \in 0..(Ttl \div 10 + 1)
      /\ age \in 0..Interval /\ failures \in Nat
  BY DEF IInv, ClientTypeOK
<1>3. /\ token' \in [set : BOOLEAN, age : 0..(Ttl + 1)]
      /\ token'.set = token.set /\ token'.age <= token.age + 1
  <2>1. CASE token.set
    <3>1. Min({token.age + 1, Ttl + 1}) = IF token.age + 1 <= Ttl + 1 THEN token.age + 1 ELSE Ttl + 1
      BY <1>2, MinOfTwo, Times
    <3>2. token' = [token EXCEPT !.age = Min({token.age + 1, Ttl + 1})]
      BY <2>1 DEF Tick
    <3>3. token \in [set : BOOLEAN, age : 0..(Ttl + 1)]
      BY DEF IInv, ClientTypeOK
    <3>4. Min({token.age + 1, Ttl + 1}) \in 0..(Ttl + 1)
             /\ Min({token.age + 1, Ttl + 1}) <= token.age + 1
      BY <1>2, <3>1, Times
    <3>5. QED
      BY <3>2, <3>3, <3>4
  <2>2. CASE ~token.set
    BY <1>2, <2>2, Times DEF Tick, IInv, ClientTypeOK
  <2>3. QED
    BY <2>1, <2>2
<1>4. hold' = (IF hold = 0 THEN 0 ELSE hold - 1) /\ hold' \in 0..(Ttl \div 10 + 1)
  <2>1. Ttl \div 10 \in Nat
    BY Times DEF Delay
  <2>2. hold' = IF hold = 0 THEN 0 ELSE hold - 1
    BY DEF Tick
  <2>3. QED
    BY <1>2, <2>1, <2>2
<1>5. age' \in 0..Interval
  <2>1. Min({age + 1, Interval}) \in 0..Interval
    BY <1>2, MinOfTwo, Times
  <2>2. QED
    BY <2>1, Times DEF Tick
<1>6. /\ fetch' \in [Callers -> Fetch]
      /\ \A c \in Callers : fetch'[c].st = "answered" => fetch'[c] = fetch[c]
  <2>1. ASSUME NEW c \in Callers
        PROVE  /\ (IF Asked(c) THEN [fetch[c] EXCEPT !.t = @ + 1] ELSE fetch[c]) \in Fetch
               /\ Asked(c) => [fetch[c] EXCEPT !.t = @ + 1].st = "asked"
    <3>1. Asked(c) => fetch[c].t + 1 \in 0..Timeout
      BY FetchFacts, Times DEF Tick, CanWait, IInv
    <3>2. fetch[c] \in Fetch
      BY FetchFacts DEF IInv
    <3>3. QED
      BY <3>1, <3>2 DEF Fetch, Asked
  <2>2. fetch' = [c \in Callers |-> IF Asked(c) THEN [fetch[c] EXCEPT !.t = @ + 1] ELSE fetch[c]]
    BY DEF Tick
  <2>3. QED
    BY <2>1, <2>2
<1>7. /\ login' \in Login1 /\ login'.st = login.st
      /\ login'.st = "asked" => login'.t \in 0..Timeout
      /\ login'.st = "sleep" => login'.t \in 0..Period
  <2>1. login \in Login1
    BY DEF IInv, ClientTypeOK, Login1
  <2>2. CASE login.st = "asked"
    <3>1. login' = [login EXCEPT !.t = @ + 1] /\ login.t + 1 \in 0..Timeout
      BY <2>2, Times DEF Tick, CanWait, IInv, LoginInv
    <3>2. QED
      BY <2>1, <2>2, <3>1 DEF Login1
  <2>3. CASE login.st = "sleep"
    <3>1. login' = [login EXCEPT !.t = @ - 1] /\ login.t - 1 \in 0..Period
      BY <2>3, Times DEF Tick, CanWait, IInv, LoginInv
    <3>2. QED
      BY <2>1, <2>3, <3>1 DEF Login1
  <2>4. CASE login.st \notin {"asked", "sleep"}
    BY <2>1, <2>4 DEF Tick
  <2>5. QED
    BY <2>2, <2>3, <2>4
<1>8. ClientTypeOK'
  BY <1>1, <1>3, <1>4, <1>5, <1>6, <1>7 DEF IInv, ClientTypeOK, Fetch, Login1
<1>9. BuildInv'
  BY <1>1, <1>6 DEF IInv, BuildInv
<1>10. LoginInv'
  BY <1>1, <1>2, <1>3, <1>4, <1>7 DEF IInv, LoginInv
<1>11. BudgetInv'
  <2>1. SUFFICES ASSUME token.set, login.st # "dead", failures <= Tolerated
                 PROVE  IF hold' > 0 THEN token'.age + hold' <= Timeout + Delay + 1
                        ELSE token'.age + Left' <= Timeout + Delay + (failures + 1) * Cycle
    BY <1>1, <1>3, <1>7 DEF BudgetInv, Delay, Cycle
  <2>2. /\ token.age \in Nat /\ token'.age \in Nat /\ hold \in Nat /\ hold' \in Nat
        /\ (failures + 1) * Cycle \in Nat /\ (0 + 1) * Cycle = Cycle
    <3>1. token.age \in Nat /\ token'.age \in Nat
      BY <1>2, <1>3
    <3>2. hold \in Nat /\ hold' \in Nat
      BY <1>2, <1>4
    <3>3. QED
      BY <1>2, <3>1, <3>2, CyclesGrow
  <2>3. Left' = Left - 1 /\ Left \in 1..Cycle
    BY <2>1, TickLeft DEF IInv, LoginInv
  <2>4. IF hold > 0 THEN token.age + hold <= Timeout + Delay + 1
        ELSE token.age + Left <= Timeout + Delay + (failures + 1) * Cycle
    BY <2>1 DEF IInv, BudgetInv
  <2>5. CASE hold = 0
    BY <1>3, <1>4, <2>2, <2>3, <2>4, <2>5, Times
  <2>6. CASE hold > 1
    BY <1>3, <1>4, <2>2, <2>4, <2>6, Times
  <2>7. CASE hold = 1
    <3>1. failures = 0 /\ hold' = 0
      BY <1>4, <2>7 DEF IInv, LoginInv
    <3>2. token'.age + Left' <= Timeout + Delay + Cycle
      BY <1>3, <2>2, <2>3, <2>4, <2>7, Times
    <3>3. QED
      BY <2>2, <3>1, <3>2
  <2>8. QED
    BY <2>2, <2>5, <2>6, <2>7
<1>12. QED
  BY <1>8, <1>9, <1>10, <1>11 DEF IInv

LEMMA StutterInv ==
    ASSUME IInv, UNCHANGED vars
    PROVE  IInv'
<1>1. ClientTypeOK' /\ BuildInv'
  BY DEF vars, provider, polling, identity, IInv, ClientTypeOK, BuildInv
<1>2. LoginInv' /\ BudgetInv'
  BY LoginsStay DEF vars, provider, polling, identity, IInv
<1>3. QED
  BY <1>1, <1>2 DEF IInv

-----------------------------------------------------------------------------
(* The theorems.                                                           *)

LEMMA InductiveInv == Spec => []IInv
<1>1. IInv /\ [Next]_vars => IInv'
  <2> SUFFICES ASSUME IInv, [Next]_vars PROVE IInv'
    OBVIOUS
  <2>1. CASE ChangeList \/ \E c \in Callers : Requests(c)
    BY <2>1, RequestsInv DEF Callers
  <2>2. CASE Creating
    BY <2>2, CreatingInv
  <2>3. CASE Connecting
    BY <2>3, ConnectingInv
  <2>4. CASE HealthCheck
    BY <2>4, HealthCheckInv
  <2>5. CASE Login
    <3>1. CASE LoginCutOff
      BY <3>1, PanicInv DEF LoginCutOff
    <3>2. QED
      BY <2>5, <3>1, LoginStartsInv, NoopLoginInv, AliyunLoginInv, HttpLoginInv,
         LoginAnsweredInv, LoginFailsInv, WakeUpInv DEF Login
  <2>6. CASE Tick
    BY <2>6, TickInv
  <2>7. CASE UNCHANGED vars
    BY <2>7, StutterInv
  <2>8. QED
    BY <2>1, <2>2, <2>3, <2>4, <2>5, <2>6, <2>7 DEF Next
<1>2. QED
  BY InitInv, <1>1, PTL DEF Spec

\* The state of the builder, the provider and the logins is in its type, the list
\* that is held is never empty, and a client that is up signs what it has to:
\* the first login has put the keys there, or there is no client.
THEOREM ClientInvTheorem == Spec => []ClientInv
<1>1. IInv => ClientInv
  <2> SUFFICES ASSUME IInv PROVE ClientInv
    OBVIOUS
  <2>1. ASSUME phase = "up", NEW r \in Resources
        PROVE  GetLoginIdentity(r) # Broken
    <3>1. Broken.kind = "panic" /\ Unsigned.kind = "none" /\ HttpIdentity.kind \in {"token", "none"}
      BY DEF Broken, Unsigned, HttpIdentity
    <3>2. service.plugin = "aliyun" => keys
      BY <2>1 DEF IInv, BuildInv
    <3>3. keys => AliyunIdentity(r).kind \in {"none", "signed"}
      BY DEF AliyunIdentity, Unsigned
    <3>4. GetLoginIdentity(r).kind \in {"none", "signed", "token"}
      BY <3>1, <3>2, <3>3 DEF GetLoginIdentity
    <3>5. QED
      BY <3>1, <3>4
  <2>2. QED
    BY <2>1 DEF IInv, ClientInv, NeverBroken
<1>2. QED
  BY InductiveInv, <1>1, PTL

\* A token outlives Tolerated failed logins in a row if its life covers the
\* request it came with, the delay, and a cycle of the auth task (the sleep, the
\* request for the server list and the login) for each of them and for the login
\* that succeeds.
THEOREM TokenOutlivesTheorem ==
    ASSUME Timeout + Delay + (Tolerated + 1) * Cycle <= Ttl
    PROVE  Spec => []TokenOutlives
<1>1. IInv => TokenOutlives
  <2>1. SUFFICES ASSUME IInv, token.set, failures <= Tolerated, login.st # "dead"
                 PROVE  token.age <= Ttl
    BY DEF TokenOutlives
  <2>2. /\ token.age \in Nat /\ hold \in Nat /\ failures \in Nat
        /\ Left \in 0..Cycle
    BY <2>1, LeftFacts DEF IInv, ClientTypeOK
  <2>3. IF hold > 0 THEN token.age + hold <= Timeout + Delay + 1
        ELSE token.age + Left <= Timeout + Delay + (failures + 1) * Cycle
    BY <2>1 DEF IInv, BudgetInv
  <2>4. /\ (failures + 1) * Cycle <= (Tolerated + 1) * Cycle
        /\ (failures + 1) * Cycle \in Nat /\ (Tolerated + 1) * Cycle \in Nat
    BY <2>1, <2>2, CyclesGrow, Times
  <2>5. QED
    BY <2>2, <2>3, <2>4, Times
<1>2. QED
  BY InductiveInv, <1>1, PTL
=============================================================================
