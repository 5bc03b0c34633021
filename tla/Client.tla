------------------------------- MODULE Client -------------------------------
(***************************************************************************)
(* A client from its builder on: the server list and its refresh           *)
(* (EndpointServerListProvider), the health check, the first login and the *)
(* auth task (init_auth_plugin and the plugins), and the choice of a server*)
(* for every connection.  The connection itself is GrpcConnection's.       *)
(*                                                                         *)
(* A unit of time stands for 10 seconds.  A task that can run does so      *)
(* before time passes; a request over http takes at most Timeout.          *)
(***************************************************************************)
EXTENDS ClientProps, ServerList, FiniteSetsExt

CONSTANTS
    Services,      \* what clients are made with: see ClientProps!Service
    Lists,         \* what the endpoint answers with, in its order, or a server_addr
    Interval,      \* refresh_interval of the server list
    Period,        \* the sleep of the auth task
    Timeout,       \* of a request over http
    Ttl,           \* token_ttl
    Tolerated,     \* failed logins in a row that a token has to outlive
    MaxRetries,    \* max_retries
    Indexes        \* bound: values of the index of the polling

ASSUME ClientAssumption ==
    /\ 1 \in DOMAIN Lists
    /\ \A v \in DOMAIN Lists : Len(ParseServerList(Lists[v])) \in 0..Indexes
    /\ {Interval, Period, Timeout, Ttl, Indexes} \subseteq Nat \ {0}
    /\ {Tolerated, MaxRetries} \subseteq Nat

None == 0
Versions == DOMAIN Lists
Callers == {"conn", "auth"}

\* The lists as the provider holds them.
Parsed == [v \in Versions |-> ParseServerList(Lists[v])]

VARIABLES
    service,    \* what this client is made with
    phase,      \* how far the builder has come
    remote,     \* the version of the list at the endpoint, or in server_addr
    list,       \* cached_server_list: its version
    age,        \* since last_refresh_at
    fetch,      \* the requests to the endpoint
    index,      \* of the polling
    conn,       \* the connection: where it is, its index, the server it tries
    attempts,   \* retry_count: attempts that failed before the health check ended
    login,      \* the login under way or the sleep of the auth task
    token,      \* login_identity of the http plugin: whether it is set, its age
    hold,       \* time until next_login_refresh has passed
    keys,       \* whether the aliyun plugin has its keys
    failures    \* failed logins in a row, as far as they count

provider == <<remote, list, age, fetch>>
polling == <<index, conn, attempts>>
identity == <<token, hold, keys, failures>>
vars == <<service, phase, provider, polling, login, identity>>

NoFetch == [st |-> "none", t |-> 0, v |-> None]
NoConn == [st |-> "down", idx |-> None, server |-> {}]
NoLogin == [st |-> "none", t |-> 0]

Phases == {"list", "health", "login", "up", "failed", "panicked"}

ClientTypeOK ==
    /\ service \in Services
    /\ phase \in Phases
    /\ remote \in Versions /\ list \in {None} \cup Versions
    /\ list # None => Parsed[list] # << >>
    /\ age \in 0..Interval
    /\ fetch \in [Callers -> [st : {"none", "asked", "answered"}, t : 0..Timeout,
                              v : {None} \cup Versions]]
    /\ index \in 0..(Indexes - 1)
    /\ conn.st \in {"down", "listing", "connecting", "connected"}
    /\ attempts \in 0..MaxRetries
    /\ login \in [st : {"none", "list", "login", "asked", "sleep", "dead"},
                  t : 0..Timeout \cup 0..Period]
    /\ token \in [set : BOOLEAN, age : 0..(Ttl + 1)]
    /\ hold \in 0..(Ttl \div 10 + 1)
    /\ keys \in BOOLEAN /\ failures \in 0..(Tolerated + 1)

IsStatic == service.endpoint = "unset"

Init ==
    /\ service \in Services
    /\ phase = "list"
    /\ remote \in IF IsStatic THEN Versions ELSE {1}
    /\ list = None /\ age = 0
    /\ fetch = [c \in Callers |-> NoFetch]
    /\ index = 0 /\ conn = NoConn /\ attempts = 0
    /\ login = NoLogin
    /\ token = [set |-> FALSE, age |-> 0] /\ hold = 0
    /\ keys = FALSE /\ failures = 0

-----------------------------------------------------------------------------
(* The endpoint and the provider of the server list.                       *)

\* The cluster changes.
ChangeList ==
    /\ remote + 1 \in Versions /\ ~IsStatic
    /\ remote' = remote + 1
    /\ UNCHANGED <<service, phase, list, age, fetch, polling, login, identity>>

Ask(c) == fetch' = [fetch EXCEPT ![c] = [NoFetch EXCEPT !.st = "asked"]]
Asked(c) == fetch[c].st = "asked"

\* The endpoint answers with the list it has at this moment.
EndpointAnswers(c) ==
    /\ Asked(c)
    /\ fetch' = [fetch EXCEPT ![c].st = "answered", ![c].v = remote]
    /\ UNCHANGED <<service, phase, remote, list, age, polling, login, identity>>

\* A variant of ShouldRefresh that is never true.
NeverRefresh == FALSE

ShouldRefresh == ~IsStatic /\ age >= Interval

\* A caller of current_server_list has what it gets without a request.
Cached == ~ShouldRefresh

\* A variant of Store that takes an empty list.
StoreAny(c, v) ==
    /\ list' = v /\ age' = 0
    /\ fetch' = [fetch EXCEPT ![c] = NoFetch]

\* The answer of a refresh is stored, the last to arrive over all others; a
\* list that is empty or a request that fails leaves the old one.
Store(c, v) ==
    /\ list' = IF Parsed[v] = << >> THEN list ELSE v
    /\ age' = 0
    /\ fetch' = [fetch EXCEPT ![c] = NoFetch]

Refreshed(c) ==
    /\ fetch[c].st = "answered" /\ list # None
    /\ Store(c, fetch[c].v)
    /\ UNCHANGED <<service, phase, remote, polling, login, identity>>

RefreshFails(c) ==
    /\ Asked(c) /\ list # None
    /\ age' = 0
    /\ fetch' = [fetch EXCEPT ![c] = NoFetch]
    /\ UNCHANGED <<service, phase, remote, list, polling, login, identity>>

\* create_server_list_provider and from_provider: the first index is random.
Provided(v) ==
    /\ list' = v /\ age' = 0
    /\ fetch' = [fetch EXCEPT !["conn"] = NoFetch]
    /\ index' \in 0..(Len(Parsed[v]) - 1)
    /\ phase' = "health"
    /\ UNCHANGED <<service, remote, conn, attempts, login, identity>>

CreateStatic ==
    /\ phase = "list" /\ IsStatic /\ Parsed[remote] # << >>
    /\ Provided(remote)

\* A server_addr without an address is an error.
StaticFails ==
    /\ phase = "list" /\ IsStatic /\ Parsed[remote] = << >>
    /\ phase' = "failed"
    /\ UNCHANGED <<service, provider, polling, login, identity>>

\* build_endpoint_url: no URL can be made of a blank endpoint.
CreateEndpoint ==
    /\ phase = "list" /\ ~IsStatic /\ fetch["conn"] = NoFetch
    /\ IF service.endpoint = "blank" THEN phase' = "panicked" /\ UNCHANGED fetch
       ELSE Ask("conn") /\ UNCHANGED phase
    /\ UNCHANGED <<service, remote, list, age, polling, login, identity>>

EndpointCreated ==
    /\ phase = "list" /\ fetch["conn"].st = "answered"
    /\ Parsed[fetch["conn"].v] # << >>
    /\ Provided(fetch["conn"].v)

\* Without a first list there is no client.
EndpointFails ==
    /\ phase = "list"
    /\ \/ Asked("conn")
       \/ fetch["conn"].st = "answered" /\ Parsed[fetch["conn"].v] = << >>
    /\ phase' = "failed"
    /\ fetch' = [fetch EXCEPT !["conn"] = NoFetch]
    /\ UNCHANGED <<service, remote, list, age, polling, login, identity>>

-----------------------------------------------------------------------------
(* Connecting.                                                             *)

Connects == phase \in {"health", "login", "up"}

\* Before the first connection the attempts are counted: the budget of poll_ready.
MayTry == phase = "health" => attempts < MaxRetries

AttemptFails ==
    /\ conn' = NoConn
    /\ attempts' = IF phase = "health" THEN attempts + 1 ELSE attempts

\* PollingServerListService::call: the index is taken before the list is known.
Call ==
    /\ Connects /\ conn.st = "down" /\ MayTry
    /\ conn' = [NoConn EXCEPT !.st = "listing", !.idx = index]
    /\ index' = (index + 1) % Indexes
    /\ UNCHANGED attempts
    /\ IF Cached THEN UNCHANGED fetch ELSE Ask("conn")
    /\ UNCHANGED <<service, phase, remote, list, age, login, identity>>

EndpointOf(a) == Endpoint(a, service.grpcPort)

\* The list is there: a server is chosen, or none of them can be read.
Choose ==
    /\ Connects /\ conn.st = "listing" /\ fetch["conn"] = NoFetch
    /\ IF ParseHostPortVec(Parsed[list]) = << >> THEN AttemptFails
       ELSE /\ conn' = [NoConn EXCEPT !.st = "connecting",
                                      !.server = {EndpointOf(Select(Parsed[list], conn.idx))}]
            /\ UNCHANGED attempts
    /\ UNCHANGED <<service, phase, provider, index, login, identity>>

Connected ==
    /\ Connects /\ conn.st = "connecting"
    /\ conn' = [NoConn EXCEPT !.st = "connected"]
    /\ UNCHANGED <<service, phase, provider, index, attempts, login, identity>>

\* The server cannot be reached.
Unreachable ==
    /\ Connects /\ conn.st = "connecting"
    /\ AttemptFails
    /\ UNCHANGED <<service, phase, provider, index, login, identity>>

\* The connection is lost.
Disconnected ==
    /\ phase \in {"login", "up"} /\ conn.st = "connected"
    /\ conn' = NoConn
    /\ UNCHANGED <<service, phase, provider, index, attempts, login, identity>>

\* build(): the health check.
HealthCheckPasses ==
    /\ phase = "health" /\ conn.st = "connected"
    /\ phase' = "login"
    /\ login' = [NoLogin EXCEPT !.st = "list"]
    /\ IF Cached THEN UNCHANGED fetch ELSE Ask("auth")
    /\ UNCHANGED <<service, remote, list, age, polling, identity>>

\* poll_ready reports the failure of the last attempt.
GivenUp == conn.st = "down" /\ ~MayTry

\* A variant of HealthCheckFails that waits for a server in emergency mode.
EmergencyWaits ==
    /\ phase = "health" /\ GivenUp
    /\ ~service.emergency /\ phase' = "failed"
    /\ UNCHANGED <<service, provider, polling, login, identity>>

\* It fails when the attempts are used up, or on the connection it was sent on.
HealthCheckFails ==
    /\ phase = "health"
    /\ conn.st = "connected" \/ GivenUp
    /\ IF service.emergency
       THEN /\ phase' = "login" /\ login' = [NoLogin EXCEPT !.st = "list"]
            /\ IF Cached THEN UNCHANGED fetch ELSE Ask("auth")
       ELSE /\ phase' = "failed" /\ UNCHANGED <<login, fetch>>
    /\ UNCHANGED <<service, remote, list, age, polling, identity>>

-----------------------------------------------------------------------------
(* The logins: one by the builder, the others by the auth task.            *)

\* A login is over: the builder spawns the auth task, which begins with a
\* login; the task sleeps.
LoginOver ==
    IF phase = "login"
    THEN /\ phase' = "up" /\ login' = [NoLogin EXCEPT !.st = "list"]
         /\ IF Cached THEN UNCHANGED fetch ELSE Ask("auth")
    ELSE login' = [st |-> "sleep", t |-> Period] /\ UNCHANGED <<phase, fetch>>

\* A panic of the first login is the application's, a later one ends the task.
Panic ==
    /\ login' = [NoLogin EXCEPT !.st = "dead"]
    /\ phase' = IF phase = "login" THEN "panicked" ELSE phase
    /\ UNCHANGED fetch

Given(k) == service.context[k] # "unset"

\* The list has come.
LoginStarts ==
    /\ login.st = "list" /\ fetch["auth"] = NoFetch
    /\ login' = [NoLogin EXCEPT !.st = "login"]
    /\ UNCHANGED <<service, phase, provider, polling, identity>>

NoopLogin ==
    /\ login.st = "login" /\ service.plugin = "noop"
    /\ LoginOver
    /\ UNCHANGED <<service, remote, list, age, polling, identity>>

\* A variant of AliyunLogin that waits for the second call.
AliyunLoginLater ==
    /\ login.st = "login" /\ service.plugin = "aliyun"
    /\ LoginOver
    /\ keys' = (keys \/ phase = "up")
    /\ UNCHANGED <<service, remote, list, age, polling, token, hold, failures>>

AliyunLogin ==
    /\ login.st = "login" /\ service.plugin = "aliyun"
    /\ IF keys \/ (Given("accessKey") /\ Given("secretKey"))
       THEN LoginOver /\ keys' = TRUE
       ELSE Panic /\ UNCHANGED keys
    /\ UNCHANGED <<service, remote, list, age, polling, token, hold, failures>>

HttpLogin ==
    /\ login.st = "login" /\ service.plugin = "http"
    /\ IF hold > 0 THEN LoginOver
       ELSE IF Given("username") /\ Given("password")
            THEN login' = [NoLogin EXCEPT !.st = "asked"] /\ UNCHANGED <<phase, fetch>>
            ELSE Panic
    /\ UNCHANGED <<service, remote, list, age, polling, identity>>

\* A variant of Delay that leaves a token until it ends.
DelayWhole == Ttl

\* Time until the next login.
Delay == Ttl \div 10

\* The token is as old as its request at most.  A login is left out while
\* now <= next_login_refresh.
LoginAnswered ==
    /\ login.st = "asked"
    /\ \E a \in 0..login.t : token' = [set |-> TRUE, age |-> Min({a, Ttl + 1})]
    /\ hold' = Delay + 1
    /\ failures' = 0
    /\ LoginOver
    /\ UNCHANGED <<service, remote, list, age, polling, keys>>

\* No answer, or not one of a login: the old token stays.
LoginFails ==
    /\ login.st = "asked"
    /\ failures' = Min({failures + 1, Tolerated + 1})
    /\ LoginOver
    /\ UNCHANGED <<service, remote, list, age, polling, token, hold, keys>>

\* The answer ends in the middle of its body.
LoginCutOff ==
    /\ login.st = "asked"
    /\ Panic
    /\ UNCHANGED <<service, remote, list, age, polling, identity>>

WakeUp ==
    /\ login.st = "sleep" /\ login.t = 0
    /\ login' = [NoLogin EXCEPT !.st = "list"]
    /\ IF Cached THEN UNCHANGED fetch ELSE Ask("auth")
    /\ UNCHANGED <<service, phase, remote, list, age, polling, identity>>

-----------------------------------------------------------------------------
(* get_login_identity.                                                     *)

Unsigned == [kind |-> "none"]
Broken == [kind |-> "panic"]

\* AliyunRamAuthPlugin: a naming request without a service is not signed; without
\* the keys there is a panic.
AliyunIdentity(r) ==
    IF r.type \notin {"Naming", "Config"} \/ (r.type = "Naming" /\ r.resource = "unset")
    THEN Unsigned
    ELSE IF keys THEN [kind |-> "signed"] ELSE Broken

HttpIdentity == IF token.set THEN [kind |-> "token"] ELSE Unsigned

GetLoginIdentity(r) ==
    CASE service.plugin = "aliyun" -> AliyunIdentity(r)
      [] service.plugin = "http" -> HttpIdentity
      [] OTHER -> Unsigned

-----------------------------------------------------------------------------
(* Time.                                                                   *)

CanWait ==
    /\ \A c \in Callers :
          fetch[c].st # "answered" /\ (Asked(c) => fetch[c].t < Timeout)
    /\ phase = "list" => Asked("conn")
    /\ login.st = "list" => Asked("auth")
    /\ login.st # "login"
    /\ login.st = "asked" => login.t < Timeout
    /\ login.st = "sleep" => login.t > 0

Tick ==
    /\ phase \notin {"failed", "panicked"}
    /\ CanWait
    /\ age' = IF list = None THEN 0 ELSE Min({age + 1, Interval})
    /\ fetch' = [c \in Callers |-> IF Asked(c) THEN [fetch[c] EXCEPT !.t = @ + 1]
                                   ELSE fetch[c]]
    /\ login' = CASE login.st = "asked" -> [login EXCEPT !.t = @ + 1]
                  [] login.st = "sleep" -> [login EXCEPT !.t = @ - 1]
                  [] OTHER -> login
    /\ token' = IF token.set THEN [token EXCEPT !.age = Min({@ + 1, Ttl + 1})] ELSE token
    /\ hold' = IF hold = 0 THEN 0 ELSE hold - 1
    /\ UNCHANGED <<service, phase, remote, list, polling, keys, failures>>

-----------------------------------------------------------------------------
Requests(c) == EndpointAnswers(c) \/ Refreshed(c) \/ RefreshFails(c)

Creating == CreateStatic \/ StaticFails \/ CreateEndpoint \/ EndpointCreated \/ EndpointFails

Connecting == Call \/ Choose \/ Connected \/ Unreachable \/ Disconnected

HealthCheck == HealthCheckPasses \/ HealthCheckFails

Login ==
    \/ LoginStarts \/ NoopLogin \/ AliyunLogin \/ HttpLogin
    \/ LoginAnswered \/ LoginFails \/ LoginCutOff \/ WakeUp

Next ==
    \/ ChangeList \/ Creating \/ Connecting \/ HealthCheck \/ Login \/ Tick
    \/ \E c \in Callers : Requests(c)

Spec == Init /\ [][Next]_vars

\* Time passes, every task runs, every request over http ends and not every one to
\* the endpoint fails.  A request on a connection has no time limit: neither that a
\* connection is made or given up nor that the health check on it ends is assumed.
\* The cluster need not change, no login need succeed and no connection be lost.
Fairness ==
    /\ WF_vars(Tick) /\ WF_vars(Creating) /\ WF_vars(GivenUp /\ HealthCheckFails)
    /\ WF_vars(Login)
    /\ WF_vars(Call) /\ WF_vars(Choose)
    /\ \A c \in Callers : WF_vars(Requests(c)) /\ SF_vars(EndpointAnswers(c))

FairSpec == Spec /\ Fairness

-----------------------------------------------------------------------------
(* Properties.                                                             *)

\* A token outlives the sleeps, the delays and Tolerated failed logins in a row:
\* no request is sent with a token that has ended, unless the auth task is dead.
TokenOutlives ==
    token.set /\ failures <= Tolerated /\ login.st # "dead" => token.age <= Ttl

\* From the first request of init_auth_plugin's client on, the aliyun plugin signs
\* what it has to sign: the keys are there before the client is.
Resources == [type : {"Naming", "Config", "Other"}, resource : {"unset", "s"}]
NeverBroken ==
    phase = "up" => \A r \in Resources : GetLoginIdentity(r) # Broken

\* Both together: the state of builder, provider, polling and logins is in its
\* type, among others the list that is held is never empty, and no request made
\* by a client that is up meets a plugin without keys.
ClientInv == ClientTypeOK /\ NeverBroken

\* Building a client comes to an end, through every failure that is reported: it
\* waits for ever only where its server never answers the check of the server, the
\* set up or the health check, which have no time limit.
Unanswered == phase = "health" /\ conn.st \in {"connecting", "connected"}
BuildEnds == <>(phase \in {"up", "failed", "panicked"} \/ []Unanswered)

\* While the auth task lives, the client comes to have the server list of an
\* endpoint that answers now and then, although answers may overtake each other.
UpAndLogging == phase = "up" /\ login.st # "dead"
ListCatchesUp ==
    <>[](Parsed[remote] # << >>) => []<>(UpAndLogging => list = remote \/ IsStatic)

\* A client that keeps connecting tries each server of a list that it keeps,
\* although the index of the polling overflows.
Readable(s) == list # None /\ s \in Range(ParseHostPortVec(Parsed[list]))
Servers == UNION {Range(ParseHostPortVec(Parsed[v])) : v \in Versions}
EveryServerTried ==
    \A s \in Servers :
       <>[](Readable(s) /\ Connects) /\ []<>(conn.st = "connecting")
                                     /\ []<>(conn.st = "down")
         => []<>(conn.server = {EndpointOf(s)})

-----------------------------------------------------------------------------
(* What the repository says and the code does not do.                      *)

\* "this method will be scheduled continuously": the auth task never ends.
ScheduledContinuously == phase = "up" => login.st # "dead"

\* "the emergency startup mode is not available with this kind": a client without
\* a cache on disk does not start without its servers.
EmergencyHasCache ==
    [][phase = "health" /\ GivenUp /\ phase' = "login" => service.loaded]_vars
=============================================================================
