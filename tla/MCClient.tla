------------------------------ MODULE MCClient ------------------------------
(* Instances of Client.                                                    *)
EXTENDS Client

NoEnv == [k \in Keys |-> "unset"]
Env(k, v) == [NoEnv EXCEPT ![k] = v]
Call1(k, v) == [key |-> k, val |-> v]

User == <<Call1("username", "u"), Call1("password", "p")>>
Aliyun == <<Call1("accessKey", "ak"), Call1("secretKey", "sk")>>
Emergency == <<Call1("load_cache_at_start", "true")>>
WithEndpoint == <<Call1("endpoint", "e")>>

\* The environment has the endpoint, or a value that does not count.
Polled == ConfigService(Built(Emergency \o <<Call1("grpc_port", "9999")>>), Env("endpoint", "e"), << >>)
Memory == NamingService(Built(Emergency), Env("cache_kind", "none"), << >>)
Blank == ConfigService(Built(WithEndpoint), Env("endpoint", "blank"), << >>)
HttpStatic == NamingService(Built(User), Env("naming_load_cache_at_start", "maybe"), <<"aliyun", "http">>)
HttpPolled == ConfigService(Built(User \o WithEndpoint), NoEnv, <<"aliyun", "http">>)
NoUser == ConfigService(NewProps, Env("username", "u"), <<"aliyun", "http">>)
Signed == ConfigService(Built(Aliyun), NoEnv, <<"aliyun">>)
NoKeys == NamingService(Built(Aliyun \o <<Call1("secretKey", "unset")>>), NoEnv, <<"aliyun">>)

AllServices == {Polled, Memory, Blank, HttpStatic, HttpPolled, NoUser, Signed, NoKeys}
OneMemory == {Memory}
OneHttp == {HttpStatic}

Plain(h, p) == [host |-> h, form |-> "plain", port |-> p]
Blanks == [host |-> "", form |-> "blank", port |-> NoPort]
Bare == [host |-> "::1", form |-> "bare", port |-> NoPort]

\* Three servers, one of them not readable; then another cluster of two, after
\* an answer without servers.
Grown ==
    <<<<Plain("a", NoPort), Bare, Plain("b", 8850), Plain("c", NoPort)>>,
      <<Blanks>>, <<Plain("b", 8850), Blanks, Plain("d", NoPort)>>>>
=============================================================================
