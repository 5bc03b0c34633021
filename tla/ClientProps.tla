----------------------------- MODULE ClientProps -----------------------------
(***************************************************************************)
(* ClientProps and what the two services make of it (src/api/props.rs,     *)
(* src/lib.rs, NacosNamingService::new, ConfigWorker::new).                *)
(*                                                                         *)
(* A value is a string: "unset", "blank", or what it reads.                *)
(***************************************************************************)
EXTENDS Naturals, SequencesExt

Bools == {"naming_load_cache_at_start", "config_load_cache_at_start"}
Credentials == {"username", "password", "accessKey", "secretKey"}
Keys == Bools \cup Credentials \cup {"endpoint", "cache_kind", "grpc_port"}

-----------------------------------------------------------------------------
(* The environment.                                                        *)

\* get_value, get_value_option.
GetValue(env, k, default) == IF env[k] = "unset" THEN default ELSE env[k]

\* get_value_bool: what does not parse is the default.
GetValueBool(env, k, default) ==
    IF env[k] \in {"true", "false"} THEN env[k] ELSE default

-----------------------------------------------------------------------------
(* ClientProps: what has been set, and env_first.                          *)

NewProps ==
    [envFirst |-> TRUE,
     set |-> [k \in Keys |->
                CASE k \in Bools -> "false"
                  [] k = "cache_kind" -> "disk"
                  [] OTHER -> "unset"]]

\* The setters; load_cache_at_start is one for both services.
Set(p, call) ==
    CASE call.key = "env_first" -> [p EXCEPT !.envFirst = call.val = "true"]
      [] call.key = "load_cache_at_start" ->
           [p EXCEPT !.set = [k \in Keys |-> IF k \in Bools THEN call.val ELSE @[k]]]
      [] OTHER -> [p EXCEPT !.set[call.key] = call.val]

Built(setters) == FoldLeft(Set, NewProps, setters)

\* get_endpoint: a blank value of the environment counts.
GetEndpoint(p, env) ==
    IF p.envFirst THEN GetValue(env, "endpoint", p.set["endpoint"]) ELSE p.set["endpoint"]

\* The three getters of booleans.
GetBool(p, env, k) ==
    (IF p.envFirst THEN GetValueBool(env, k, p.set[k]) ELSE p.set[k]) = "true"

\* CacheKind::from_str.
FromStr(s) ==
    CASE s \in {"disk", "disk-store", "disk_store", "diskstore"} -> "disk"
      [] s \in {"none", "disabled", "memory", "memory-only"} -> "none"
      [] OTHER -> "error"

\* get_cache_kind: neither does a blank or unknown kind.
GetCacheKind(p, env) ==
    IF p.envFirst /\ FromStr(env["cache_kind"]) # "error"
    THEN FromStr(env["cache_kind"]) ELSE p.set["cache_kind"]

\* get_auth_context: the environment is put over what has been set.
GetAuthContext(p, env) ==
    [k \in Credentials |-> IF p.envFirst THEN GetValue(env, k, p.set[k]) ELSE p.set[k]]

-----------------------------------------------------------------------------
(* What a service is made with.                                            *)

\* Cache::new loads what a store has, if it has one.
Loads(p, env, load) == load /\ GetCacheKind(p, env) = "disk"

\* The builders of the services: the plugin that was enabled last, or none.
PluginOf(enabled) == IF enabled = << >> THEN "noop" ELSE Last(enabled)

\* What create_server_list_provider and NacosGrpcClientBuilder are given, for a
\* service with its own load_cache_at_start.
Service(p, env, enabled, load) ==
    [endpoint |-> GetEndpoint(p, env), grpcPort |-> p.set["grpc_port"],
     plugin |-> PluginOf(enabled),
     context |-> GetAuthContext(p, env),
     loaded |-> Loads(p, env, load), emergency |-> load]

NamingService(p, env, enabled) ==
    Service(p, env, enabled, GetBool(p, env, "naming_load_cache_at_start"))

ConfigService(p, env, enabled) ==
    Service(p, env, enabled, GetBool(p, env, "config_load_cache_at_start"))
=============================================================================
