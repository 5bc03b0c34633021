---------------------------- MODULE MCCacheStore ----------------------------
(* Model checking CacheStore: two configs whose data ids differ after the  *)
(* last dot, such as app.yaml and app.json, share a temporary file.        *)
EXTENDS CacheStore

TwoKeys == {"app_yaml", "app_json"}
SharedTmp == [k \in TwoKeys |-> "app_tmp"]
OneKey == {"app_yaml"}
OneTmp == [k \in OneKey |-> "app_tmp"]
=============================================================================
