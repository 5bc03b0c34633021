-------------------------- MODULE MCConfigPublish --------------------------
(* Instances of ConfigPublish.                                             *)
EXTENDS ConfigPublish

CONSTANTS c1, c2
BothKinds == c1 :> {"cas", "param", "beta"} @@ c2 :> {"cas", "plain", "remove"}

P(n, a) == [name |-> n, algorithm |-> a]

\* One filter, two of whose plugins know the algorithm.
OneFilter == <<<<P("p", "DES"), P("q", "AES"), P("r", "AES")>>>>

\* Two filters that encrypt.
TwoFilters == <<<<P("q", "AES")>>, <<P("r", "AES")>>>>
=============================================================================
