---------------------------- MODULE MCNamingInfo ----------------------------
(* Model checking NamingInfo on small histories of one service.            *)
EXTENDS NamingInfo

Instance(a, w, h, e) == [addr |-> a, weight |-> w, healthy |-> h, enabled |-> e]
a1 == Instance("a", 1, TRUE, TRUE)
b2 == Instance("b", 2, TRUE, TRUE)
c0 == Instance("c", 0, TRUE, TRUE)
dOff == Instance("d", 3, TRUE, FALSE)
aSick == Instance("a", 1, FALSE, TRUE)

\* From nothing usable to two instances to choose from.
Recovered == <<<<aSick, c0>>, <<a1, c0, b2, dOff>>>>

\* One instance is replaced, and comes back.
ThereAndBack == <<<<a1, b2>>, <<a1>>, <<a1, b2>>>>

\* Two instances with one address, in two clusters: one of them falls ill.
SameAddress == <<<<a1, Instance("a", 2, TRUE, TRUE)>>, <<aSick, Instance("a", 2, TRUE, TRUE)>>>>

BothSettings == {[clustered |-> FALSE, protect |-> TRUE],
                 [clustered |-> TRUE, protect |-> FALSE]}
Plain == {[clustered |-> FALSE, protect |-> FALSE]}
=============================================================================
