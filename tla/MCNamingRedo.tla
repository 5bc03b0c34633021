---------------------------- MODULE MCNamingRedo ----------------------------
(* Model checking NamingRedo on one service.                               *)
EXTENDS NamingRedo

OneService == {"svc"}
=============================================================================
