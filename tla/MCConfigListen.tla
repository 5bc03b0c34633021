--------------------------- MODULE MCConfigListen ---------------------------
(* Model checking ConfigListen with one or two listeners and two contents. *)
EXTENDS ConfigListen

OneListener == {"l1"}
TwoListeners == {"l1", "l2"}
TwoContents == {"m1", "m2"}
=============================================================================
