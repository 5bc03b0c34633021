----------------------------- MODULE MCGrpcCall -----------------------------
(* An instance of GrpcCall.                                                *)
EXTENDS GrpcCall

A(t, r) == [type |-> t, readable |-> r]
FiveAsks ==
    <<A("notify", TRUE), A("none", TRUE), A("unknown", TRUE), A("notify", FALSE),
      A("detection", TRUE)>>
=============================================================================
