---------------------------- MODULE MCModelProxy ----------------------------
(* Instances of ModelProxy for TLC.                                           *)
EXTENDS ModelProxy, TLC

CONSTANTS r1, r2, c1, c2

(* One capability with a proxy session, one without; two requests share one.  *)
TwoGrants == (r1 :> c1) @@ (r2 :> c2)
=============================================================================
