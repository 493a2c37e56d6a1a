------------------------------ MODULE MCLogProxy ------------------------------
(* An instance of LogProxy: one request for both pieces and one for the   *)
(* second only.                                                            *)
EXTENDS LogProxy, TLC

CONSTANTS r1, r2

MCAsked == (r1 :> {1, 2}) @@ (r2 :> {2})
=============================================================================
