-------------------------- MODULE MCCloudEventSync --------------------------
(* Instances of CloudEventSync for TLC.                                    *)
EXTENDS CloudEventSync, TLC

CONSTANTS t1, t2, h1, h2

Symmetry == Permutations({h1, h2})
=============================================================================
