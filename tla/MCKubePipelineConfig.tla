------------------------ MODULE MCKubePipelineConfig ------------------------
(* Instances of KubePipelineConfig for TLC.                                *)
EXTENDS KubePipelineConfig, TLC

CONSTANTS n1, n2, h1, h2

Symmetry == Permutations({h1, h2})
=============================================================================
