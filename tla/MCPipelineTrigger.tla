-------------------------- MODULE MCPipelineTrigger --------------------------
(* Instances of PipelineTrigger for TLC.                                   *)
EXTENDS PipelineTrigger

CONSTANTS r1, r2, p1, p2
=============================================================================
