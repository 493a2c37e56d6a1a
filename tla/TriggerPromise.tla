--------------------------- MODULE TriggerPromise ---------------------------
(***************************************************************************)
(* What pipeline-config-trigger promises to the event listener: PipelineRuns*)
(* of a request are created while the request is open, none of them twice, *)
(* and the answer OK means that all of them are.  Nothing is promised      *)
(* about how many exist after a failure.                                   *)
(***************************************************************************)
EXTENDS Naturals

CONSTANTS Requests, Runs

VARIABLES
  want,     \* [Requests -> SUBSET Runs]: the PipelineRuns asked for
  made,     \* [Requests -> [Runs -> Nat]]: the PipelineRuns created
  answer    \* [Requests -> {"open", "OK", "failed"}]

vars == <<want, made, answer>>

Init ==
  /\ want \in [Requests -> SUBSET Runs]
  /\ made = [r \in Requests |-> [i \in Runs |-> 0]]
  /\ answer = [r \in Requests |-> "open"]

Make(r, i) ==
  /\ answer[r] = "open"
  /\ i \in want[r] /\ made[r][i] = 0
  /\ made' = [made EXCEPT ![r][i] = 1]
  /\ UNCHANGED <<want, answer>>

Succeed(r) ==
  /\ answer[r] = "open"
  /\ \A i \in want[r] : made[r][i] = 1
  /\ answer' = [answer EXCEPT ![r] = "OK"]
  /\ UNCHANGED <<want, made>>

Fail(r) ==
  /\ answer[r] = "open"
  /\ answer' = [answer EXCEPT ![r] = "failed"]
  /\ UNCHANGED <<want, made>>

Next == \E r \in Requests : Succeed(r) \/ Fail(r) \/ \E i \in Runs : Make(r, i)

Spec == Init /\ [][Next]_vars
=============================================================================
