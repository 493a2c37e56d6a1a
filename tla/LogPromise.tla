------------------------------ MODULE LogPromise ------------------------------
(***************************************************************************)
(* What gcs-log-proxy promises to the Tekton dashboard: OK comes with the  *)
(* whole log as the bucket had it at one moment while the request was open,*)
(* every piece once and in the order of their names; "not found" is said   *)
(* only of a bucket that does not exist.                                   *)
(***************************************************************************)
EXTENDS Integers

CONSTANTS
  Requests,
  Objects,   \* the objects of the bucket: numbers, in the order of their names
  Asked      \* [Requests -> SUBSET Objects]: whose names begin as asked

VARIABLES
  exists,    \* the bucket exists
  bucket,    \* the objects it holds
  snapshot,  \* [Requests -> SUBSET Objects]: what it held at the request's moment
  answer,    \* [Requests -> {"open", "200", "404", "500"}]
  body       \* [Requests -> sequences of objects]

vars == <<exists, bucket, snapshot, answer, body>>

(* b is a sequence of the pieces of S: each once, in ascending order.      *)
IsLog(b, S) ==
  /\ \A i \in DOMAIN b : i \in Nat \ {0} /\ 1..i \subseteq DOMAIN b /\ b[i] \in S
  /\ \A o \in S : \E i \in DOMAIN b : b[i] = o
  /\ \A i, j \in DOMAIN b : i < j => b[i] < b[j]

Init ==
  /\ exists \in BOOLEAN
  /\ bucket \in SUBSET Objects /\ (~ exists => bucket = {})
  /\ snapshot = [r \in Requests |-> {}]
  /\ answer = [r \in Requests |-> "open"]
  /\ body = [r \in Requests |-> << >>]

(* The writers of logs, and whoever cleans up.                             *)
Change ==
  /\ exists /\ bucket' \in SUBSET Objects
  /\ UNCHANGED <<exists, snapshot, answer, body>>

Look(r) ==
  /\ exists /\ answer[r] = "open"
  /\ snapshot' = [snapshot EXCEPT ![r] = bucket \cap Asked[r]]
  /\ UNCHANGED <<exists, bucket, answer, body>>

Succeed(r) ==
  /\ exists /\ answer[r] = "open"
  /\ answer' = [answer EXCEPT ![r] = "200"]
  /\ body' = [body EXCEPT ![r] = body'[r]] /\ IsLog(body'[r], snapshot[r])
  /\ UNCHANGED <<exists, bucket, snapshot>>

NotFound(r) ==
  /\ ~ exists /\ answer[r] = "open"
  /\ answer' = [answer EXCEPT ![r] = "404"]
  /\ UNCHANGED <<exists, bucket, snapshot, body>>

Fail(r) ==
  /\ answer[r] = "open"
  /\ answer' = [answer EXCEPT ![r] = "500"]
  /\ UNCHANGED <<exists, bucket, snapshot, body>>

Next ==
  \/ Change
  \/ \E r \in Requests : Look(r) \/ Succeed(r) \/ NotFound(r) \/ Fail(r)

Spec == Init /\ [][Next]_vars
=============================================================================
