------------------------ MODULE PipelineTriggerProofs ------------------------
(***************************************************************************)
(* Theorems about PipelineTrigger, for any requests, PipelineRuns and      *)
(* number of workers: it keeps TriggerPromise, whatever fails and whenever *)
(* the pool is closed.                                                     *)
(***************************************************************************)
EXTENDS PipelineTrigger, TLAPS

(* How far a unit has got says how often its PipelineRun was created.      *)
UnitOK(r, i) ==
  /\ unit[r][i] \in {"none", "spawned", "sending", "queued", "running"} =>
       made[r][i] = 0
  /\ unit[r][i] = "applied" => made[r][i] = 1
  /\ unit[r][i] = "done" =>
       made[r][i] \in {0, 1} /\ (i \notin failed[r] => made[r][i] = 1)
  /\ unit[r][i] # "none" => i \in want[r]

(* Units exist from Queue on, and all of them have ended when the request  *)
(* is answered.                                                            *)
RequestOK(r) ==
  /\ pc[r] = "end" <=> answer[r] # "open"
  /\ pc[r] \in {"new", "queue"} => \A i \in Runs : unit[r][i] = "none"
  /\ pc[r] = "end" => \A i \in Runs : unit[r][i] \in {"none", "done"}
  /\ kind[r] # "good" =>
       pc[r] \in {"new", "end"} /\ \A i \in Runs : unit[r][i] = "none"

Inv ==
  /\ TypeOK
  /\ \A r \in Requests : RequestOK(r)
  /\ \A r \in Requests, i \in Runs : UnitOK(r, i)

LEMMA InitInv == Init => Inv
  BY DEF Init, Inv, TypeOK, RequestOK, UnitOK, PC, UnitState

(* A step of the handler of one request.                                   *)
LEMMA HandlerInv ==
  ASSUME Inv, NEW r \in Requests, Process(r) \/ Queue(r) \/ Collect(r)
  PROVE  Inv'
  <1> USE DEF Inv
  <1>1. CASE Process(r)
    <2>1. TypeOK'
      BY <1>1 DEF Process, Passes, Refusal, TypeOK, PC
    <2> QED
      BY <1>1, <2>1 DEF Process, Passes, Refusal, TypeOK, RequestOK, UnitOK
  <1>2. CASE Queue(r)
    <2>1. TypeOK'
      BY <1>2 DEF Queue, TypeOK, PC, UnitState
    <2>2. \A q \in Requests : RequestOK(q)'
      BY <1>2 DEF Queue, TypeOK, RequestOK
    <2>3. \A q \in Requests, i \in Runs : UnitOK(q, i)'
      BY <1>2 DEF Queue, TypeOK, UnitOK, RequestOK
    <2> QED
      BY <2>1, <2>2, <2>3
  <1>3. CASE Collect(r)
    <2>1. TypeOK'
      BY <1>3 DEF Collect, Ended, TypeOK, PC
    <2>2. \A q \in Requests : RequestOK(q)'
      BY <1>3 DEF Collect, Ended, TypeOK, RequestOK, UnitOK
    <2> QED
      BY <1>3, <2>1, <2>2 DEF Collect, Ended, UnitOK
  <1> QED
    BY <1>1, <1>2, <1>3

(* What every step of a unit has in common.                                *)
LEMMA UnitFrame ==
  ASSUME Inv, NEW r \in Requests, NEW i \in Runs, UnitStep(r, i)
  PROVE  /\ UNCHANGED <<kind, want, pc, answer, pool, ctx, alive>>
         /\ unit[r][i] \notin {"none", "done"}
         /\ \E s \in UnitState \ {"none"} : unit' = [unit EXCEPT ![r][i] = s]
         /\ \/ failed' = failed
            \/ /\ failed' = [failed EXCEPT ![r] = @ \cup {i}]
               /\ unit' = [unit EXCEPT ![r][i] = "done"]
         /\ \/ made' = made
            \/ /\ unit[r][i] = "running"
               /\ made' = [made EXCEPT ![r][i] = @ + 1]
               /\ unit' = [unit EXCEPT ![r][i] = "applied"]
  <1>1. CASE Enter(r, i) \/ Send(r, i) \/ Drain(r, i)
    BY <1>1 DEF Enter, Send, Drain, EndWithError, Become, UnitState
  <1>2. CASE Start(r, i)
    BY <1>2 DEF Start, Free, EndWithError, Become, UnitState
  <1>3. CASE Apply(r, i) \/ Return(r, i) \/ CallFails(r, i)
    BY <1>3 DEF Apply, Return, CallFails, EndWithError, Become, UnitState
  <1> QED
    BY <1>1, <1>2, <1>3 DEF UnitStep

(* The unit that moves stays true to what was created.                     *)
LEMMA UnitMoves ==
  ASSUME Inv, NEW r \in Requests, NEW i \in Runs, UnitStep(r, i)
  PROVE  UnitOK(r, i)'
  <1> USE DEF Inv
  <1>0. /\ unit \in [Requests -> [Runs -> UnitState]]
        /\ made \in [Requests -> [Runs -> Nat]]
        /\ failed \in [Requests -> SUBSET Runs]
        /\ UnitOK(r, i)
    BY DEF TypeOK
  <1>1. CASE Enter(r, i)
    BY <1>0, <1>1 DEF Enter, EndWithError, Become, UnitOK
  <1>2. CASE Send(r, i)
    BY <1>0, <1>2 DEF Send, Become, UnitOK
  <1>3. CASE Start(r, i)
    BY <1>0, <1>3 DEF Start, Free, EndWithError, Become, UnitOK
  <1>4. CASE Apply(r, i)
    BY <1>0, <1>4 DEF Apply, Become, UnitOK
  <1>5. CASE Return(r, i)
    BY <1>0, <1>5 DEF Return, Become, UnitOK
  <1>6. CASE CallFails(r, i)
    BY <1>0, <1>6 DEF CallFails, EndWithError, Become, UnitOK
  <1>7. CASE Drain(r, i)
    BY <1>0, <1>7 DEF Drain, EndWithError, Become, UnitOK
  <1> QED
    BY <1>1, <1>2, <1>3, <1>4, <1>5, <1>6, <1>7 DEF UnitStep

LEMMA UnitInv ==
  ASSUME Inv, NEW r \in Requests, NEW i \in Runs, UnitStep(r, i)
  PROVE  Inv'
  <1> USE DEF Inv
  <1>0. UNCHANGED <<kind, want, pc, answer, pool, ctx, alive>>
    BY UnitFrame
  <1>1. PICK s \in UnitState \ {"none"} : unit' = [unit EXCEPT ![r][i] = s]
    BY UnitFrame
  <1>t. /\ unit \in [Requests -> [Runs -> UnitState]]
        /\ failed \in [Requests -> SUBSET Runs]
        /\ made \in [Requests -> [Runs -> Nat]]
    BY DEF TypeOK
  <1>f. failed' = failed \/ failed' = [failed EXCEPT ![r] = @ \cup {i}]
    BY UnitFrame
  <1>m. made' = made \/ made' = [made EXCEPT ![r][i] = @ + 1]
    BY UnitFrame
  <1>2. failed' \in [Requests -> SUBSET Runs]
    BY <1>t, <1>f
  <1>3. made' \in [Requests -> [Runs -> Nat]]
    BY <1>t, <1>m
  <1>4. TypeOK'
    BY <1>0, <1>1, <1>2, <1>3 DEF TypeOK
  <1>5. \A q \in Requests, j \in Runs : q # r \/ j # i =>
          /\ unit'[q][j] = unit[q][j]
          /\ made'[q][j] = made[q][j]
          /\ j \in failed'[q] <=> j \in failed[q]
    <2> SUFFICES ASSUME NEW q \in Requests, NEW j \in Runs, q # r \/ j # i
                 PROVE  /\ unit'[q][j] = unit[q][j]
                        /\ made'[q][j] = made[q][j]
                        /\ j \in failed'[q] <=> j \in failed[q]
      OBVIOUS
    <2>1. unit'[q][j] = unit[q][j]
      BY <1>1, <1>t
    <2>2. made'[q][j] = made[q][j]
      BY <1>m, <1>t
    <2>3. j \in failed'[q] <=> j \in failed[q]
      BY <1>f, <1>t
    <2> QED
      BY <2>1, <2>2, <2>3
  <1>6. ASSUME NEW q \in Requests, NEW j \in Runs PROVE UnitOK(q, j)'
    <2>1. CASE q = r /\ j = i
      BY <2>1, UnitMoves
    <2>2. CASE q # r \/ j # i
      BY <1>0, <1>5, <2>2 DEF UnitOK
    <2> QED
      BY <2>1, <2>2
  <1>7. ASSUME NEW q \in Requests PROVE RequestOK(q)'
    <2>1. CASE q = r
      <3>1. pc[r] = "wait" /\ kind[r] = "good"
        BY UnitFrame DEF RequestOK, TypeOK, PC
      <3> QED
        BY <1>0, <2>1, <3>1 DEF RequestOK
    <2>2. CASE q # r
      BY <1>0, <1>5, <2>2 DEF RequestOK
    <2> QED
      BY <2>1, <2>2
  <1> QED
    BY <1>4, <1>6, <1>7

LEMMA NextInv == Inv /\ [Next]_vars => Inv'
  <1> SUFFICES ASSUME Inv, [Next]_vars PROVE Inv'
    OBVIOUS
  <1>1. CASE Signal \/ Cancel \/ Close \/ Closed \/ Exit \/ UNCHANGED vars
    <2>1. UNCHANGED <<kind, want, pc, answer, unit, failed, made>>
      BY <1>1 DEF Signal, Cancel, Close, Closed, Exit, vars
    <2>2. TypeOK'
      BY <1>1, <2>1 DEF Inv, TypeOK, Signal, Cancel, Close, Closed, Exit, vars
    <2> QED
      BY <2>1, <2>2 DEF Inv, RequestOK, UnitOK
  <1> QED
    BY <1>1, HandlerInv, UnitInv DEF Next

LEMMA InvAlways == Spec => []Inv
  BY InitInv, NextInv, PTL DEF Spec

(* Type correctness.                                                       *)
THEOREM TypeCorrect == Spec => []TypeOK
  <1>1. Inv => TypeOK
    BY DEF Inv
  <1> QED
    BY <1>1, InvAlways, PTL

-----------------------------------------------------------------------------
(* Each step is a step of the promise, or leaves it alone.                 *)
LEMMA StepSimulation == Inv /\ [Next]_vars => [Promise!Next]_(Promise!vars)
  <1> SUFFICES ASSUME Inv, [Next]_vars
               PROVE  Promise!Next \/ UNCHANGED <<want, made, answer>>
    BY DEF Promise!vars
  <1>1. ASSUME NEW r \in Requests, Process(r)
        PROVE  Promise!Fail(r) \/ UNCHANGED <<want, made, answer>>
    <2>1. CASE Passes(r)
      <3>1. answer' = answer
        BY <1>1, <2>1 DEF Process, Inv, TypeOK
      <3> QED
        BY <1>1, <3>1 DEF Process
    <2>2. CASE ~ Passes(r)
      BY <1>1, <2>2 DEF Process, Refusal, Promise!Fail, Inv, RequestOK
    <2> QED
      BY <2>1, <2>2
  <1>2. ASSUME NEW r \in Requests, Queue(r)
        PROVE  UNCHANGED <<want, made, answer>>
    BY <1>2 DEF Queue
  <1>3. ASSUME NEW r \in Requests, Collect(r)
        PROVE  Promise!Succeed(r) \/ Promise!Fail(r)
    <2>1. answer[r] = "open" /\ UNCHANGED <<want, made>>
      BY <1>3 DEF Collect, Ended, Inv, RequestOK
    <2>2. CASE failed[r] = {}
      <3>1. \A i \in want[r] : made[r][i] = 1
        BY <1>3, <2>2 DEF Collect, Ended, Inv, UnitOK, TypeOK
      <3> QED
        BY <1>3, <2>1, <2>2, <3>1 DEF Collect, Ended, Promise!Succeed
    <2>3. CASE failed[r] # {}
      BY <1>3, <2>1, <2>3 DEF Collect, Ended, Promise!Fail
    <2> QED
      BY <2>2, <2>3
  <1>4. ASSUME NEW r \in Requests, NEW i \in Runs, UnitStep(r, i)
        PROVE  Promise!Make(r, i) \/ UNCHANGED <<want, made, answer>>
    <2>1. UNCHANGED <<want, answer>>
      BY <1>4, UnitFrame
    <2>2. CASE made' = made
      BY <2>1, <2>2
    <2>3. CASE /\ unit[r][i] = "running"
               /\ made' = [made EXCEPT ![r][i] = @ + 1]
      <3>1. made[r][i] = 0 /\ i \in want[r] /\ answer[r] = "open"
        BY <2>3 DEF Inv, UnitOK, RequestOK
      <3>2. made' = [made EXCEPT ![r][i] = 1]
        BY <2>3, <3>1 DEF Inv, TypeOK
      <3> QED
        BY <2>1, <3>1, <3>2 DEF Promise!Make
    <2> QED
      BY <1>4, <2>2, <2>3, UnitFrame
  <1>5. CASE Signal \/ Cancel \/ Close \/ Closed \/ Exit \/ UNCHANGED vars
    BY <1>5 DEF Signal, Cancel, Close, Closed, Exit, vars
  <1> QED
    BY <1>1, <1>2, <1>3, <1>4, <1>5 DEF Next, Promise!Next

(* The interceptor implements TriggerPromise.                              *)
THEOREM ImplementsPromise == Spec => KeepsPromise
  <1>1. Init => Promise!Init
    BY DEF Init, Promise!Init
  <1> QED
    BY <1>1, StepSimulation, InvAlways, PTL DEF Spec, KeepsPromise, Promise!Spec
=============================================================================
