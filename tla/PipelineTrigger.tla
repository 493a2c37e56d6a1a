--------------------------- MODULE PipelineTrigger ---------------------------
(***************************************************************************)
(* pipeline-config-trigger: the interceptor that creates the PipelineRuns  *)
(* of a configuration (pkg/pipelineconfigtrigger), with the limited pool   *)
(* of workers all requests share (external: go-playground/pool) and the    *)
(* shutdown that cmd/pipeline-config-trigger wires to it.                  *)
(***************************************************************************)
EXTENDS Integers, FiniteSets

CONSTANTS
  Requests,   \* the requests that arrive
  Runs,       \* names of the PipelineRuns a request may ask for
  Workers     \* the flag --workers

ASSUME ConstantsAssumption ==
  /\ Workers \in Nat \ {0}
  /\ IsFiniteSet(Requests) /\ IsFiniteSet(Runs)

VARIABLES
  kind,      \* [Requests -> Kind]: what is wrong with the request; never changes
  want,      \* [Requests -> SUBSET Runs]: what its configuration asks for,
             \* the pipelines of the triggers whose filter matches
  pc,        \* [Requests -> where its handler is]
  answer,    \* [Requests -> {"open", "OK", "failed"}]
  unit,      \* [Requests -> [Runs -> the state of the unit of work]]
  failed,    \* [Requests -> SUBSET Runs]: units that ended with an error
  made,      \* [Requests -> [Runs -> Nat]]: PipelineRuns created
  pool,      \* "open", "closing" (Close waits for the lock) or "closed"
  ctx,       \* the base context of all requests: "live", "told" (a signal has
             \* come and it is not cancelled yet) or "cancelled"
  alive      \* the process runs

vars == <<kind, want, pc, answer, unit, failed, made, pool, ctx, alive>>

(* unbuilt: some filter or parameter of the configuration has an error, or *)
(* some merge of its defaults; that nothing is handed over then is         *)
(* AllOrNothing of ConfigChain.                                            *)
Kind == {"good", "malformed", "noConfig", "unbuilt"}
PC == {"new", "queue", "wait", "end"}
UnitState == {"none", "spawned", "sending", "queued", "running", "applied", "done"}

Unit == Requests \X Runs
In(s) == {u \in Unit : unit[u[1]][u[2]] = s}
Become(r, i, s) == unit' = [unit EXCEPT ![r][i] = s]
Capacity == 2 * Workers

-----------------------------------------------------------------------------
Init ==
  /\ kind \in [Requests -> Kind]
  /\ want \in [Requests -> SUBSET Runs]
  /\ pc = [r \in Requests |-> "new"]
  /\ answer = [r \in Requests |-> "open"]
  /\ unit = [r \in Requests |-> [i \in Runs |-> "none"]]
  /\ failed = [r \in Requests |-> {}]
  /\ made = [r \in Requests |-> [i \in Runs |-> 0]]
  /\ pool = "open" /\ ctx = "live" /\ alive = TRUE

-----------------------------------------------------------------------------
(* The handler.                                                            *)

(* interceptor.Process: all PipelineRuns are built before the first is     *)
(* created, and any error fails the request.                               *)
Passes(r) == kind[r] = "good"

(* Mutant: a request that cannot be read gets no response.                 *)
Refusal_Nil == "nil"

Refusal == "failed"

Process(r) ==
  /\ alive /\ pc[r] = "new"
  /\ pc' = [pc EXCEPT ![r] = IF Passes(r) THEN "queue" ELSE "end"]
  /\ answer' = [answer EXCEPT ![r] = IF Passes(r) THEN @ ELSE Refusal]
  /\ UNCHANGED <<kind, want, unit, failed, made, pool, ctx, alive>>

(* Mutant: the batch is never completed, so its results never end.         *)
Queue_NoComplete(r) ==
  /\ alive /\ pc[r] = "queue"
  /\ unit[r] = [i \in Runs |-> "none"] /\ want[r] # {}
  /\ unit' = [unit EXCEPT ![r] = [i \in Runs |->
                IF i \in want[r] THEN "spawned" ELSE "none"]]
  /\ UNCHANGED <<kind, want, pc, answer, failed, made, pool, ctx, alive>>

(* service.Create: one unit of work for each PipelineRun, each sent to the *)
(* pool by a goroutine of its own; the batch is complete.                  *)
Queue(r) ==
  /\ alive /\ pc[r] = "queue"
  /\ unit' = [unit EXCEPT ![r] = [i \in Runs |->
                IF i \in want[r] THEN "spawned" ELSE "none"]]
  /\ pc' = [pc EXCEPT ![r] = "wait"]
  /\ UNCHANGED <<kind, want, answer, failed, made, pool, ctx, alive>>

(* Mutant: the first error ends the wait.                                  *)
Ended_First(r) == \A i \in want[r] : unit[r][i] = "done" \/ failed[r] # {}

Ended(r) == \A i \in want[r] : unit[r][i] = "done"

(* service.Create: the results are collected to the last, and the errors   *)
(* put together; interceptor.Process answers.                              *)
Collect(r) ==
  /\ alive /\ pc[r] = "wait" /\ Ended(r)
  /\ answer' = [answer EXCEPT ![r] = IF failed[r] = {} THEN "OK" ELSE "failed"]
  /\ pc' = [pc EXCEPT ![r] = "end"]
  /\ UNCHANGED <<kind, want, unit, failed, made, pool, ctx, alive>>

-----------------------------------------------------------------------------
(* The pool.                                                               *)

EndWithError(r, i) ==
  /\ Become(r, i, "done")
  /\ failed' = [failed EXCEPT ![r] = @ \cup {i}]

(* The unit's goroutine takes the read lock, which it does not get while   *)
(* Close waits; in a closed pool the unit ends with ErrPoolClosed.         *)
Enter(r, i) ==
  /\ alive /\ unit[r][i] = "spawned"
  /\ \/ /\ pool = "open"
        /\ Become(r, i, "sending")
        /\ UNCHANGED failed
     \/ /\ pool = "closed"
        /\ EndWithError(r, i)
  /\ UNCHANGED <<kind, want, pc, answer, made, pool, ctx, alive>>

(* It sends the unit, still under the lock, when the channel has room.     *)
Send(r, i) ==
  /\ alive /\ unit[r][i] = "sending"
  /\ Cardinality(In("queued")) < Capacity
  /\ Become(r, i, "queued")
  /\ UNCHANGED <<kind, want, pc, answer, failed, made, pool, ctx, alive>>

Free == Cardinality(In("running") \cup In("applied")) < Workers

(* A free worker takes the unit; the closure of service.create calls the   *)
(* API server, which a cancelled context does not even reach.  Workers of  *)
(* a closed pool may still take units before they see that it is closed.   *)
Start(r, i) ==
  /\ alive /\ unit[r][i] = "queued" /\ Free
  /\ IF ctx # "cancelled" THEN Become(r, i, "running") /\ UNCHANGED failed
     ELSE EndWithError(r, i)
  /\ UNCHANGED <<kind, want, pc, answer, made, pool, ctx, alive>>

(* The API server creates the PipelineRun (the name is generated: creating *)
(* it again makes another one).                                            *)
Apply(r, i) ==
  /\ alive /\ unit[r][i] = "running"
  /\ made' = [made EXCEPT ![r][i] = @ + 1]
  /\ Become(r, i, "applied")
  /\ UNCHANGED <<kind, want, pc, answer, failed, pool, ctx, alive>>

(* The call returns what was created.                                      *)
Return(r, i) ==
  /\ alive /\ unit[r][i] = "applied"
  /\ Become(r, i, "done")
  /\ UNCHANGED <<kind, want, pc, answer, failed, made, pool, ctx, alive>>

(* The call fails, before or after the PipelineRun was created, or panics, *)
(* which the worker turns into an error.                                   *)
CallFails(r, i) ==
  /\ alive /\ unit[r][i] \in {"running", "applied"}
  /\ EndWithError(r, i)
  /\ UNCHANGED <<kind, want, pc, answer, made, pool, ctx, alive>>

-----------------------------------------------------------------------------
(* Shutdown.                                                               *)

(* A SIGTERM is sent to two goroutines: knative's cancels the base context *)
(* (external), the server's starts the shutdown.  Either may be first.     *)
Signal ==
  /\ alive /\ ctx = "live"
  /\ ctx' = "told"
  /\ UNCHANGED <<kind, want, pc, answer, unit, failed, made, pool, alive>>

Cancel ==
  /\ alive /\ ctx = "told"
  /\ ctx' = "cancelled"
  /\ UNCHANGED <<kind, want, pc, answer, unit, failed, made, pool, alive>>

(* The function registered on shutdown calls pool.Close at once, and not   *)
(* when the requests have ended; Close waits for the senders.              *)
Close ==
  /\ alive /\ ctx # "live" /\ pool = "open"
  /\ pool' = "closing"
  /\ UNCHANGED <<kind, want, pc, answer, unit, failed, made, ctx, alive>>

Closed ==
  /\ alive /\ pool = "closing" /\ In("sending") = {}
  /\ pool' = "closed"
  /\ UNCHANGED <<kind, want, pc, answer, unit, failed, made, ctx, alive>>

(* Close cancels what is left in the channel.                              *)
Drain(r, i) ==
  /\ alive /\ pool = "closed" /\ unit[r][i] = "queued"
  /\ EndWithError(r, i)
  /\ UNCHANGED <<kind, want, pc, answer, made, pool, ctx, alive>>

(* ListenAndServe returns as soon as the shutdown begins, and main with it,*)
(* whatever is being served.                                               *)
Exit ==
  /\ alive /\ ctx # "live"
  /\ alive' = FALSE
  /\ UNCHANGED <<kind, want, pc, answer, unit, failed, made, pool, ctx>>

UnitStep(r, i) ==
  \/ Enter(r, i) \/ Send(r, i) \/ Start(r, i) \/ Apply(r, i)
  \/ Return(r, i) \/ CallFails(r, i) \/ Drain(r, i)

Next ==
  \/ \E r \in Requests : Process(r) \/ Queue(r) \/ Collect(r)
  \/ \E r \in Requests, i \in Runs : UnitStep(r, i)
  \/ Signal \/ Cancel \/ Close \/ Closed \/ Exit

(* Goroutines run, and the API server answers or the call fails.           *)
Fairness ==
  /\ \A r \in Requests : WF_vars(Queue(r)) /\ WF_vars(Collect(r))
  /\ \A r \in Requests, i \in Runs : WF_vars(UnitStep(r, i))
  /\ WF_vars(Closed)

Spec == Init /\ [][Next]_vars /\ Fairness

-----------------------------------------------------------------------------
(* Every variable keeps its type.                                          *)
TypeOK ==
  /\ kind \in [Requests -> Kind]
  /\ want \in [Requests -> SUBSET Runs]
  /\ pc \in [Requests -> PC]
  /\ answer \in [Requests -> {"open", "OK", "failed"}]
  /\ unit \in [Requests -> [Runs -> UnitState]]
  /\ failed \in [Requests -> SUBSET Runs]
  /\ made \in [Requests -> [Runs -> Nat]]
  /\ pool \in {"open", "closing", "closed"}
  /\ ctx \in {"live", "told", "cancelled"}
  /\ alive \in BOOLEAN

(* The interceptor keeps its promise: PipelineRuns appear one by one while *)
(* the request is open, each at most once, and OK means all of them; no    *)
(* unit is left that creates one after the answer.                         *)
Promise == INSTANCE TriggerPromise
KeepsPromise == Promise!Spec

(* A request that is being served is answered or the process ends: no unit *)
(* is lost between its goroutine, the channel, the workers and Close.      *)
ServedIsAnswered ==
  \A r \in Requests : pc[r] \in {"queue", "wait"} ~> pc[r] = "end" \/ ~ alive
=============================================================================
