----------------------------- MODULE ServerSignals -----------------------------
(***************************************************************************)
(* The life of a server in each of some processes (internal/serversignals):*)
(* one errgroup of the goroutine that serves and the one that waits for a  *)
(* signal, and within the latter another of http.Server.Shutdown and the   *)
(* force-stop timer.  net/http, errgroup and os/signal are external.       *)
(***************************************************************************)
CONSTANTS Replicas

VARIABLES
  stage,     \* [Replicas -> {"down", "boot", "serve"}]; "serve" is what
             \* StartAndWaitSignalsThenShutdown does
  ctx,       \* the base context, which knative's handler of signals cancels:
             \* "live", "told" (a signal has come) or "cancelled"
  listener,  \* ListenAndServe: "off", "open", "closed" or "failed"
  waiter,    \* WaitSignalsThenShutdown: "off", "waiting", "told" (the signal
             \* is in its channel), "stopping" or "done"
  drain,     \* http.Server.Shutdown: "off", "running" or "done"
  timer,     \* the goroutine of the force-stop timer, alike
  first,     \* the error that cancelled the outer group: "none", "closed"
             \* (http.ErrServerClosed) or "listen"
  busy,      \* a request is being served
  exit       \* how the process ended last: "none", "ok", "fatal" or "killed"

server == <<listener, waiter, drain, timer, first, busy>>
lifeVars == <<stage, ctx, server, exit>>

Serving(r) == stage[r] = "serve"

LifeInit ==
  /\ stage = [r \in Replicas |-> "down"]
  /\ ctx = [r \in Replicas |-> "live"]
  /\ listener = [r \in Replicas |-> "off"]
  /\ waiter = [r \in Replicas |-> "off"]
  /\ drain = [r \in Replicas |-> "off"]
  /\ timer = [r \in Replicas |-> "off"]
  /\ first = [r \in Replicas |-> "none"]
  /\ busy = [r \in Replicas |-> FALSE]
  /\ exit = [r \in Replicas |-> "none"]

(* A new process; its server has not started.                              *)
Begin(r) ==
  /\ stage[r] = "down"
  /\ stage' = [stage EXCEPT ![r] = "boot"]
  /\ ctx' = [ctx EXCEPT ![r] = "live"]
  /\ listener' = [listener EXCEPT ![r] = "off"]
  /\ waiter' = [waiter EXCEPT ![r] = "off"]
  /\ drain' = [drain EXCEPT ![r] = "off"]
  /\ timer' = [timer EXCEPT ![r] = "off"]
  /\ first' = [first EXCEPT ![r] = "none"]
  /\ exit' = [exit EXCEPT ![r] = "none"]
  /\ UNCHANGED busy

Serve(r) ==
  /\ stage[r] = "boot"
  /\ stage' = [stage EXCEPT ![r] = "serve"]
  /\ UNCHANGED <<ctx, server, exit>>

(* The process ends, and with it what it serves.                           *)
End(r, how) ==
  /\ stage' = [stage EXCEPT ![r] = "down"]
  /\ busy' = [busy EXCEPT ![r] = FALSE]
  /\ exit' = [exit EXCEPT ![r] = how]
  /\ UNCHANGED <<ctx, listener, waiter, drain, timer, first>>

-----------------------------------------------------------------------------
(* The goroutine that serves.                                              *)

(* The first error of a group is its result and cancels its context.       *)
(* Mutant: the last one is.                                                *)
Raise_Last(r, error) == first' = [first EXCEPT ![r] = error]

Raise(r, error) == first' = [first EXCEPT ![r] = IF @ = "none" THEN error ELSE @]

(* ListenAndServe: a server whose shutdown has begun does not start.       *)
Listen(r) ==
  /\ Serving(r) /\ listener[r] = "off"
  /\ IF drain[r] = "off"
       THEN listener' = [listener EXCEPT ![r] = "open"] /\ UNCHANGED first
       ELSE listener' = [listener EXCEPT ![r] = "closed"] /\ Raise(r, "closed")
  /\ UNCHANGED <<stage, ctx, waiter, drain, timer, busy, exit>>

(* The address is taken, or the listener breaks later.                     *)
ListenFails(r) ==
  /\ Serving(r) /\ listener[r] \in {"off", "open"} /\ drain[r] = "off"
  /\ listener' = [listener EXCEPT ![r] = "failed"]
  /\ Raise(r, "listen")
  /\ UNCHANGED <<stage, ctx, waiter, drain, timer, busy, exit>>

(* Shutdown closes the listeners, and Serve returns http.ErrServerClosed.  *)
ServeReturns(r) ==
  /\ Serving(r) /\ listener[r] = "open" /\ drain[r] # "off"
  /\ listener' = [listener EXCEPT ![r] = "closed"]
  /\ Raise(r, "closed")
  /\ UNCHANGED <<stage, ctx, waiter, drain, timer, busy, exit>>

Accept(r) ==
  /\ Serving(r) /\ listener[r] = "open" /\ drain[r] = "off" /\ ~ busy[r]
  /\ busy' = [busy EXCEPT ![r] = TRUE]
  /\ UNCHANGED <<stage, ctx, listener, waiter, drain, timer, first, exit>>

Finish(r) ==
  /\ Serving(r) /\ busy[r]
  /\ busy' = [busy EXCEPT ![r] = FALSE]
  /\ UNCHANGED <<stage, ctx, listener, waiter, drain, timer, first, exit>>

-----------------------------------------------------------------------------
(* The goroutine that waits.                                               *)

Notify(r) ==
  /\ Serving(r) /\ waiter[r] = "off"
  /\ waiter' = [waiter EXCEPT ![r] = "waiting"]
  /\ UNCHANGED <<stage, ctx, listener, drain, timer, first, busy, exit>>

(* SIGTERM is sent to knative's channel, and to this one only when Notify  *)
(* was called before: an earlier signal never shuts the server down.       *)
Signal(r) ==
  /\ stage[r] # "down" /\ ctx[r] = "live"
  /\ ctx' = [ctx EXCEPT ![r] = "told"]
  /\ waiter' = [waiter EXCEPT ![r] = IF @ = "waiting" THEN "told" ELSE @]
  /\ UNCHANGED <<stage, listener, drain, timer, first, busy, exit>>

Cancel(r) ==
  /\ stage[r] # "down" /\ ctx[r] = "told"
  /\ ctx' = [ctx EXCEPT ![r] = "cancelled"]
  /\ UNCHANGED <<stage, server, exit>>

SeesFailure(r) == first[r] # "none"

WaitEnds(r) ==
  /\ Serving(r) /\ waiter[r] \in {"waiting", "told"} /\ SeesFailure(r)
  /\ waiter' = [waiter EXCEPT ![r] = "done"]
  /\ Raise(r, "context")
  /\ UNCHANGED <<stage, ctx, listener, drain, timer, busy, exit>>

BeginShutdown(r) ==
  /\ Serving(r) /\ waiter[r] = "told"
  /\ waiter' = [waiter EXCEPT ![r] = "stopping"]
  /\ drain' = [drain EXCEPT ![r] = "running"]
  /\ timer' = [timer EXCEPT ![r] = "running"]
  /\ UNCHANGED <<stage, ctx, listener, first, busy, exit>>

(* Shutdown is given the context of the outer group, which is cancelled as *)
(* soon as Serve returns.  Mutant: it is given one of its own.             *)
GroupOver_Never(r) == FALSE

GroupOver(r) == first[r] # "none"

(* http.Server.Shutdown waits for the listener, and for requests until its *)
(* context is cancelled.                                                   *)
Drained(r) ==
  /\ Serving(r) /\ drain[r] = "running" /\ listener[r] # "open"
  /\ ~ busy[r] \/ GroupOver(r)
  /\ drain' = [drain EXCEPT ![r] = "done"]
  /\ UNCHANGED <<stage, ctx, listener, waiter, timer, first, busy, exit>>

(* The timer, which is stopped when Shutdown returns, closes connections.  *)
TimerFires(r) ==
  /\ Serving(r) /\ timer[r] = "running" /\ drain[r] = "running"
  /\ timer' = [timer EXCEPT ![r] = "done"]
  /\ busy' = [busy EXCEPT ![r] = FALSE]
  /\ UNCHANGED <<stage, ctx, listener, waiter, drain, first, exit>>

(* A stopped timer never fires: its goroutine ends with the context only.  *)
TimerEnds(r) ==
  /\ Serving(r) /\ timer[r] = "running" /\ GroupOver(r)
  /\ timer' = [timer EXCEPT ![r] = "done"]
  /\ UNCHANGED <<stage, ctx, listener, waiter, drain, first, busy, exit>>

(* What is left to return is the context's error, or nothing.              *)
Stopped(r) ==
  /\ Serving(r) /\ waiter[r] = "stopping" /\ drain[r] = "done" /\ timer[r] = "done"
  /\ waiter' = [waiter EXCEPT ![r] = "done"]
  /\ IF GroupOver(r) THEN Raise(r, "context") ELSE UNCHANGED first
  /\ UNCHANGED <<stage, ctx, listener, drain, timer, busy, exit>>

-----------------------------------------------------------------------------
(* main compares the error of the group with http.ErrServerClosed.         *)
(* Mutant: with nil.                                                       *)
ExitOf_Nil(r) == IF first[r] = "none" THEN "ok" ELSE "fatal"

ExitOf(r) == IF first[r] = "closed" THEN "ok" ELSE "fatal"

Return(r) ==
  /\ Serving(r) /\ waiter[r] = "done" /\ listener[r] \in {"closed", "failed"}
  /\ End(r, ExitOf(r))

(* The grace period is over.                                               *)
Kill(r) ==
  /\ stage[r] # "down" /\ ctx[r] # "live"
  /\ End(r, "killed")

Goroutines(r) ==
  \/ Listen(r) \/ ServeReturns(r) \/ Notify(r) \/ WaitEnds(r) \/ BeginShutdown(r)
  \/ Drained(r) \/ TimerEnds(r) \/ Stopped(r) \/ Return(r)

-----------------------------------------------------------------------------
(* The types; "context" is the error of some goroutine, but never the first*)
(* of the group, so that main need not know it.                            *)
LifeTypeOK ==
  /\ stage \in [Replicas -> {"down", "boot", "serve"}]
  /\ ctx \in [Replicas -> {"live", "told", "cancelled"}]
  /\ listener \in [Replicas -> {"off", "open", "closed", "failed"}]
  /\ waiter \in [Replicas -> {"off", "waiting", "told", "stopping", "done"}]
  /\ drain \in [Replicas -> {"off", "running", "done"}]
  /\ timer \in [Replicas -> {"off", "running", "done"}]
  /\ first \in [Replicas -> {"none", "closed", "listen"}]
  /\ busy \in [Replicas -> BOOLEAN]
  /\ exit \in [Replicas -> {"none", "ok", "fatal", "killed"}]

(* Whoever told the server to stop sees a clean exit, unless the listener  *)
(* broke first or the process was killed, and nobody else does: of the     *)
(* four goroutines' errors main gets the one that says which.              *)
CleanExitWhenTold ==
  \A r \in Replicas :
    /\ exit[r] = "ok" => ctx[r] # "live" /\ drain[r] = "done"
    /\ exit[r] = "fatal" /\ drain[r] # "off" => listener[r] = "failed"

(* A server that heard the signal, or whose listener is gone, ends: no     *)
(* request that hangs, no stopped timer and no goroutine of the two groups *)
(* keeps the process.                                                      *)
EndedServerEnds ==
  \A r \in Replicas :
    Serving(r) /\ (waiter[r] = "told" \/ listener[r] \in {"closed", "failed"})
      ~> stage[r] = "down"
=============================================================================
