----------------------------- MODULE Interceptors -----------------------------
(***************************************************************************)
(* Replicas of an interceptor (cmd/*/main.go): each prepares its           *)
(* certificate (CertUpdater), serves until it is told to end               *)
(* (ServerSignals), and is started again by Kubernetes.                    *)
(***************************************************************************)
EXTENDS CertUpdater

CONSTANTS
  MaxStops,   \* bound on signals
  MaxFaults   \* bound on failed calls and listeners

ASSUME BoundsAssumption == MaxStops \in Nat /\ MaxFaults \in Nat

VARIABLES stops, faults

vars == <<lifeVars, certVars, stops, faults>>

Init ==
  /\ LifeInit /\ CertInit
  /\ stops = 0 /\ faults = 0

Boot(r) ==
  /\ Begin(r) /\ Start(r)
  /\ UNCHANGED <<stops, faults>>

(* A call needs a context that is not cancelled.                           *)
Prepare(r) ==
  /\ stage[r] = "boot"
  /\ ctx[r] # "cancelled" \/ step[r] \in {"bundle", "keys"}
  /\ PrepareTLS(r)
  /\ UNCHANGED <<lifeVars, stops, faults>>

(* A call fails, before or after it had its effect.                        *)
PrepareFails(r) ==
  /\ stage[r] = "boot" /\ step[r] \notin {"ready", "fatal"}
  /\ \/ ctx[r] = "cancelled" /\ UNCHANGED faults
     \/ faults < MaxFaults /\ faults' = faults + 1
  /\ Go(r, "fatal")
  /\ UNCHANGED <<lifeVars, mine, seen, secret, certs, ci, late, stops>>

(* logger.Fatalw.                                                          *)
Die(r) ==
  /\ stage[r] = "boot" /\ step[r] = "fatal"
  /\ End(r, "fatal")
  /\ UNCHANGED <<certVars, stops, faults>>

StartServer(r) ==
  /\ step[r] = "ready" /\ Serve(r)
  /\ UNCHANGED <<certVars, stops, faults>>

Run(r) ==
  /\ Goroutines(r)
  /\ UNCHANGED <<certVars, stops, faults>>

Request(r) ==
  /\ Accept(r) \/ Finish(r) \/ TimerFires(r) \/ Cancel(r) \/ Kill(r)
  /\ UNCHANGED <<certVars, stops, faults>>

Stop(r) ==
  /\ stops < MaxStops /\ stops' = stops + 1
  /\ Signal(r)
  /\ UNCHANGED <<certVars, faults>>

Break(r) ==
  /\ faults < MaxFaults /\ faults' = faults + 1
  /\ ListenFails(r)
  /\ UNCHANGED <<certVars, stops>>

Update(r) ==
  /\ stage[r] = "boot" /\ Sync(r)
  /\ UNCHANGED <<lifeVars, stops, faults>>

Delete ==
  /\ DeleteSecret /\ certs < MaxCerts
  /\ UNCHANGED <<lifeVars, stops, faults>>

Progress(r) == Boot(r) \/ Prepare(r) \/ Die(r) \/ StartServer(r) \/ Run(r)

Next ==
  \/ \E r \in Replicas :
       \/ Progress(r) \/ PrepareFails(r) \/ Request(r)
       \/ Stop(r) \/ Break(r) \/ Update(r)
  \/ Delete

(* Goroutines run, the API server answers, calls with a cancelled context  *)
(* fail, and Kubernetes starts what has ended.  Nothing makes a request    *)
(* end, the timer fire or the grace period run out.                        *)
Fairness ==
  \A r \in Replicas :
    WF_vars(Progress(r)) /\ WF_vars(ctx[r] = "cancelled" /\ PrepareFails(r))

Spec == Init /\ [][Next]_vars /\ Fairness

-----------------------------------------------------------------------------
(* Every variable keeps its type.                                          *)
TypeOK == LifeTypeOK /\ CertTypeOK /\ stops \in 0..MaxStops /\ faults \in 0..MaxFaults

(* All replicas end up serving: neither the race for the Secret and the    *)
(* ClusterInterceptor nor a lister that lags makes them fail for ever.     *)
EventuallyServing == <>[](\A r \in Replicas : Serving(r))
=============================================================================
