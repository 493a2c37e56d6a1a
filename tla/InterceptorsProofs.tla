-------------------------- MODULE InterceptorsProofs --------------------------
(***************************************************************************)
(* Theorems about Interceptors, for any replicas and any number of         *)
(* signals, faults and certificates.                                       *)
(***************************************************************************)
EXTENDS Interceptors, TLAPS

(* How a server's goroutines stand to each other.                          *)
LifeOK(r) ==
  /\ stage[r] = "boot" =>
       listener[r] = "off" /\ waiter[r] = "off" /\ drain[r] = "off" /\ first[r] = "none"
  /\ stage[r] # "down" => exit[r] = "none"
  /\ first[r] = "none" <=> listener[r] \in {"off", "open"}
  /\ first[r] = "closed" <=> listener[r] = "closed"
  /\ listener[r] = "closed" => drain[r] # "off"
  /\ waiter[r] \in {"off", "waiting", "told"} => drain[r] = "off"
  /\ waiter[r] = "done" => drain[r] \in {"off", "done"}
  /\ waiter[r] = "told" \/ drain[r] # "off" => ctx[r] # "live"
  /\ exit[r] = "ok" => ctx[r] # "live" /\ drain[r] = "done"
  /\ exit[r] = "fatal" /\ drain[r] # "off" => listener[r] = "failed"

(* A certificate that is the Secret's and that a lister shows in the       *)
(* caBundle is still there, or was overwritten late.                       *)
Trusted == ci.ca = secret \/ late

CertOK ==
  /\ ci.ca <= certs
  /\ \A r \in Replicas : seen[r].ca <= certs /\ mine[r] <= certs
  /\ \A r \in Replicas : seen[r].ca = secret /\ secret # 0 => Trusted
  /\ RegeneratedIsTrusted

Inv ==
  /\ TypeOK
  /\ \A r \in Replicas : LifeOK(r)
  /\ CertOK

LEMMA InitInv == Init => Inv
  <1> SUFFICES ASSUME Init PROVE Inv
    OBVIOUS
  <1> USE MaxCertsAssumption, BoundsAssumption
  <1>1. LifeTypeOK
    BY DEF Init, LifeInit, LifeTypeOK
  <1>2. CertTypeOK
    <2>1. PICK old \in {0, 1} \cap Cert :
            /\ certs = old /\ secret \in {0, old}
            /\ ci \in {[rv |-> 0, ca |-> 0], [rv |-> old, ca |-> old]}
      BY DEF Init, CertInit
    <2>2. ci \in [rv : Nat, ca : Cert] /\ (ci.rv = 0 => ci.ca = 0)
      BY <2>1 DEF Cert
    <2>3. certs \in Cert /\ secret \in 0..certs
      BY <2>1 DEF Cert
    <2>4. step \in [Replicas -> Step] /\ mine \in [Replicas -> Cert]
      BY DEF Init, CertInit, Cert, Step
    <2>5. seen = [r \in Replicas |-> ci] /\ late = FALSE
      BY DEF Init, CertInit
    <2> QED
      BY <2>2, <2>3, <2>4, <2>5 DEF CertTypeOK
  <1>3. stops \in 0..MaxStops /\ faults \in 0..MaxFaults
    BY DEF Init
  <1>4. \A r \in Replicas : LifeOK(r)
    BY DEF Init, LifeInit, LifeOK
  <1>5. CertOK
    BY DEF Init, CertInit, CertOK, RegeneratedIsTrusted, Trusted, Cert
  <1> QED
    BY <1>1, <1>2, <1>3, <1>4, <1>5 DEF Inv, TypeOK

-----------------------------------------------------------------------------
(* The server's steps.                                                     *)
Fatal(r) == stage[r] = "boot" /\ End(r, "fatal")

LifeStep(r) ==
  \/ Begin(r) \/ Serve(r) \/ Goroutines(r) \/ ListenFails(r) \/ Signal(r)
  \/ Accept(r) \/ Finish(r) \/ TimerFires(r) \/ Cancel(r) \/ Kill(r)
  \/ Fatal(r)

LEMMA BusyType ==
  ASSUME NEW r \in Replicas, NEW b \in [Replicas -> BOOLEAN], NEW v \in BOOLEAN
  PROVE  [b EXCEPT ![r] = v] \in [Replicas -> BOOLEAN]
  OBVIOUS

LEMMA LifeStepType ==
  ASSUME LifeTypeOK, NEW r \in Replicas, LifeStep(r), LifeOK(r)
  PROVE  LifeTypeOK'
  <1> USE DEF LifeTypeOK
  <1>1. CASE Begin(r)
    BY <1>1 DEF Begin
  <1>2. CASE Serve(r) \/ Accept(r) \/ Finish(r) \/ TimerFires(r) \/ Cancel(r) \/ Signal(r)
    <2>1. CASE Serve(r) \/ Cancel(r)
      BY <2>1 DEF Serve, Cancel, server
    <2>2. CASE Accept(r) \/ Finish(r) \/ TimerFires(r)
      <3>1. busy' \in [Replicas -> BOOLEAN]
        BY <2>2, BusyType DEF Accept, Finish, TimerFires
      <3>2. timer' \in [Replicas -> {"off", "running", "done"}]
        BY <2>2 DEF Accept, Finish, TimerFires
      <3>3. UNCHANGED <<stage, ctx, listener, waiter, drain, first, exit>>
        BY <2>2 DEF Accept, Finish, TimerFires
      <3> QED
        BY <3>1, <3>2, <3>3
    <2>3. CASE Signal(r)
      BY <2>3 DEF Signal
    <2> QED
      BY <1>2, <2>1, <2>2, <2>3
  <1>3. CASE Kill(r) \/ Return(r) \/ Fatal(r)
    <2>1. busy' \in [Replicas -> BOOLEAN]
      <3>1. busy' = [busy EXCEPT ![r] = FALSE]
        BY <1>3 DEF Kill, Return, Fatal, End
      <3> QED
        BY <3>1, BusyType
    <2>2. exit' \in [Replicas -> {"none", "ok", "fatal", "killed"}]
      BY <1>3 DEF Kill, Return, Fatal, End, ExitOf
    <2>3. stage' \in [Replicas -> {"down", "boot", "serve"}]
      BY <1>3 DEF Kill, Return, Fatal, End
    <2>4. UNCHANGED <<ctx, listener, waiter, drain, timer, first>>
      BY <1>3 DEF Kill, Return, Fatal, End
    <2> QED
      BY <2>1, <2>2, <2>3, <2>4
  <1>4. CASE Listen(r) \/ ListenFails(r) \/ ServeReturns(r)
    BY <1>4 DEF Listen, ListenFails, ServeReturns, Raise
  <1>5. CASE WaitEnds(r) \/ Stopped(r)
    BY <1>5 DEF WaitEnds, Stopped, Raise, SeesFailure, GroupOver
  <1>6. CASE Notify(r) \/ BeginShutdown(r) \/ Drained(r) \/ TimerEnds(r)
    BY <1>6 DEF Notify, BeginShutdown, Drained, TimerEnds
  <1> HIDE DEF LifeTypeOK
  <1> QED
    BY <1>1, <1>2, <1>3, <1>4, <1>5, <1>6 DEF LifeStep, Goroutines

LEMMA LifeStepOther ==
  ASSUME LifeTypeOK, NEW r \in Replicas, LifeStep(r), NEW q \in Replicas \ {r}, LifeOK(q)
  PROVE  LifeOK(q)'
  <1> USE DEF LifeTypeOK, LifeOK
  <1>1. CASE Begin(r)
    BY <1>1 DEF Begin
  <1>2. CASE Serve(r) \/ Accept(r) \/ Finish(r) \/ TimerFires(r) \/ Cancel(r) \/ Signal(r)
    BY <1>2 DEF Serve, Accept, Finish, TimerFires, Cancel, Signal, server
  <1>3. CASE Kill(r) \/ Return(r) \/ Fatal(r)
    BY <1>3 DEF Kill, Return, Fatal, End, ExitOf
  <1>4. CASE Listen(r) \/ ListenFails(r) \/ ServeReturns(r)
    BY <1>4 DEF Listen, ListenFails, ServeReturns, Raise
  <1>5. CASE WaitEnds(r) \/ Stopped(r)
    BY <1>5 DEF WaitEnds, Stopped, Raise
  <1>6. CASE Notify(r) \/ BeginShutdown(r) \/ Drained(r) \/ TimerEnds(r)
    BY <1>6 DEF Notify, BeginShutdown, Drained, TimerEnds
  <1> HIDE DEF LifeTypeOK, LifeOK
  <1> QED
    BY <1>1, <1>2, <1>3, <1>4, <1>5, <1>6 DEF LifeStep, Goroutines

LEMMA LifeStepOwn ==
  ASSUME LifeTypeOK, NEW r \in Replicas, LifeStep(r), LifeOK(r)
  PROVE  LifeOK(r)'
  <1> USE DEF LifeTypeOK, LifeOK
  <1>1. CASE Begin(r)
    BY <1>1 DEF Begin
  <1>2. CASE Serve(r) \/ Accept(r) \/ Finish(r) \/ TimerFires(r) \/ Cancel(r) \/ Signal(r)
    BY <1>2 DEF Serve, Accept, Finish, TimerFires, Cancel, Signal, server, Serving
  <1>3. CASE Return(r)
    BY <1>3 DEF Return, End, ExitOf, Serving
  <1>4. CASE Kill(r) \/ Fatal(r)
    BY <1>4 DEF Kill, Fatal, End
  <1>5. CASE Listen(r)
    BY <1>5 DEF Listen, Raise, Serving
  <1>6. CASE ListenFails(r)
    BY <1>6 DEF ListenFails, Raise, Serving
  <1>7. CASE ServeReturns(r)
    BY <1>7 DEF ServeReturns, Raise, Serving
  <1>8. CASE WaitEnds(r) \/ Stopped(r)
    BY <1>8 DEF WaitEnds, Stopped, Raise, SeesFailure, GroupOver, Serving
  <1>9. CASE Notify(r) \/ BeginShutdown(r)
    BY <1>9 DEF Notify, BeginShutdown, Serving
  <1>10. CASE Drained(r) \/ TimerEnds(r)
    BY <1>10 DEF Drained, TimerEnds, Serving
  <1> HIDE DEF LifeTypeOK, LifeOK
  <1> QED
    BY <1>1, <1>2, <1>3, <1>4, <1>5, <1>6, <1>7, <1>8, <1>9, <1>10 DEF LifeStep, Goroutines

LEMMA LifeStepInv ==
  ASSUME Inv, NEW r \in Replicas, LifeStep(r)
  PROVE  LifeTypeOK' /\ \A q \in Replicas : LifeOK(q)'
  <1>1. LifeTypeOK /\ LifeOK(r) /\ \A q \in Replicas : LifeOK(q)
    BY DEF Inv, TypeOK
  <1>2. LifeTypeOK'
    BY <1>1, LifeStepType
  <1>3. LifeOK(r)'
    BY <1>1, LifeStepOwn
  <1>4. \A q \in Replicas \ {r} : LifeOK(q)'
    BY <1>1, LifeStepOther
  <1> QED
    BY <1>2, <1>3, <1>4

LEMMA LifeUnchanged ==
  ASSUME Inv, UNCHANGED lifeVars
  PROVE  LifeTypeOK' /\ \A q \in Replicas : LifeOK(q)'
  BY DEF Inv, TypeOK, LifeTypeOK, LifeOK, lifeVars, server

-----------------------------------------------------------------------------
(* The updater's steps.                                                    *)
LEMMA CertStepInv ==
  ASSUME Inv, NEW r \in Replicas, PrepareTLS(r)
  PROVE  CertTypeOK' /\ CertOK'
  <1> USE MaxCertsAssumption DEF Inv, TypeOK, CertTypeOK, CertOK, RegeneratedIsTrusted, Trusted, Cert
  <1>1. CASE GetSecret(r)
    BY <1>1 DEF GetSecret, Go, OnMissing, Step
  <1>2. CASE CreateSecret(r) /\ secret = 0
    <2>1. certs' = certs + 1 /\ secret' = certs' /\ certs' \in Cert
      BY <1>2 DEF CreateSecret
    <2>2. mine' = [mine EXCEPT ![r] = certs'] /\ UNCHANGED <<seen, ci, late>>
      BY <1>2 DEF CreateSecret
    <2>3. step' = [step EXCEPT ![r] = "bundle"]
      BY <1>2 DEF CreateSecret, Go
    <2>4. \A q \in Replicas : seen'[q].ca # secret' /\ seen'[q].ca <= certs'
      BY <2>1, <2>2
    <2>5. \A q \in Replicas \ {r} : mine'[q] # secret' /\ mine'[q] <= certs'
      BY <2>1, <2>2
    <2>6. CertTypeOK'
      BY <2>1, <2>2, <2>3 DEF Step
    <2> QED
      BY <2>1, <2>2, <2>3, <2>4, <2>5, <2>6
  <1>3. CASE CreateSecret(r) /\ secret # 0
    BY <1>3 DEF CreateSecret, Go, Step
  <1>4. CASE ReadLister(r)
    BY <1>4 DEF ReadLister, Go, Outdated, Step
  <1>5. CASE Write(r) /\ UNCHANGED <<mine, seen, secret, certs>>
    <2>1. step' = [step EXCEPT ![r] = "keys"] /\ ci' = [rv |-> ci.rv + 1, ca |-> mine[r]]
      BY <1>5 DEF Write, Go
    <2>2. CertTypeOK'
      BY <1>5, <2>1 DEF Write, Step
    <2>3. Trusted' /\ ci'.ca <= certs'
      BY <1>5 DEF Write
    <2> QED
      BY <1>5, <2>2, <2>3
  <1>6. CASE Go(r, "fatal") /\ UNCHANGED <<mine, seen, secret, certs, ci, late>>
    BY <1>6 DEF Go, Step
  <1>7. CASE Keys(r)
    BY <1>7 DEF Keys, Go, Step
  <1> QED
    BY <1>1, <1>2, <1>3, <1>4, <1>5, <1>6, <1>7 DEF PrepareTLS, CreateCI, UpdateCI

LEMMA CertUnchanged ==
  ASSUME Inv, UNCHANGED certVars
  PROVE  CertTypeOK' /\ CertOK'
  BY DEF Inv, TypeOK, CertTypeOK, CertOK, RegeneratedIsTrusted, Trusted, certVars

LEMMA NextInv == Inv /\ [Next]_vars => Inv'
  <1> SUFFICES ASSUME Inv, [Next]_vars PROVE Inv'
    OBVIOUS
  <1> USE BoundsAssumption
  <1>0. stops \in 0..MaxStops /\ faults \in 0..MaxFaults
    BY DEF Inv, TypeOK
  <1>1. ASSUME NEW r \in Replicas, Boot(r) PROVE Inv'
    <2>1. CertTypeOK' /\ CertOK'
      BY <1>1, MaxCertsAssumption
         DEF Boot, Start, Go, Step, Inv, TypeOK, CertTypeOK, CertOK,
             RegeneratedIsTrusted, Trusted, Cert
    <2> QED
      BY <1>0, <1>1, <2>1, LifeStepInv DEF Boot, LifeStep, Inv, TypeOK
  <1>2. ASSUME NEW r \in Replicas, Prepare(r) PROVE Inv'
    BY <1>0, <1>2, CertStepInv, LifeUnchanged DEF Prepare, Inv, TypeOK
  <1>3. ASSUME NEW r \in Replicas, PrepareFails(r) PROVE Inv'
    <2>1. CertTypeOK' /\ CertOK'
      BY <1>3 DEF PrepareFails, Go, Step, Inv, TypeOK, CertTypeOK, CertOK,
                  RegeneratedIsTrusted, Trusted
    <2>2. faults' \in 0..MaxFaults /\ stops' = stops /\ UNCHANGED lifeVars
      BY <1>0, <1>3 DEF PrepareFails
    <2> QED
      BY <1>0, <2>1, <2>2, LifeUnchanged DEF Inv, TypeOK
  <1>4. ASSUME NEW r \in Replicas, Die(r) \/ StartServer(r) \/ Run(r) \/ Request(r)
        PROVE  Inv'
    <2>1. LifeStep(r) /\ UNCHANGED <<certVars, stops, faults>>
      BY <1>4 DEF Die, StartServer, Run, Request, LifeStep, Fatal
    <2> QED
      BY <1>0, <2>1, LifeStepInv, CertUnchanged DEF Inv, TypeOK
  <1>5. ASSUME NEW r \in Replicas, Stop(r) \/ Break(r) PROVE Inv'
    <2>1. LifeStep(r) /\ UNCHANGED certVars
      BY <1>5 DEF Stop, Break, LifeStep
    <2>2. stops' \in 0..MaxStops /\ faults' \in 0..MaxFaults
      BY <1>0, <1>5 DEF Stop, Break
    <2> QED
      BY <2>1, <2>2, LifeStepInv, CertUnchanged DEF Inv, TypeOK
  <1>6. ASSUME NEW r \in Replicas, Update(r) PROVE Inv'
    <2>1. CertTypeOK' /\ CertOK'
      BY <1>6 DEF Update, Sync, Inv, TypeOK, CertTypeOK, CertOK,
                  RegeneratedIsTrusted, Trusted
    <2> QED
      BY <1>0, <1>6, <2>1, LifeUnchanged DEF Update, Inv, TypeOK
  <1>7. CASE Delete
    <2>1. CertTypeOK' /\ CertOK'
      BY <1>7, MaxCertsAssumption
         DEF Delete, DeleteSecret, Inv, TypeOK, CertTypeOK, CertOK,
             RegeneratedIsTrusted, Trusted, Cert
    <2> QED
      BY <1>0, <1>7, <2>1, LifeUnchanged DEF Delete, Inv, TypeOK
  <1>8. CASE UNCHANGED vars
    BY <1>0, <1>8, LifeUnchanged, CertUnchanged DEF vars, Inv, TypeOK
  <1> QED
    BY <1>1, <1>2, <1>3, <1>4, <1>5, <1>6, <1>7, <1>8 DEF Next, Progress

LEMMA Invariant == Spec => []Inv
  BY InitInv, NextInv, PTL DEF Spec

(* Every variable of the replicas keeps its type, and the error main gets  *)
(* is never that of a cancelled context.                                   *)
THEOREM TypeCorrect == Spec => []TypeOK
  <1>1. Inv => TypeOK
    BY DEF Inv
  <1> QED
    BY <1>1, Invariant, PTL

(* A server that was told to end ends cleanly, unless its listener broke or*)
(* it was killed; no other does.                                           *)
THEOREM CleanExits == Spec => []CleanExitWhenTold
  <1>1. Inv => CleanExitWhenTold
    BY DEF Inv, LifeOK, CleanExitWhenTold
  <1> QED
    BY <1>1, Invariant, PTL

(* However many replicas start, fail and start again with whatever their   *)
(* listers show, the caBundle names the Secret's certificate once one of   *)
(* them is through with it, unless it was last written too late.           *)
THEOREM CaBundleFollows == Spec => []RegeneratedIsTrusted
  <1>1. Inv => RegeneratedIsTrusted
    BY DEF Inv, CertOK
  <1> QED
    BY <1>1, Invariant, PTL
=============================================================================
