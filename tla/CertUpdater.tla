------------------------------ MODULE CertUpdater ------------------------------
(***************************************************************************)
(* clusterinterceptorupdater.PrepareTLS, which each replica of an          *)
(* interceptor calls before it serves: it takes the certificate from the   *)
(* Secret or creates one, and makes the ClusterInterceptor's caBundle name *)
(* it.  Replicas share both objects, and each has a lister that lags.  An  *)
(* error of any call ends the process.                                     *)
(***************************************************************************)
EXTENDS Integers, ServerSignals

CONSTANTS
  MaxCerts    \* bound on certificates that are generated

ASSUME MaxCertsAssumption == MaxCerts \in Nat

VARIABLES
  step,     \* [Replicas -> Step]: where PrepareTLS is
  mine,     \* [Replicas -> the certificate it holds]
  seen,     \* [Replicas -> the ClusterInterceptor as its lister has it, or had
            \* it when it was read]
  secret,   \* the Secret's certificate; certificates are numbered as they are
            \* generated, and 0 means that there is none
  certs,    \* how many were generated
  ci,       \* the ClusterInterceptor: its resource version and its caBundle
  late      \* the caBundle was last written by a replica whose certificate
            \* was no longer the Secret's (history)

certVars == <<step, mine, seen, secret, certs, ci, late>>

Step == {"secret", "create", "bundle", "createCI", "updateCI", "keys", "ready", "fatal"}
Cert == 0..MaxCerts

CertInit ==
  /\ step = [r \in Replicas |-> "fatal"]
  /\ mine = [r \in Replicas |-> 0]
  /\ \E old \in {0, 1} \cap Cert :
       /\ certs = old
       /\ secret \in {0, old}
       /\ ci \in {[rv |-> 0, ca |-> 0], [rv |-> old, ca |-> old]}
  /\ seen = [r \in Replicas |-> ci]
  /\ late = FALSE

Go(r, s) == step' = [step EXCEPT ![r] = s]

(* A process starts: its informer has synced.                              *)
Start(r) ==
  /\ Go(r, "secret")
  /\ mine' = [mine EXCEPT ![r] = 0]
  /\ seen' = [seen EXCEPT ![r] = ci]
  /\ UNCHANGED <<secret, certs, ci, late>>

(* The lister gets an update.  It is read once: what comes later is of no  *)
(* use to anyone.                                                          *)
Sync(r) ==
  /\ step[r] \in {"secret", "create", "bundle"} /\ seen[r] # ci
  /\ seen' = [seen EXCEPT ![r] = ci]
  /\ UNCHANGED <<step, mine, secret, certs, ci, late>>

-----------------------------------------------------------------------------
(* getCreateCertsSecret.                                                   *)

(* Mutant: a Secret that is missing is an error like any other.            *)
OnMissing_Fatal == "fatal"

OnMissing == "create"

GetSecret(r) ==
  /\ step[r] = "secret"
  /\ Go(r, IF secret = 0 THEN OnMissing ELSE "bundle")
  /\ mine' = [mine EXCEPT ![r] = secret]
  /\ UNCHANGED <<seen, secret, certs, ci, late>>

(* A certificate is generated, and stored unless another replica was       *)
(* faster: that is an error.                                               *)
CreateSecret(r) ==
  /\ step[r] = "create"
  /\ IF secret = 0
       THEN /\ certs < MaxCerts
            /\ certs' = certs + 1 /\ secret' = certs'
            /\ mine' = [mine EXCEPT ![r] = certs']
            /\ Go(r, "bundle")
       ELSE /\ Go(r, "fatal")
            /\ UNCHANGED <<mine, secret, certs>>
  /\ UNCHANGED <<seen, ci, late>>

-----------------------------------------------------------------------------
(* createUpdateIntercepterCaBundle.                                        *)

(* Mutant: one that exists is left as it is.                               *)
Outdated_Never(r) == FALSE

Outdated(r) == seen[r].ca # mine[r]

ReadLister(r) ==
  /\ step[r] = "bundle"
  /\ Go(r, IF seen[r].rv = 0 THEN "createCI"
           ELSE IF Outdated(r) THEN "updateCI" ELSE "keys")
  /\ UNCHANGED <<mine, seen, secret, certs, ci, late>>

Write(r) ==
  /\ ci' = [rv |-> ci.rv + 1, ca |-> mine[r]]
  /\ late' = (mine[r] # secret)
  /\ Go(r, "keys")

CreateCI(r) ==
  /\ step[r] = "createCI"
  /\ IF ci.rv = 0 THEN Write(r) ELSE Go(r, "fatal") /\ UNCHANGED <<ci, late>>
  /\ UNCHANGED <<mine, seen, secret, certs>>

(* The object that the lister had is sent back with the resource version   *)
(* it had: the API server refuses it when there was a change since.        *)
UpdateCI(r) ==
  /\ step[r] = "updateCI"
  /\ IF ci.rv = seen[r].rv THEN Write(r) ELSE Go(r, "fatal") /\ UNCHANGED <<ci, late>>
  /\ UNCHANGED <<mine, seen, secret, certs>>

(* X509KeyPair of what the Secret held.                                    *)
Keys(r) ==
  /\ step[r] = "keys"
  /\ Go(r, "ready")
  /\ UNCHANGED <<mine, seen, secret, certs, ci, late>>

(* The operator deletes the Secret (README, "IMPORTANT").                  *)
DeleteSecret ==
  /\ secret # 0 /\ secret' = 0
  /\ UNCHANGED <<step, mine, seen, certs, ci, late>>

PrepareTLS(r) ==
  \/ GetSecret(r) \/ CreateSecret(r) \/ ReadLister(r)
  \/ CreateCI(r) \/ UpdateCI(r) \/ Keys(r)

-----------------------------------------------------------------------------
CertTypeOK ==
  /\ step \in [Replicas -> Step]
  /\ mine \in [Replicas -> Cert]
  /\ ci \in [rv : Nat, ca : Cert] /\ (ci.rv = 0 => ci.ca = 0)
  /\ seen \in [Replicas -> [rv : Nat, ca : Cert]]
  /\ certs \in Cert /\ secret \in 0..certs
  /\ late \in BOOLEAN

(* README, "IMPORTANT": after the Secret was deleted a replica that starts *)
(* again makes the caBundle name the new certificate.  Once a replica is   *)
(* through with the Secret's certificate the caBundle names it, whatever   *)
(* its lister showed and whoever started with it, but for one case: a      *)
(* replica that had read the Secret before it was deleted writes later.    *)
RegeneratedIsTrusted ==
  \A r \in Replicas :
    step[r] \in {"keys", "ready"} /\ mine[r] = secret /\ secret # 0
      => ci.ca = secret \/ late
=============================================================================
