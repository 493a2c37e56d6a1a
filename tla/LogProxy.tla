------------------------------- MODULE LogProxy -------------------------------
(***************************************************************************)
(* gcs-log-proxy: a request lists the pieces of a log (pkg/gcslogproxy),   *)
(* has the workers of a pool that all requests share fetch them            *)
(* (external: go-playground/pool), and puts them together in the order of  *)
(* their names (pkg/logproxy answers).  The shutdown closes the client of  *)
(* the bucket and the pool while requests are open.                        *)
(***************************************************************************)
EXTENDS Integers, FiniteSets

CONSTANTS
  Requests,
  Objects,    \* the objects of the bucket: numbers, in the order of their names
  Asked,      \* [Requests -> SUBSET Objects]: those whose names begin with
              \* the request's namespace/pod/container
  Workers,    \* the flag --workers
  MaxChanges, \* bound on changes of the bucket
  None        \* a place of the result that nothing was stored in

ASSUME ConstantsAssumption ==
  /\ Objects \subseteq Nat /\ IsFiniteSet(Objects)
  /\ Asked \in [Requests -> SUBSET Objects]
  /\ Workers \in Nat \ {0} /\ MaxChanges \in Nat
  /\ None \notin Objects

VARIABLES
  exists,   \* the bucket exists
  bucket,   \* the objects it holds
  changes,  \* how often it was changed
  removed,  \* the objects that were ever removed (history)
  pc,       \* [Requests -> {"new", "wait", "end"}]
  listed,   \* [Requests -> SUBSET Objects]: what the listing gave
  unit,     \* [Requests -> [Slots -> UnitState]]: the fetch of the i-th piece
  buf,      \* [Requests -> the pieces by their place]
  errs,     \* [Requests -> the errors that were collected]
  hit,      \* the requests some call of which failed by itself (history)
  answer,   \* [Requests -> {"open", "200", "404", "500", "panic"}]: a panic
            \* becomes a 500 in the Recoverer
  client,   \* the client of the bucket: "open" or "closed"
  pool,     \* "open" or "closed"
  stage     \* of the process: "up", "down" (the shutdown has begun) or "gone"

requests == <<pc, listed, unit, buf, errs, hit, answer>>
storage == <<exists, bucket, changes, removed>>
process == <<client, pool, stage>>
vars == <<requests, storage, process>>

Slots == 1..Cardinality(Objects)
Ended == {"data", "missing", "error", "nil"}
UnitState == {"none", "queued", "running", "taken"} \cup Ended
Alive == stage # "gone"

(* sort.Strings.                                                           *)
IsSorted(f, S) ==
  /\ \A o \in S : \E i \in 1..Cardinality(S) : f[i] = o
  /\ \A i, j \in 1..Cardinality(S) : i < j => f[i] < f[j]

Sort(S) == CHOOSE f \in [1..Cardinality(S) -> S] : IsSorted(f, S)
Pieces(r) == 1..Cardinality(listed[r])
File(r, i) == Sort(listed[r])[i]

Running == {u \in Requests \X Slots : unit[u[1]][u[2]] = "running"}

-----------------------------------------------------------------------------
Init ==
  /\ exists \in BOOLEAN
  /\ bucket \in SUBSET Objects /\ (~ exists => bucket = {})
  /\ changes = 0 /\ removed = {} /\ hit = {}
  /\ pc = [r \in Requests |-> "new"]
  /\ listed = [r \in Requests |-> {}]
  /\ unit = [r \in Requests |-> [i \in Slots |-> "none"]]
  /\ buf = [r \in Requests |-> << >>]
  /\ errs = [r \in Requests |-> {}]
  /\ answer = [r \in Requests |-> "open"]
  /\ client = "open" /\ pool = "open" /\ stage = "up"

(* The handler's switch over the type of the error.                        *)
Status(err) == IF err \in {"bucket", "object"} THEN "404" ELSE "500"

End(r, status) ==
  /\ pc' = [pc EXCEPT ![r] = "end"]
  /\ answer' = [answer EXCEPT ![r] = status]

(* fetcher.list, and fetchAll up to its loop over the results: one unit of *)
(* work for each object.                                                   *)
List(r) ==
  /\ Alive /\ pc[r] = "new" /\ exists
  /\ listed' = [listed EXCEPT ![r] = bucket \cap Asked[r]]
  /\ pc' = [pc EXCEPT ![r] = "wait"]
  /\ unit' = [unit EXCEPT ![r] = [i \in Slots |->
                IF i <= Cardinality(listed'[r]) THEN "queued" ELSE "none"]]
  /\ buf' = [buf EXCEPT ![r] = [i \in 1..Cardinality(listed'[r]) |-> None]]
  /\ UNCHANGED <<errs, hit, answer, storage, process>>

(* The bucket is missing, the call fails, or the closed client panics.     *)
ListFails(r) ==
  /\ Alive /\ pc[r] = "new"
  /\ \/ /\ ~ exists /\ End(r, Status("bucket"))
        /\ UNCHANGED hit
     \/ /\ End(r, Status("other"))
        /\ hit' = hit \cup {r}
     \/ /\ client = "closed" /\ End(r, "panic")
        /\ UNCHANGED hit
  /\ UNCHANGED <<listed, unit, buf, errs, storage, process>>

-----------------------------------------------------------------------------
(* The units of work.                                                      *)
Become(r, i, s) == unit' = [unit EXCEPT ![r][i] = s]

Start(r, i) ==
  /\ Alive /\ unit[r][i] = "queued"
  /\ Cardinality(Running) < Workers
  /\ Become(r, i, "running")
  /\ UNCHANGED <<pc, listed, buf, errs, hit, answer, storage, process>>

(* A closed pool ends units that no worker has taken: they have an error   *)
(* and no value.                                                           *)
Cancel(r, i) ==
  /\ Alive /\ unit[r][i] = "queued" /\ pool = "closed"
  /\ Become(r, i, "nil")
  /\ UNCHANGED <<pc, listed, buf, errs, hit, answer, storage, process>>

(* fetchWorker: also a fetch that failed has a result, with its place.     *)
(* Mutant: it has none.                                                    *)
Failed_NoResult == "nil"

Failed == "error"

(* fetcher.fetch: the object is read, is gone, or the call fails; with the *)
(* client closed it may panic, which the worker turns into an error.       *)
Fetch(r, i) ==
  /\ Alive /\ unit[r][i] = "running"
  /\ \/ /\ Become(r, i, IF File(r, i) \in bucket THEN "data" ELSE "missing")
        /\ UNCHANGED hit
     \/ /\ Become(r, i, Failed)
        /\ hit' = hit \cup {r}
     \/ /\ client = "closed" /\ Become(r, i, "nil")
        /\ UNCHANGED hit
  /\ UNCHANGED <<pc, listed, buf, errs, answer, storage, process>>

-----------------------------------------------------------------------------
(* Where fetchAll puts the piece.  Mutant: at the end of what came so far. *)
Place_Arrival(r, i) == 1 + Cardinality({j \in Pieces(r) : unit[r][j] = "taken"})

Place(r, i) == i

(* Only a result with an error adds to the errors.  Mutant: each does.     *)
Error_Always(s) == {s}

Error(s) == {s} \ {"data"}

(* The loop over the results, which come in any order.                     *)
Collect(r, i) ==
  /\ Alive /\ pc[r] = "wait" /\ unit[r][i] \in Ended \ {"nil"}
  /\ Become(r, i, "taken")
  /\ buf' = [buf EXCEPT ![r][Place(r, i)] =
               IF unit[r][i] = "data" THEN File(r, i) ELSE None]
  /\ errs' = [errs EXCEPT ![r] = @ \cup Error(unit[r][i])]
  /\ UNCHANGED <<pc, listed, hit, answer, storage, process>>

(* The type assertion on a result without a value comes before the look at *)
(* its error.  Nobody collects the other results; their units still run.   *)
CollectPanics(r, i) ==
  /\ Alive /\ pc[r] = "wait" /\ unit[r][i] = "nil"
  /\ Become(r, i, "taken")
  /\ End(r, "panic")
  /\ UNCHANGED <<listed, buf, errs, hit, storage, process>>

(* All errors become one, of a type the handler does not know.             *)
Joined(e) == "multierror"

(* Mutant: without QueueComplete the results do not end.                   *)
NoMore_Never(r) == FALSE

NoMore(r) == \A i \in Pieces(r) : unit[r][i] = "taken"

Answer(r) ==
  /\ Alive /\ pc[r] = "wait" /\ NoMore(r)
  /\ End(r, IF errs[r] = {} THEN "200" ELSE Status(Joined(errs[r])))
  /\ UNCHANGED <<listed, unit, buf, errs, hit, storage, process>>

-----------------------------------------------------------------------------
(* The bucket: a piece is written or removed.                              *)
Change(o) ==
  /\ exists /\ changes < MaxChanges /\ changes' = changes + 1
  /\ IF o \in bucket THEN bucket' = bucket \ {o} /\ removed' = removed \cup {o}
                     ELSE bucket' = bucket \cup {o} /\ UNCHANGED removed
  /\ UNCHANGED <<exists, requests, process>>

(* The shutdown: the functions registered for it run at once and each in a *)
(* goroutine of its own, and main returns whatever they do.                *)
Shutdown ==
  /\ stage = "up" /\ stage' = "down"
  /\ UNCHANGED <<client, pool, requests, storage>>

CloseClient ==
  /\ stage = "down" /\ client = "open" /\ client' = "closed"
  /\ UNCHANGED <<pool, stage, requests, storage>>

ClosePool ==
  /\ stage = "down" /\ pool = "open" /\ pool' = "closed"
  /\ UNCHANGED <<client, stage, requests, storage>>

Exit ==
  /\ stage = "down" /\ stage' = "gone"
  /\ UNCHANGED <<client, pool, requests, storage>>

UnitStep(r, i) ==
  Start(r, i) \/ Cancel(r, i) \/ Fetch(r, i) \/ Collect(r, i) \/ CollectPanics(r, i)

Next ==
  \/ \E r \in Requests : List(r) \/ ListFails(r) \/ Answer(r)
  \/ \E r \in Requests, i \in Slots : UnitStep(r, i)
  \/ \E o \in Objects : Change(o)
  \/ Shutdown \/ CloseClient \/ ClosePool \/ Exit

(* Goroutines run, and the bucket answers or the call fails (fetchTimeout).*)
Fairness ==
  /\ \A r \in Requests : WF_vars(Answer(r))
  /\ \A r \in Requests, i \in Slots : WF_vars(UnitStep(r, i))

Spec == Init /\ [][Next]_vars /\ Fairness

-----------------------------------------------------------------------------
(* Every variable keeps its type.                                          *)
TypeOK ==
  /\ exists \in BOOLEAN /\ (~ exists => bucket = {})
  /\ bucket \in SUBSET Objects /\ removed \in SUBSET Objects
  /\ changes \in Nat /\ changes <= MaxChanges
  /\ pc \in [Requests -> {"new", "wait", "end"}]
  /\ listed \in [Requests -> SUBSET Objects]
  /\ unit \in [Requests -> [Slots -> UnitState]]
  /\ \A r \in Requests : buf[r] \in [Pieces(r) -> Objects \cup {None}]
  /\ errs \in [Requests -> SUBSET {"missing", "error"}]
  /\ hit \in SUBSET Requests
  /\ answer \in [Requests -> {"open", "200", "404", "500", "panic"}]
  /\ client \in {"open", "closed"} /\ pool \in {"open", "closed"}
  /\ stage \in {"up", "down", "gone"}

(* A request is only refused for a reason of its own: a call of its own    *)
(* failed, or a piece was removed after it was listed.  The failures of    *)
(* other requests, and the panics they end in, leave it alone; a panic     *)
(* takes a client or a pool that is closed already.                        *)
RefusedForItsOwnReason ==
  \A r \in Requests :
    /\ answer[r] = "500" => r \in hit \/ listed[r] \cap removed # {}
    /\ answer[r] = "panic" => client = "closed" \/ pool = "closed"

(* The proxy keeps its promise: whatever is written and removed while it   *)
(* lists and fetches, and in whatever order the pieces come, the log is    *)
(* the one the bucket held when it was listed, in order, or there is none. *)
Promise == INSTANCE LogPromise WITH
  snapshot <- listed,
  answer <- [r \in Requests |-> IF answer[r] = "panic" THEN "500" ELSE answer[r]],
  body <- [r \in Requests |-> IF answer[r] = "200" THEN buf[r] ELSE << >>]
KeepsLogPromise == Promise!Spec

(* A request whose pieces are listed is answered or the process ends: no   *)
(* closed pool and no panic of another request keeps a unit from ending.   *)
ListedIsAnswered ==
  \A r \in Requests : pc[r] = "wait" ~> pc[r] = "end" \/ ~ Alive
=============================================================================
