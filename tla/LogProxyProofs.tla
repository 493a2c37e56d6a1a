---------------------------- MODULE LogProxyProofs ----------------------------
(***************************************************************************)
(* Theorems about LogProxy, for any requests, objects and number of        *)
(* workers: it keeps LogPromise, and refuses a log only for a reason.      *)
(***************************************************************************)
EXTENDS LogProxy, FiniteSetTheorems, FunctionTheorems, TLAPS

-----------------------------------------------------------------------------
(* Any finite set of names can be sorted: the place of a name is one more  *)
(* than how many are below it, and no two names have the same.             *)
Below(S, o) == {p \in S : p < o}

LEMMA RankGrows ==
  ASSUME NEW S \in SUBSET Nat, IsFiniteSet(S),
         NEW o \in S, NEW q \in S, o < q
  PROVE  Cardinality(Below(S, o)) < Cardinality(Below(S, q))
  <1> DEFINE B == Below(S, o)
             C == Below(S, q)
  <1>1. IsFiniteSet(B) /\ IsFiniteSet(C) /\ Cardinality(C) \in Nat /\ Cardinality(B) \in Nat
    BY FS_Subset, FS_CardinalityType DEF Below
  <1>2. o \notin B /\ B \cup {o} \subseteq C
    <2>1. \A p \in S : p \in Int
      OBVIOUS
    <2>2. \A p \in B : p \in S /\ p < o /\ p < q
      BY <2>1 DEF Below
    <2>3. B \subseteq C /\ o \in C
      BY <2>2 DEF Below
    <2> QED
      BY <2>1, <2>2, <2>3
  <1>3. Cardinality(B \cup {o}) = Cardinality(B) + 1
    BY <1>1, <1>2, FS_AddElement
  <1>4. Cardinality(B \cup {o}) <= Cardinality(C)
    BY <1>1, <1>2, FS_Subset
  <1> QED
    BY <1>1, <1>3, <1>4

LEMMA RankBound ==
  ASSUME NEW S \in SUBSET Nat, IsFiniteSet(S), NEW o \in S
  PROVE  Cardinality(Below(S, o)) + 1 \in 1..Cardinality(S)
  <1> DEFINE B == Below(S, o)
  <1>1. IsFiniteSet(B) /\ Cardinality(B) \in Nat /\ Cardinality(S) \in Nat
    BY FS_Subset, FS_CardinalityType DEF Below
  <1>2. o \notin B /\ B \cup {o} \subseteq S
    BY DEF Below
  <1>3. Cardinality(B \cup {o}) = Cardinality(B) + 1
    BY <1>1, <1>2, FS_AddElement
  <1>4. Cardinality(B \cup {o}) <= Cardinality(S)
    BY <1>1, <1>2, FS_Subset
  <1> QED
    BY <1>1, <1>3, <1>4

LEMMA Sortable ==
  ASSUME NEW S \in SUBSET Nat, IsFiniteSet(S)
  PROVE  \E f \in [1..Cardinality(S) -> S] : IsSorted(f, S)
  <1> DEFINE n == Cardinality(S)
             rank == [o \in S |-> Cardinality(Below(S, o)) + 1]
  <1>1. n \in Nat /\ IsFiniteSet(1..n) /\ Cardinality(1..n) = n
    BY FS_CardinalityType, FS_Interval
  <1>2. rank \in [S -> 1..n]
    BY RankBound
  <1>3. \A o, q \in S : o < q => rank[o] < rank[q]
    <2> SUFFICES ASSUME NEW o \in S, NEW q \in S, o < q
                 PROVE  rank[o] < rank[q]
      OBVIOUS
    <2>1. Cardinality(Below(S, o)) < Cardinality(Below(S, q))
      BY RankGrows
    <2>2. Cardinality(Below(S, o)) \in Int /\ Cardinality(Below(S, q)) \in Int
      BY FS_Subset, FS_CardinalityType DEF Below
    <2>3. rank[o] = Cardinality(Below(S, o)) + 1 /\ rank[q] = Cardinality(Below(S, q)) + 1
      OBVIOUS
    <2> QED
      BY <2>1, <2>2, <2>3
  <1>4. \A o, q \in S : o \in Int /\ q \in Int /\ rank[o] \in Int /\ rank[q] \in Int
    BY <1>1, <1>2
  <1> HIDE DEF rank
  <1>5. \A o, q \in S : rank[o] = rank[q] => o = q
    BY <1>3, <1>4
  <1>6. rank \in Injection(S, 1..n)
    BY <1>2, <1>5, Fun_IsInj
  <1>7. rank \in Surjection(S, 1..n)
    BY <1>1, <1>6, FS_Injection
  <1>8. \A i \in 1..n : \E o \in S : rank[o] = i
    BY <1>7, Fun_SurjectionProperties
  <1> DEFINE f == [i \in 1..n |-> CHOOSE o \in S : rank[o] = i]
  <1>9. \A i \in 1..n : f[i] \in S /\ rank[f[i]] = i
    BY <1>8
  <1>10. f \in [1..n -> S]
    BY <1>9
  <1> HIDE DEF f
  <1>11. \A o \in S : \E i \in 1..n : f[i] = o
    BY <1>2, <1>5, <1>9
  <1>12. \A i, j \in 1..n : i < j => f[i] < f[j]
    <2> SUFFICES ASSUME NEW i \in 1..n, NEW j \in 1..n, i < j, ~ (f[i] < f[j])
                 PROVE  FALSE
      OBVIOUS
    <2>0. f[i] \in Int /\ f[j] \in Int
      <3>1. f[i] \in S /\ f[j] \in S
        BY <1>9
      <3>2. \A o \in S : o \in Int
        OBVIOUS
      <3> QED
        BY <3>1, <3>2
    <2>1. f[j] < f[i] \/ f[j] = f[i]
      BY <2>0
    <2>2. rank[f[j]] < rank[f[i]] \/ rank[f[j]] = rank[f[i]]
      BY <2>1, <1>3, <1>9
    <2> QED
      BY <2>2, <1>9
  <1> QED
    BY <1>10, <1>11, <1>12 DEF IsSorted

LEMMA SortSorts ==
  ASSUME NEW S \in SUBSET Objects
  PROVE  /\ IsFiniteSet(S) /\ Cardinality(S) \in Nat
         /\ Cardinality(S) <= Cardinality(Objects)
         /\ Cardinality(Objects) \in Nat
         /\ Sort(S) \in [1..Cardinality(S) -> S]
         /\ IsSorted(Sort(S), S)
  <1>1. IsFiniteSet(S) /\ Cardinality(S) <= Cardinality(Objects)
    BY FS_Subset, ConstantsAssumption
  <1>2. Cardinality(S) \in Nat /\ Cardinality(Objects) \in Nat
    BY <1>1, FS_CardinalityType, ConstantsAssumption
  <1>3. \E f \in [1..Cardinality(S) -> S] : IsSorted(f, S)
    BY <1>1, Sortable, ConstantsAssumption
  <1> QED
    BY <1>1, <1>2, <1>3 DEF Sort
-----------------------------------------------------------------------------
(* The invariant.  Units belong to pieces, a piece that was taken without  *)
(* an error is in its place, and every failure has its reason.             *)
ClosedSomething == client = "closed" \/ pool = "closed"

RequestOK(r) ==
  /\ pc[r] = "end" <=> answer[r] # "open"
  /\ pc[r] = "wait" => exists
  /\ pc[r] = "new" => errs[r] = {}
  /\ \A i \in Slots : unit[r][i] # "none" => i \in Pieces(r)
  /\ pc[r] = "wait" /\ errs[r] = {} =>
       \A i \in Pieces(r) : unit[r][i] = "taken" => buf[r][i] = File(r, i)

ReasonOK(r) ==
  /\ listed[r] \subseteq bucket \cup removed
  /\ \A i \in Slots :
       /\ unit[r][i] = "missing" => listed[r] \cap removed # {}
       /\ unit[r][i] = "error" => r \in hit
       /\ unit[r][i] = "nil" => ClosedSomething
  /\ "missing" \in errs[r] => listed[r] \cap removed # {}
  /\ "error" \in errs[r] => r \in hit
  /\ answer[r] = "500" => r \in hit \/ listed[r] \cap removed # {}
  /\ answer[r] = "panic" => ClosedSomething

Inv ==
  /\ TypeOK /\ DOMAIN buf = Requests
  /\ \A r \in Requests : RequestOK(r)
  /\ \A r \in Requests : ReasonOK(r)

LEMMA InitInv == Init => Inv
  <1> SUFFICES ASSUME Init PROVE Inv
    OBVIOUS
  <1>1. \A r \in Requests : Pieces(r) = 1..0
    BY FS_EmptySet DEF Init, Pieces
  <1>2. \A r \in Requests : buf[r] \in [Pieces(r) -> Objects \cup {None}]
    BY <1>1 DEF Init
  <1>3. TypeOK
    BY <1>2, ConstantsAssumption DEF Init, TypeOK, UnitState
  <1>4. \A r \in Requests : RequestOK(r)
    BY DEF Init, RequestOK
  <1>5. \A r \in Requests : ReasonOK(r)
    BY DEF Init, ReasonOK
  <1> QED
    BY <1>3, <1>4, <1>5 DEF Init, Inv

(* A request that a step leaves alone stays as it should be: what it has   *)
(* listed can only go from the bucket to what was removed, and nothing is  *)
(* opened again.                                                           *)
LEMMA Frame ==
  ASSUME Inv, NEW q \in Requests,
         pc'[q] = pc[q], listed'[q] = listed[q], unit'[q] = unit[q],
         buf'[q] = buf[q], errs'[q] = errs[q], answer'[q] = answer[q],
         exists' = exists, hit \subseteq hit', removed \subseteq removed',
         bucket \subseteq bucket' \cup removed',
         ClosedSomething => ClosedSomething'
  PROVE  RequestOK(q)' /\ ReasonOK(q)'
  <1>1. RequestOK(q)'
    BY DEF Inv, RequestOK, Pieces, File
  <1>2. ReasonOK(q)'
    BY DEF Inv, ReasonOK
  <1> QED
    BY <1>1, <1>2

LEMMA ListInv ==
  ASSUME Inv, NEW r \in Requests, List(r)
  PROVE  Inv'
  <1> DEFINE n == Cardinality(bucket \cap Asked[r])
  <1>0. UNCHANGED <<errs, hit, answer, exists, bucket, changes, removed, client, pool, stage>>
    BY DEF List, storage, process
  <1>1. bucket \cap Asked[r] \in SUBSET Objects
    BY DEF Inv, TypeOK
  <1>2. n \in Nat /\ n <= Cardinality(Objects) /\ Cardinality(Objects) \in Nat
    BY <1>1, SortSorts
  <1>3. /\ listed' = [listed EXCEPT ![r] = bucket \cap Asked[r]]
        /\ listed'[r] = bucket \cap Asked[r]
    BY DEF List, Inv, TypeOK
  <1>4. unit' = [unit EXCEPT ![r] = [i \in Slots |-> IF i <= n THEN "queued" ELSE "none"]]
    BY <1>3 DEF List
  <1>5. buf' = [buf EXCEPT ![r] = [i \in 1..n |-> None]]
    BY <1>3 DEF List
  <1>6. Pieces(r)' = 1..n
    BY <1>3 DEF Pieces
  <1>7. \A q \in Requests \ {r} : Pieces(q)' = Pieces(q)
    BY <1>3 DEF Pieces, Inv, TypeOK
  <1>8. \A q \in Requests : buf'[q] \in [Pieces(q)' -> Objects \cup {None}]
    BY <1>5, <1>6, <1>7 DEF Inv, TypeOK
  <1>9. TypeOK'
    <2>1. pc' \in [Requests -> {"new", "wait", "end"}]
      BY DEF List, Inv, TypeOK
    <2>2. listed' \in [Requests -> SUBSET Objects]
      BY <1>1, <1>3 DEF Inv, TypeOK
    <2>3. unit' \in [Requests -> [Slots -> UnitState]]
      BY <1>4 DEF Inv, TypeOK, UnitState
    <2> QED
      BY <1>0, <1>8, <2>1, <2>2, <2>3 DEF Inv, TypeOK, Pieces
  <1>10. \A q \in Requests \ {r} : RequestOK(q)' /\ ReasonOK(q)'
    BY <1>0, <1>3, <1>4, <1>5, Frame DEF List, Inv, TypeOK, ClosedSomething
  <1>11. RequestOK(r)'
    <2>1. pc'[r] = "wait" /\ answer'[r] = "open" /\ exists'
      BY <1>0 DEF List, Inv, TypeOK, RequestOK
    <2>2. \A i \in Slots : unit'[r][i] = IF i <= n THEN "queued" ELSE "none"
      BY <1>4 DEF Inv, TypeOK
    <2>3. \A i \in Slots : i <= n => i \in 1..n
      BY <1>2 DEF Slots
    <2>4. \A i \in 1..n : i \in Slots /\ unit'[r][i] = "queued"
      BY <1>2, <2>2 DEF Slots
    <2> QED
      BY <1>6, <2>1, <2>2, <2>3, <2>4 DEF RequestOK
  <1>12. ReasonOK(r)'
    <2>1. \A i \in Slots : unit'[r][i] \in {"queued", "none"}
      BY <1>4 DEF Inv, TypeOK
    <2>2. pc[r] = "new" /\ answer'[r] = "open"
      BY <1>0 DEF List, Inv, RequestOK
    <2>3. "missing" \in errs[r] \/ "error" \in errs[r] => FALSE
      BY <2>2 DEF Inv, RequestOK
    <2> QED
      BY <1>0, <1>3, <2>1, <2>2, <2>3 DEF ReasonOK
  <1>13. DOMAIN buf' = Requests
    BY <1>5 DEF Inv
  <1> QED
    BY <1>9, <1>10, <1>11, <1>12, <1>13 DEF Inv

(* Steps that end a request, or change nothing but one unit.               *)
LEMMA EndInv ==
  ASSUME Inv, NEW r \in Requests, NEW status, End(r, status),
         pc[r] # "end", status \in {"200", "404", "500", "panic"},
         hit' \in SUBSET Requests, hit \subseteq hit',
         status = "500" => r \in hit' \/ listed[r] \cap removed # {},
         status = "panic" => ClosedSomething,
         UNCHANGED <<listed, unit, buf, errs, storage, process>>
  PROVE  Inv'
  <1>0. UNCHANGED <<listed, unit, buf, errs, exists, bucket, changes, removed, client, pool, stage>>
    BY DEF storage, process
  <1>1. TypeOK'
    BY <1>0 DEF End, Inv, TypeOK, Pieces
  <1>2. \A q \in Requests \ {r} : RequestOK(q)' /\ ReasonOK(q)'
    BY <1>0, Frame DEF End, Inv, TypeOK, ClosedSomething
  <1>3. RequestOK(r)'
    BY <1>0 DEF End, Inv, TypeOK, RequestOK, Pieces
  <1>4. ReasonOK(r)'
    BY <1>0 DEF End, Inv, TypeOK, ReasonOK, ClosedSomething
  <1> QED
    BY <1>0, <1>1, <1>2, <1>3, <1>4 DEF Inv

LEMMA UnitInv ==
  ASSUME Inv, NEW r \in Requests, NEW i \in Slots, NEW s \in UnitState,
         Become(r, i, s), unit[r][i] # "none", s # "taken",
         s = "missing" => listed[r] \cap removed # {},
         s = "error" => r \in hit',
         s = "nil" => ClosedSomething,
         hit' \in SUBSET Requests, hit \subseteq hit',
         UNCHANGED <<pc, listed, buf, errs, answer, storage, process>>
  PROVE  Inv'
  <1>0. UNCHANGED <<pc, listed, buf, errs, answer, exists, bucket, changes, removed, client, pool, stage>>
    BY DEF storage, process
  <1>1. TypeOK'
    BY <1>0 DEF Become, Inv, TypeOK, Pieces
  <1>2. \A q \in Requests \ {r} : RequestOK(q)' /\ ReasonOK(q)'
    BY <1>0, Frame DEF Become, Inv, TypeOK, ClosedSomething
  <1>3. RequestOK(r)'
    <2>1. Pieces(r)' = Pieces(r) /\ \A j \in Pieces(r) : File(r, j)' = File(r, j)
      BY <1>0 DEF Pieces, File
    <2>2. \A j \in Slots : unit'[r][j] = IF j = i THEN s ELSE unit[r][j]
      BY DEF Become, Inv, TypeOK
    <2>3. Pieces(r) \subseteq Slots
      <3>1. listed[r] \in SUBSET Objects
        BY DEF Inv, TypeOK
      <3> QED
        BY <3>1, SortSorts DEF Pieces, Slots
    <2> QED
      BY <1>0, <2>1, <2>2, <2>3 DEF Inv, RequestOK
  <1>4. ReasonOK(r)'
    <2>1. \A j \in Slots : unit'[r][j] = IF j = i THEN s ELSE unit[r][j]
      BY DEF Become, Inv, TypeOK
    <2> QED
      BY <1>0, <2>1 DEF Inv, ReasonOK, ClosedSomething
  <1> QED
    BY <1>0, <1>1, <1>2, <1>3, <1>4 DEF Inv

LEMMA CollectInv ==
  ASSUME Inv, NEW r \in Requests, NEW i \in Slots, Collect(r, i)
  PROVE  Inv'
  <1>0. UNCHANGED <<pc, listed, hit, answer, exists, bucket, changes, removed, client, pool, stage>>
    BY DEF Collect, storage, process
  <1>1. unit[r][i] \in {"data", "missing", "error"} /\ pc[r] = "wait"
    BY DEF Collect, Ended
  <1>2. i \in Pieces(r)
    BY <1>1 DEF Inv, RequestOK
  <1> DEFINE piece == IF unit[r][i] = "data" THEN File(r, i) ELSE None
  <1>3. listed[r] \in SUBSET Objects
    BY DEF Inv, TypeOK
  <1>4. piece \in Objects \cup {None}
    BY <1>2, <1>3, SortSorts DEF File, Pieces
  <1>5. buf' = [buf EXCEPT ![r][i] = piece]
    BY DEF Collect, Place
  <1>6. errs' = [errs EXCEPT ![r] = @ \cup Error(unit[r][i])]
    BY DEF Collect
  <1>7. unit' = [unit EXCEPT ![r][i] = "taken"]
    BY DEF Collect, Become
  <1> HIDE DEF piece
  <1>8. \A q \in Requests : buf'[q] \in [Pieces(q)' -> Objects \cup {None}]
    BY <1>0, <1>2, <1>4, <1>5 DEF Inv, TypeOK, Pieces
  <1>9. TypeOK'
    BY <1>0, <1>1, <1>6, <1>7, <1>8 DEF Inv, TypeOK, UnitState, Error
  <1>10. \A q \in Requests \ {r} : RequestOK(q)' /\ ReasonOK(q)'
    BY <1>0, <1>5, <1>6, <1>7, Frame DEF Inv, TypeOK, ClosedSomething
  <1>11. \A j \in Slots : unit'[r][j] = IF j = i THEN "taken" ELSE unit[r][j]
    BY <1>7 DEF Inv, TypeOK
  <1>12. \A j \in Pieces(r) : buf'[r][j] = IF j = i THEN piece ELSE buf[r][j]
    BY <1>2, <1>5 DEF Inv, TypeOK
  <1>13. errs'[r] = errs[r] \cup Error(unit[r][i])
    BY <1>6 DEF Inv, TypeOK
  <1>14. Pieces(r)' = Pieces(r) /\ \A j \in Pieces(r) : File(r, j)' = File(r, j)
    BY <1>0 DEF Pieces, File
  <1>15. Pieces(r) \subseteq Slots
    BY <1>3, SortSorts DEF Pieces, Slots
  <1>16. RequestOK(r)'
    <2>1. errs'[r] = {} => unit[r][i] = "data" /\ errs[r] = {}
      BY <1>1, <1>13 DEF Error
    <2>2. errs'[r] = {} => piece = File(r, i)
      BY <2>1 DEF piece
    <2>3. ASSUME errs'[r] = {}, NEW j \in Pieces(r), unit'[r][j] = "taken"
          PROVE  buf'[r][j] = File(r, j)
      BY <1>1, <1>11, <1>12, <1>15, <2>1, <2>2, <2>3 DEF Inv, RequestOK
    <2> QED
      BY <1>0, <1>1, <1>2, <1>11, <1>14, <2>3 DEF Inv, RequestOK
  <1>17. ReasonOK(r)'
    <2>1. "missing" \in errs'[r] => "missing" \in errs[r] \/ unit[r][i] = "missing"
      BY <1>13 DEF Error
    <2>2. "error" \in errs'[r] => "error" \in errs[r] \/ unit[r][i] = "error"
      BY <1>13 DEF Error
    <2> QED
      BY <1>0, <1>11, <2>1, <2>2 DEF Inv, ReasonOK, ClosedSomething
  <1>18. DOMAIN buf' = Requests
    BY <1>5 DEF Inv
  <1> QED
    BY <1>9, <1>10, <1>16, <1>17, <1>18 DEF Inv

LEMMA PanicInv ==
  ASSUME Inv, NEW r \in Requests, NEW i \in Slots, CollectPanics(r, i)
  PROVE  Inv'
  <1>0. UNCHANGED <<listed, buf, errs, hit, exists, bucket, changes, removed, client, pool, stage>>
    BY DEF CollectPanics, storage, process
  <1>1. unit[r][i] = "nil" /\ pc[r] = "wait" /\ ClosedSomething
    BY DEF CollectPanics, Inv, ReasonOK
  <1>2. TypeOK'
    BY <1>0 DEF CollectPanics, Become, End, Inv, TypeOK, UnitState, Pieces
  <1>3. \A q \in Requests \ {r} : RequestOK(q)' /\ ReasonOK(q)'
    BY <1>0, Frame DEF CollectPanics, Become, End, Inv, TypeOK, ClosedSomething
  <1>4. \A j \in Slots : unit'[r][j] = IF j = i THEN "taken" ELSE unit[r][j]
    BY DEF CollectPanics, Become, Inv, TypeOK
  <1>5. pc'[r] = "end" /\ answer'[r] = "panic"
    BY DEF CollectPanics, End, Inv, TypeOK
  <1>6. RequestOK(r)'
    BY <1>0, <1>1, <1>4, <1>5 DEF Inv, RequestOK, Pieces
  <1>7. ReasonOK(r)'
    BY <1>0, <1>1, <1>4, <1>5 DEF Inv, ReasonOK, ClosedSomething
  <1> QED
    BY <1>0, <1>2, <1>3, <1>6, <1>7 DEF Inv

LEMMA FetchInv ==
  ASSUME Inv, NEW r \in Requests, NEW i \in Slots, Fetch(r, i)
  PROVE  Inv'
  <1>0. unit[r][i] = "running"
    BY DEF Fetch
  <1>1. i \in Pieces(r) /\ listed[r] \in SUBSET Objects
    BY <1>0 DEF Inv, TypeOK, RequestOK
  <1>2. File(r, i) \in listed[r]
    BY <1>1, SortSorts DEF File, Pieces
  <1>3. File(r, i) \notin bucket => listed[r] \cap removed # {}
    BY <1>2 DEF Inv, ReasonOK
  <1>4. hit \in SUBSET Requests
    BY DEF Inv, TypeOK
  <1>5. CASE Become(r, i, "data") /\ UNCHANGED hit
    BY <1>0, <1>4, <1>5, UnitInv DEF Fetch, UnitState, Ended
  <1>6. CASE Become(r, i, "missing") /\ File(r, i) \notin bucket /\ UNCHANGED hit
    BY <1>0, <1>3, <1>4, <1>6, UnitInv DEF Fetch, UnitState, Ended
  <1>7. CASE Become(r, i, "error") /\ hit' = hit \cup {r}
    BY <1>0, <1>4, <1>7, UnitInv DEF Fetch, UnitState, Ended
  <1>8. CASE client = "closed" /\ Become(r, i, "nil") /\ UNCHANGED hit
    BY <1>0, <1>4, <1>8, UnitInv DEF Fetch, UnitState, Ended, ClosedSomething
  <1> QED
    BY <1>5, <1>6, <1>7, <1>8 DEF Fetch, Failed

LEMMA NextInv == Inv /\ [Next]_vars => Inv'
  <1> SUFFICES ASSUME Inv, [Next]_vars PROVE Inv'
    OBVIOUS
  <1>0. hit \in SUBSET Requests
    BY DEF Inv, TypeOK
  <1>1. ASSUME NEW r \in Requests, List(r) PROVE Inv'
    BY <1>1, ListInv
  <1>2. ASSUME NEW r \in Requests, ListFails(r) PROVE Inv'
    <2>1. CASE End(r, "404") /\ UNCHANGED hit
      BY <1>0, <1>2, <2>1, EndInv DEF ListFails
    <2>2. CASE End(r, "500") /\ hit' = hit \cup {r}
      BY <1>0, <1>2, <2>2, EndInv DEF ListFails
    <2>3. CASE client = "closed" /\ End(r, "panic") /\ UNCHANGED hit
      BY <1>0, <1>2, <2>3, EndInv DEF ListFails, ClosedSomething
    <2> QED
      BY <1>2, <2>1, <2>2, <2>3 DEF ListFails, Status
  <1>3. ASSUME NEW r \in Requests, Answer(r) PROVE Inv'
    <2>1. CASE errs[r] = {}
      BY <1>0, <1>3, <2>1, EndInv DEF Answer
    <2>2. CASE errs[r] # {}
      <3>1. "missing" \in errs[r] \/ "error" \in errs[r]
        BY <2>2 DEF Inv, TypeOK
      <3>2. r \in hit \/ listed[r] \cap removed # {}
        BY <3>1 DEF Inv, ReasonOK
      <3>3. End(r, "500")
        BY <1>3, <2>2 DEF Answer, Status, Joined
      <3> QED
        BY <1>0, <1>3, <3>2, <3>3, EndInv DEF Answer
    <2> QED
      BY <2>1, <2>2
  <1>4. ASSUME NEW r \in Requests, NEW i \in Slots, Start(r, i) PROVE Inv'
    BY <1>0, <1>4, UnitInv DEF Start, UnitState
  <1>5. ASSUME NEW r \in Requests, NEW i \in Slots, Cancel(r, i) PROVE Inv'
    BY <1>0, <1>5, UnitInv DEF Cancel, UnitState, Ended, ClosedSomething
  <1>6. ASSUME NEW r \in Requests, NEW i \in Slots, Fetch(r, i) PROVE Inv'
    BY <1>6, FetchInv
  <1>7. ASSUME NEW r \in Requests, NEW i \in Slots, Collect(r, i) PROVE Inv'
    BY <1>7, CollectInv
  <1>8. ASSUME NEW r \in Requests, NEW i \in Slots, CollectPanics(r, i) PROVE Inv'
    BY <1>8, PanicInv
  <1>9. ASSUME NEW o \in Objects, Change(o) PROVE Inv'
    <2>1. UNCHANGED <<exists, pc, listed, unit, buf, errs, hit, answer, client, pool, stage>>
      BY <1>9 DEF Change, requests, process
    <2>2. removed \subseteq removed' /\ bucket \subseteq bucket' \cup removed'
      BY <1>9 DEF Change
    <2>3. TypeOK'
      BY <1>9, <2>1, ConstantsAssumption DEF Change, Inv, TypeOK, Pieces
    <2>4. \A q \in Requests : RequestOK(q)' /\ ReasonOK(q)'
      BY <2>1, <2>2, Frame DEF ClosedSomething
    <2> QED
      BY <2>1, <2>3, <2>4 DEF Inv
  <1>10. CASE Shutdown \/ CloseClient \/ ClosePool \/ Exit \/ UNCHANGED vars
    <2>1. UNCHANGED <<exists, bucket, changes, removed, pc, listed, unit, buf, errs, hit, answer>>
      BY <1>10 DEF Shutdown, CloseClient, ClosePool, Exit, vars, requests, storage
    <2>2. TypeOK' /\ (ClosedSomething => ClosedSomething')
      BY <1>10, <2>1 DEF Shutdown, CloseClient, ClosePool, Exit, vars, process,
                         Inv, TypeOK, Pieces, ClosedSomething
    <2>3. \A q \in Requests : RequestOK(q)' /\ ReasonOK(q)'
      BY <2>1, <2>2, Frame
    <2> QED
      BY <2>1, <2>2, <2>3 DEF Inv
  <1> QED
    BY <1>1, <1>2, <1>3, <1>4, <1>5, <1>6, <1>7, <1>8, <1>9, <1>10 DEF Next, UnitStep

LEMMA Invariant == Spec => []Inv
  BY InitInv, NextInv, PTL DEF Spec

(* Every variable of gcs-log-proxy keeps its type.                         *)
THEOREM TypeCorrect == Spec => []TypeOK
  <1>1. Inv => TypeOK
    BY DEF Inv
  <1> QED
    BY <1>1, Invariant, PTL

(* A log is refused only because a call of the request itself failed, or a *)
(* piece was removed after it was listed, or the shutdown closed what it   *)
(* needs.                                                                  *)
THEOREM Refusals == Spec => []RefusedForItsOwnReason
  <1>1. Inv => RefusedForItsOwnReason
    BY DEF Inv, ReasonOK, RefusedForItsOwnReason, ClosedSomething
  <1> QED
    BY <1>1, Invariant, PTL

-----------------------------------------------------------------------------
(* The refinement.                                                         *)
Shown == [r \in Requests |-> IF answer[r] = "panic" THEN "500" ELSE answer[r]]
Body == [r \in Requests |-> IF answer[r] = "200" THEN buf[r] ELSE << >>]

LEMMA InitSimulation == Init => Promise!Init
  BY DEF Init, Promise!Init

(* What the end of a request is for the promise.                           *)
LEMMA EndSimulation ==
  ASSUME Inv, NEW r \in Requests, NEW status, End(r, status), answer[r] = "open",
         UNCHANGED <<listed, buf, exists, bucket>>
  PROVE  /\ status \in {"500", "panic"} => Promise!Fail(r)
         /\ status = "404" /\ ~ exists => Promise!NotFound(r)
         /\ status = "200" => /\ Shown' = [Shown EXCEPT ![r] = "200"]
                             /\ Body' = [Body EXCEPT ![r] = buf[r]]
  <1>1. answer' = [answer EXCEPT ![r] = status] /\ DOMAIN answer = Requests
    BY DEF End, Inv, TypeOK
  <1>2. Shown' = [Shown EXCEPT ![r] = IF status = "panic" THEN "500" ELSE status]
    BY <1>1 DEF Shown
  <1>3. status # "200" => Body' = Body
    BY <1>1 DEF Body
  <1>4. status = "200" => Body' = [Body EXCEPT ![r] = buf[r]]
    BY <1>1 DEF Body
  <1>5. Shown[r] = "open"
    BY DEF Shown
  <1> QED
    BY <1>2, <1>3, <1>4, <1>5 DEF Promise!Fail, Promise!NotFound, Shown, Body

LEMMA AnswerSimulation ==
  ASSUME Inv, NEW r \in Requests, Answer(r)
  PROVE  Promise!Succeed(r) \/ Promise!Fail(r)
  <1>1. pc[r] = "wait" /\ answer[r] = "open" /\ exists
    BY DEF Answer, Inv, RequestOK
  <1>2. UNCHANGED <<listed, buf, exists, bucket>>
    BY DEF Answer, storage
  <1>3. CASE errs[r] # {}
    <2>1. End(r, "500")
      BY <1>3 DEF Answer, Status, Joined
    <2> QED
      BY <1>1, <1>2, <2>1, EndSimulation
  <1>4. CASE errs[r] = {}
    <2> DEFINE S == listed[r]
    <2>1. S \in SUBSET Objects
      BY DEF Inv, TypeOK
    <2>2. Sort(S) \in [1..Cardinality(S) -> S] /\ IsSorted(Sort(S), S)
      BY <2>1, SortSorts
    <2>3. \A i \in 1..Cardinality(S) : buf[r][i] = Sort(S)[i]
      <3>1. \A i \in Pieces(r) : unit[r][i] = "taken"
        BY DEF Answer, NoMore
      <3> QED
        BY <1>1, <1>4, <3>1 DEF Inv, RequestOK, Pieces, File
    <2>4. buf[r] \in [1..Cardinality(S) -> Objects \cup {None}]
      BY DEF Inv, TypeOK, Pieces
    <2> HIDE DEF S
    <2>5. buf[r] = Sort(S)
      <3> DEFINE n == Cardinality(S)
      <3>1. buf[r] = [i \in 1..n |-> buf[r][i]]
        BY <2>4
      <3>2. Sort(S) = [i \in 1..n |-> Sort(S)[i]]
        BY <2>2
      <3> QED
        BY <2>3, <3>1, <3>2
    <2>6. Promise!IsLog(buf[r], S)
      <3>1. DOMAIN Sort(S) = 1..Cardinality(S) /\ Cardinality(S) \in Nat
        BY <2>1, <2>2, SortSorts
      <3>2. \A i \in 1..Cardinality(S) : i \in Nat \ {0} /\ 1..i \subseteq 1..Cardinality(S)
        BY <3>1
      <3> QED
        BY <2>2, <2>5, <3>1, <3>2 DEF IsSorted, Promise!IsLog
    <2>7. End(r, "200")
      BY <1>4 DEF Answer
    <2>8. Shown' = [Shown EXCEPT ![r] = "200"] /\ Body' = [Body EXCEPT ![r] = buf[r]]
      BY <1>1, <1>2, <2>7, EndSimulation
    <2>9. Shown[r] = "open"
      BY <1>1 DEF Shown
    <2>10. Promise!IsLog(buf[r], listed[r])
      BY <2>6 DEF S
    <2>11. Body'[r] = buf[r] /\ Body' = [Body EXCEPT ![r] = Body'[r]]
      BY <2>8 DEF Body
    <2> QED
      BY <1>1, <1>2, <2>8, <2>9, <2>10, <2>11 DEF Promise!Succeed, Shown, Body
  <1> QED
    BY <1>3, <1>4

LEMMA StepSimulation == Inv /\ [Next]_vars => [Promise!Next]_(Promise!vars)
  <1> SUFFICES ASSUME Inv, [Next]_vars
               PROVE  Promise!Next \/ UNCHANGED <<exists, bucket, listed, Shown, Body>>
    BY DEF Promise!vars, Shown, Body
  <1>1. ASSUME NEW r \in Requests, List(r)
        PROVE  Promise!Look(r)
    <2>1. exists /\ answer[r] = "open" /\ UNCHANGED <<answer, exists, bucket>>
      BY <1>1 DEF List, Inv, RequestOK, storage
    <2>2. listed' = [listed EXCEPT ![r] = bucket \cap Asked[r]]
      BY <1>1 DEF List
    <2>3. Shown' = Shown /\ Shown[r] = "open"
      BY <2>1 DEF Shown
    <2>4. \A q \in Requests : answer[q] = "200" => buf'[q] = buf[q]
      BY <1>1, <2>1 DEF List, Inv, TypeOK
    <2>5. Body' = Body
      BY <2>1, <2>4 DEF Body
    <2> QED
      BY <2>1, <2>2, <2>3, <2>5 DEF Promise!Look, Shown, Body
  <1>2. ASSUME NEW r \in Requests, ListFails(r)
        PROVE  Promise!NotFound(r) \/ Promise!Fail(r)
    <2>1. answer[r] = "open" /\ UNCHANGED <<listed, buf, exists, bucket>>
      BY <1>2 DEF ListFails, Inv, RequestOK, storage
    <2>2. (~ exists /\ End(r, "404")) \/ End(r, "500") \/ End(r, "panic")
      BY <1>2 DEF ListFails, Status
    <2> QED
      BY <2>1, <2>2, EndSimulation
  <1>3. ASSUME NEW r \in Requests, NEW i \in Slots, CollectPanics(r, i)
        PROVE  Promise!Fail(r)
    <2>1. answer[r] = "open" /\ UNCHANGED <<listed, buf, exists, bucket>>
      BY <1>3 DEF CollectPanics, Inv, RequestOK, storage
    <2> QED
      BY <1>3, <2>1, EndSimulation DEF CollectPanics
  <1>4. ASSUME NEW r \in Requests, NEW i \in Slots, Collect(r, i)
        PROVE  UNCHANGED <<exists, bucket, listed, Shown, Body>>
    <2>1. answer[r] = "open" /\ UNCHANGED <<answer, listed, exists, bucket>>
      BY <1>4 DEF Collect, Inv, RequestOK, storage
    <2>2. \A q \in Requests : answer[q] = "200" => buf'[q] = buf[q]
      BY <1>4, <2>1 DEF Collect, Inv, TypeOK
    <2> QED
      BY <2>1, <2>2 DEF Shown, Body
  <1>5. ASSUME NEW r \in Requests, NEW i \in Slots,
               Start(r, i) \/ Cancel(r, i) \/ Fetch(r, i)
        PROVE  UNCHANGED <<exists, bucket, listed, Shown, Body>>
    <2>1. UNCHANGED <<exists, bucket, listed, answer, buf>>
      BY <1>5 DEF Start, Cancel, Fetch, storage
    <2> QED
      BY <2>1 DEF Shown, Body
  <1>6. ASSUME NEW o \in Objects, Change(o)
        PROVE  Promise!Change
    <2>1. exists /\ bucket' \in SUBSET Objects /\ UNCHANGED <<exists, listed, answer, buf>>
      BY <1>6 DEF Change, requests, Inv, TypeOK
    <2> QED
      BY <2>1 DEF Promise!Change
  <1>7. CASE Shutdown \/ CloseClient \/ ClosePool \/ Exit \/ UNCHANGED vars
    <2>1. UNCHANGED <<exists, bucket, listed, answer, buf>>
      BY <1>7 DEF Shutdown, CloseClient, ClosePool, Exit, vars, requests, storage
    <2> QED
      BY <2>1 DEF Shown, Body
  <1>8. CASE \E r \in Requests : Answer(r)
    BY <1>8, AnswerSimulation DEF Promise!Next
  <1> QED
    BY <1>1, <1>2, <1>3, <1>4, <1>5, <1>6, <1>7, <1>8 DEF Next, UnitStep, Promise!Next

(* gcs-log-proxy keeps its promise, for any requests, objects and workers: *)
(* a log that is served is the whole of what the bucket held at one moment,*)
(* in order.                                                               *)
THEOREM ImplementsLogPromise == Spec => KeepsLogPromise
  BY InitSimulation, StepSimulation, Invariant, PTL
     DEF Spec, KeepsLogPromise, Promise!Spec
=============================================================================
