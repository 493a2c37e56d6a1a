------------------------- MODULE PipelineBuildProofs --------------------------
(***************************************************************************)
(* Lemmas about PipelineBuild: what the merge of named slices computes,    *)
(* for all slices, and what the steps that build PipelineRuns keep true.   *)
(***************************************************************************)
EXTENDS PipelineBuild, FiniteSetTheorems, WellFoundedInduction, TLAPS

(* A function on 1 .. n is a sequence.                                     *)
LEMMA SequenceOf ==
  ASSUME NEW S, NEW n \in Nat, NEW f, f = [i \in 1 .. n |-> f[i]],
         \A i \in 1 .. n : f[i] \in S
  PROVE  f \in Seq(S)
  OBVIOUS

(* A set of natural numbers has a least element, so a set with 0 that is   *)
(* closed under + 1 has them all.                                          *)
LEMMA Least ==
  ASSUME NEW T, T \subseteq Nat, T # {}
  PROVE  \E x \in T : \A y \in T : ~ (y < x)
  <1> DEFINE R == {ss \in Nat \X Nat : ss[1] < ss[2]}
  <1>1. IsWellFoundedOn(R, Nat)
    BY NatLessThanWellFounded DEF OpToRel
  <1> HIDE DEF R
  <1>2. \E x \in T : \A y \in T : ~ (<<y, x>> \in R)
    BY <1>1, WFMin
  <1> QED
    BY <1>2 DEF R

(* Induction, of a set of numbers.                                         *)
LEMMA SetInduction ==
  ASSUME NEW S, 0 \in S, \A n \in Nat : n \in S => n + 1 \in S
  PROVE  Nat \subseteq S
  <1>1. SUFFICES ASSUME Nat \ S # {} PROVE FALSE
    OBVIOUS
  <1>2. PICK x \in Nat \ S : \A y \in Nat \ S : ~ (y < x)
    BY <1>1, Least
  <1>3. x # 0 /\ x - 1 \in Nat
    BY <1>2
  <1> QED
    BY <1>2, <1>3

(* A set of indices has a greatest one.                                    *)
LEMMA Greatest ==
  ASSUME NEW n \in Nat, NEW T, T \subseteq 1 .. n, T # {}
  PROVE  \E x \in T : \A y \in T : y <= x
  <1> DEFINE D == {n - x : x \in T}
  <1>1. D \subseteq Nat /\ D # {}
    <2>1. \A x \in T : n - x \in Nat
      OBVIOUS
    <2>2. \E x \in T : n - x \in D
      OBVIOUS
    <2> QED
      BY <2>1, <2>2
  <1>2. PICK d \in D : \A e \in D : ~ (e < d)
    BY <1>1, Least
  <1>3. PICK x \in T : d = n - x
    OBVIOUS
  <1>4. ASSUME NEW y \in T PROVE y <= x
    <2>1. ~ (n - y < n - x)
      BY <1>2, <1>3
    <2> QED
      BY <2>1
  <1> QED
    BY <1>4

-----------------------------------------------------------------------------
(* The loop of a merge is defined for every slice, one element at a time.  *)
Fits(s, src, n, f) ==
  f = [i \in 0 .. n |-> IF i = 0 THEN s ELSE mergeRefs(f[i - 1], i, src[i])]

(* There is a function that does what the loop does.                       *)
LEMMA LoopExists ==
  ASSUME NEW s, NEW src
  PROVE  \A n \in Nat : \E f : Fits(s, src, n, f)
  <1> DEFINE S == {n \in Nat : \E f : Fits(s, src, n, f)}
  <1>1. 0 \in S
    <2>1. Fits(s, src, 0, [i \in 0 .. 0 |-> s])
      BY DEF Fits
    <2> QED
      BY <2>1
  <1>2. ASSUME NEW n \in Nat, n \in S PROVE n + 1 \in S
    <2>1. PICK f : Fits(s, src, n, f)
      BY <1>2
    <2>2. f[0] = s /\ \A i \in 1 .. n : f[i] = mergeRefs(f[i - 1], i, src[i])
      BY <2>1 DEF Fits
    <2> DEFINE last == mergeRefs(f[n], n + 1, src[n + 1])
               g == [i \in 0 .. n + 1 |-> IF i = n + 1 THEN last ELSE f[i]]
               h == [i \in 0 .. n + 1 |->
                       IF i = 0 THEN s ELSE mergeRefs(g[i - 1], i, src[i])]
    <2>3. ASSUME NEW i \in 0 .. n + 1 PROVE g[i] = h[i]
      <3>1. CASE i = 0
        BY <2>2, <3>1
      <3>2. CASE i \in 1 .. n
        <4>1. i - 1 \in 0 .. n /\ i # 0
          BY <3>2
        <4> QED
          BY <2>2, <3>2, <4>1
      <3>3. CASE i = n + 1
        BY <3>3
      <3> QED
        BY <3>1, <3>2, <3>3
    <2>4. Fits(s, src, n + 1, g)
      BY <2>3 DEF Fits
    <2> HIDE DEF g
    <2> QED
      BY <2>4
  <1> HIDE DEF S
  <1>3. Nat \subseteq S
    BY <1>1, <1>2, SetInduction
  <1> QED
    BY <1>3 DEF S

(* The loop, element by element.                                           *)
LEMMA LoopUnrolls ==
  ASSUME NEW s, NEW src, Len(src) \in Nat
  PROVE  /\ Loop(s, src)[0] = s
         /\ \A i \in 1 .. Len(src) :
              Loop(s, src)[i] = mergeRefs(Loop(s, src)[i - 1], i, src[i])
  <1>1. Loop(s, src) = CHOOSE f : Fits(s, src, Len(src), f)
    BY DEF Loop, Fits
  <1>2. PICK f : f = Loop(s, src) /\ Fits(s, src, Len(src), f)
    BY <1>1, LoopExists
  <1>3. f[0] = s /\ \A i \in 1 .. Len(src) : f[i] = mergeRefs(f[i - 1], i, src[i])
    BY <1>2 DEF Fits
  <1> QED
    BY <1>2, <1>3

-----------------------------------------------------------------------------
(* The states of a merge of slices with elements from E.                   *)
Refs(E) == UNION {[D -> Nat \ {0}] : D \in SUBSET {e.name : e \in E}}
LoopState(E) ==
  [items : Seq(E), refs : Refs(E), ok : BOOLEAN, shared : BOOLEAN, room : Nat,
   store : Seq(E)]

Mergeable(E) ==
  \A d, e \in E : merge(d, e) \in E /\ (d.name = e.name => merge(d, e).name = d.name)

(* What the merge of one element does: a new name is appended, another one *)
(* addresses an element, which may be out of range.                        *)
New(s, el) == s.ok /\ el.name \notin DOMAIN s.refs
Missing(s, el) == s.ok /\ el.name \in DOMAIN s.refs /\ s.refs[el.name] > Len(s.items)
Found(s, el) == s.ok /\ el.name \in DOMAIN s.refs /\ s.refs[el.name] <= Len(s.items)

(* A slice with one more element, one with an element replaced, and refs   *)
(* with one more name.                                                     *)
Appended(x, y, e) ==
  /\ DOMAIN y = 1 .. Len(x) + 1 /\ Len(y) = Len(x) + 1 /\ y[Len(x) + 1] = e
  /\ \A k \in 1 .. Len(x) : y[k] = x[k]
Replaced(x, y, r, e) ==
  /\ DOMAIN y = DOMAIN x /\ Len(y) = Len(x) /\ y[r] = e
  /\ \A k \in DOMAIN x : k # r => y[k] = x[k]
Noted(x, y, n, i) ==
  /\ DOMAIN y = DOMAIN x \cup {n} /\ y[n] = i
  /\ \A m \in DOMAIN x : m # n => y[m] = x[m]

(* What the loop may meet: it has stopped, or the element is new, or       *)
(* found, or its index is out of range.                                    *)
LEMMA MergeRefsCases ==
  ASSUME NEW E, NEW s \in LoopState(E), NEW el \in E
  PROVE  /\ ~ s.ok \/ New(s, el) \/ Missing(s, el) \/ Found(s, el)
         /\ el.name \in DOMAIN s.refs => s.refs[el.name] \in Nat \ {0}
         /\ s.items \in Seq(E) /\ Len(s.items) \in Nat /\ s.store \in Seq(E)
  <1>1. s.refs \in Refs(E) /\ s.items \in Seq(E) /\ s.ok \in BOOLEAN /\ s.store \in Seq(E)
    BY DEF LoopState
  <1>2. el.name \in DOMAIN s.refs => s.refs[el.name] \in Nat \ {0}
    BY <1>1 DEF Refs
  <1> QED
    BY <1>1, <1>2 DEF New, Missing, Found

(* After an index out of range nothing changes.                            *)
LEMMA MergeStops ==
  ASSUME NEW s, NEW el, NEW i, ~ s.ok
  PROVE  mergeRefs(s, i, el) = s
  BY DEF mergeRefs

(* A new name is appended.                                                 *)
LEMMA MergeAppends ==
  ASSUME NEW E, NEW s \in LoopState(E), NEW el \in E, NEW i, i \in Nat \ {0},
         New(s, el)
  PROVE  LET t == mergeRefs(s, i, el) IN
         /\ t \in LoopState(E)
         /\ t.ok /\ t.store = s.store /\ (t.shared => s.shared)
         /\ Appended(s.items, t.items, el) /\ Noted(s.refs, t.refs, el.name, i)
  <1> DEFINE t == mergeRefs(s, i, el)
             refs == [n \in DOMAIN s.refs \cup {el.name} |->
                        IF n = el.name THEN i ELSE s.refs[n]]
             r == IF s.room > 0 THEN s.room - 1 ELSE 0
  <1>1. t = [items |-> Append(s.items, el), refs |-> refs, ok |-> s.ok,
             shared |-> (s.shared /\ s.room > 0), room |-> r, store |-> s.store]
    BY DEF mergeRefs, appendElement, New, LoopState
  <1>2. refs \in Refs(E)
    <2>1. PICK D \in SUBSET {e.name : e \in E} : s.refs \in [D -> Nat \ {0}]
      BY DEF LoopState, Refs
    <2>2. refs \in [D \cup {el.name} -> Nat \ {0}]
      BY <2>1
    <2>3. D \cup {el.name} \in SUBSET {e.name : e \in E}
      OBVIOUS
    <2> HIDE DEF refs
    <2> QED
      BY <2>2, <2>3 DEF Refs
  <1>3. s.items \in Seq(E) /\ s.room \in Nat /\ s.store \in Seq(E) /\ s.ok = TRUE
    BY DEF LoopState, New
  <1>4. Append(s.items, el) \in Seq(E) /\ r \in Nat /\ (s.shared /\ s.room > 0) \in BOOLEAN
    BY <1>3
  <1> HIDE DEF refs, r, t
  <1>5. t \in LoopState(E)
    BY <1>1, <1>2, <1>3, <1>4 DEF LoopState
  <1>6. t.ok /\ t.items = Append(s.items, el) /\ t.store = s.store /\ t.refs = refs
    BY <1>1, <1>3
  <1>7. t.shared => s.shared
    BY <1>1
  <1>8. Appended(s.items, t.items, el)
    BY <1>3, <1>6 DEF Appended
  <1>9. Noted(s.refs, t.refs, el.name, i)
    BY <1>6 DEF refs, Noted
  <1> QED
    BY <1>5, <1>6, <1>7, <1>8, <1>9 DEF t

(* An index out of range stops the loop.                                   *)
LEMMA MergeMisses ==
  ASSUME NEW E, NEW s \in LoopState(E), NEW el \in E, NEW i, Missing(s, el)
  PROVE  mergeRefs(s, i, el) \in LoopState(E) /\ ~ mergeRefs(s, i, el).ok
  <1>1. mergeRefs(s, i, el) = [s EXCEPT !.ok = FALSE]
    BY MergeRefsCases DEF mergeRefs, mergeElement, Missing
  <1> QED
    BY <1>1 DEF LoopState

(* A name that is noted is merged into the element at its index.           *)
LEMMA MergeFinds ==
  ASSUME NEW E, Mergeable(E), NEW s \in LoopState(E), NEW el \in E, NEW i,
         Found(s, el)
  PROVE  LET t == mergeRefs(s, i, el)
             r == s.refs[el.name] IN
         /\ t \in LoopState(E)
         /\ r \in 1 .. Len(s.items) /\ t.ok
         /\ Replaced(s.items, t.items, r, merge(s.items[r], el))
         /\ t.refs = s.refs /\ t.shared = s.shared
         /\ IF s.shared /\ r <= Len(s.store)
              THEN Replaced(s.store, t.store, r, merge(s.store[r], el))
              ELSE t.store = s.store
  <1> DEFINE t == mergeRefs(s, i, el)
             r == s.refs[el.name]
             written == [s.items EXCEPT ![r] = merge(s.items[r], el)]
             store == IF s.shared /\ r <= Len(s.store)
                        THEN [s.store EXCEPT ![r] = merge(s.store[r], el)]
                        ELSE s.store
  <1>1. /\ s.items \in Seq(E) /\ s.store \in Seq(E) /\ s.refs \in Refs(E)
        /\ s.ok = TRUE /\ s.shared \in BOOLEAN /\ s.room \in Nat
    BY DEF LoopState, Found
  <1>2. r \in Nat \ {0} /\ r <= Len(s.items) /\ el.name \in DOMAIN s.refs
    BY MergeRefsCases DEF Found
  <1>3. r \in 1 .. Len(s.items) /\ ~ (r > Len(s.items))
    BY <1>1, <1>2
  <1>4. t = [items |-> written, refs |-> s.refs, ok |-> TRUE,
             shared |-> s.shared, room |-> s.room, store |-> store]
    BY <1>1, <1>2, <1>3 DEF mergeRefs, mergeElement, LoopState
  <1>5. written \in Seq(E)
    BY <1>1, <1>3 DEF Mergeable
  <1>6. store \in Seq(E)
    BY <1>1, <1>2 DEF Mergeable
  <1> HIDE DEF t, r, written, store
  <1>7. t \in LoopState(E)
    BY <1>1, <1>4, <1>5, <1>6 DEF LoopState
  <1>8. /\ t.ok /\ t.items = written /\ t.refs = s.refs /\ t.shared = s.shared
        /\ t.store = store
    BY <1>4
  <1>9. Replaced(s.items, t.items, r, merge(s.items[r], el))
    BY <1>1, <1>3, <1>8 DEF written, Replaced
  <1>10. IF s.shared /\ r <= Len(s.store)
           THEN Replaced(s.store, t.store, r, merge(s.store[r], el))
           ELSE t.store = s.store
    BY <1>1, <1>2, <1>8 DEF store, Replaced
  <1> QED
    BY <1>3, <1>7, <1>8, <1>9, <1>10 DEF t, r

(* Each element leaves a state of the loop.                                *)
LEMMA MergeRefsType ==
  ASSUME NEW E, Mergeable(E), NEW s \in LoopState(E), NEW el \in E, NEW i,
         i \in Nat \ {0}
  PROVE  mergeRefs(s, i, el) \in LoopState(E)
  <1>1. CASE ~ s.ok
    BY <1>1, MergeStops
  <1>2. CASE New(s, el)
    BY <1>2, MergeAppends
  <1>3. CASE Missing(s, el)
    BY <1>3, MergeMisses
  <1>4. CASE Found(s, el)
    BY <1>4, MergeFinds
  <1> QED
    BY <1>1, <1>2, <1>3, <1>4, MergeRefsCases

(* So does the loop.                                                       *)
LEMMA LoopType ==
  ASSUME NEW E, Mergeable(E), NEW s \in LoopState(E), NEW src \in Seq(E)
  PROVE  \A i \in 0 .. Len(src) : Loop(s, src)[i] \in LoopState(E)
  <1> DEFINE P == {n \in Nat : n <= Len(src) => Loop(s, src)[n] \in LoopState(E)}
  <1>1. Len(src) \in Nat
    OBVIOUS
  <1>2. 0 \in P
    BY LoopUnrolls
  <1>3. ASSUME NEW n \in Nat, n \in P PROVE n + 1 \in P
    <2>1. CASE n + 1 <= Len(src)
      <3>1. /\ Loop(s, src)[n] \in LoopState(E)
            /\ n + 1 \in 1 .. Len(src) /\ src[n + 1] \in E
        BY <1>3, <2>1
      <3>2. Loop(s, src)[n + 1] = mergeRefs(Loop(s, src)[n], n + 1, src[n + 1])
        BY <1>1, <3>1, LoopUnrolls
      <3> QED
        BY <3>1, <3>2, MergeRefsType
    <2> QED
      BY <1>1, <2>1
  <1> HIDE DEF P
  <1>4. Nat \subseteq P
    BY <1>2, <1>3, SetInduction
  <1> QED
    BY <1>1, <1>4 DEF P

(* Each name is noted with the last index it has.                          *)
LEMMA refsForType ==
  ASSUME NEW E, NEW items \in Seq(E)
  PROVE  /\ refsFor(items) \in Refs(E)
         /\ DOMAIN refsFor(items) = NamesIn(items)
         /\ \A n \in NamesIn(items) :
              /\ refsFor(items)[n] \in 1 .. Len(items)
              /\ items[refsFor(items)[n]].name = n
              /\ \A j \in DOMAIN items : items[j].name = n => j <= refsFor(items)[n]
  <1> DEFINE IsLast(n, i) == /\ items[i].name = n
                             /\ \A j \in DOMAIN items : items[j].name = n => j <= i
  <1>1. DOMAIN items = 1 .. Len(items) /\ Len(items) \in Nat
    OBVIOUS
  <1>2. ASSUME NEW n \in NamesIn(items) PROVE \E i \in DOMAIN items : IsLast(n, i)
    <2> DEFINE T == {i \in DOMAIN items : items[i].name = n}
    <2>1. T # {} /\ T \subseteq 1 .. Len(items)
      BY <1>1 DEF NamesIn
    <2>2. \E x \in T : \A y \in T : y <= x
      BY <1>1, <2>1, Greatest
    <2> QED
      BY <2>2
  <1>3. refsFor(items) = [n \in NamesIn(items) |-> CHOOSE i \in DOMAIN items : IsLast(n, i)]
    BY DEF refsFor, NamesIn
  <1>4. ASSUME NEW n \in NamesIn(items)
        PROVE  refsFor(items)[n] \in DOMAIN items /\ IsLast(n, refsFor(items)[n])
    <2> HIDE DEF IsLast
    <2>1. refsFor(items)[n] = CHOOSE i \in DOMAIN items : IsLast(n, i)
      BY <1>3
    <2> QED
      BY <1>2, <2>1
  <1>5. NamesIn(items) \in SUBSET {e.name : e \in E}
    BY <1>1 DEF NamesIn
  <1>6. refsFor(items) \in [NamesIn(items) -> Nat \ {0}]
    BY <1>1, <1>3, <1>4
  <1> HIDE DEF IsLast
  <1>7. refsFor(items) \in Refs(E)
    BY <1>5, <1>6 DEF Refs
  <1> QED
    BY <1>1, <1>3, <1>4, <1>7 DEF IsLast

-----------------------------------------------------------------------------
(* A loop whose source has each name once addresses no element that is not *)
(* there, whatever the destination is: an index that may be out of range is*)
(* that of a name of the source that was merged already.                   *)
UpTo(src, i) == {src[j].name : j \in 1 .. i}
InRange(src, i, s) ==
  s.ok /\ \A n \in DOMAIN s.refs : n \in UpTo(src, i) \/ s.refs[n] <= Len(s.items)

(* The names of src seen so far, one element on.                           *)
LEMMA UpToGrows ==
  ASSUME NEW src, NEW i \in Nat, NEW n, n = i + 1
  PROVE  UpTo(src, n) = UpTo(src, i) \cup {src[n].name}
  BY DEF UpTo

(* If names are distinct, the next one has not been seen.                  *)
LEMMA UpToIsNew ==
  ASSUME NEW E, NEW src \in Seq(E), Distinct(src), NEW i \in Nat, NEW n, n = i + 1,
         n \in 1 .. Len(src)
  PROVE  src[n].name \notin UpTo(src, i)
  <1>1. \A j \in 1 .. i : j \in DOMAIN src /\ n \in DOMAIN src /\ j # n
    OBVIOUS
  <1> QED
    BY <1>1 DEF UpTo, Distinct

(* One element keeps every index in range.                                 *)
LEMMA StaysInRange ==
  ASSUME NEW E, Mergeable(E), NEW src \in Seq(E), Distinct(src),
         NEW i \in Nat, NEW n, n = i + 1, n \in 1 .. Len(src),
         NEW s \in LoopState(E), InRange(src, i, s)
  PROVE  InRange(src, n, mergeRefs(s, n, src[n]))
  <1> DEFINE el == src[n]
             t == mergeRefs(s, n, el)
  <1>1. el \in E /\ el.name \notin UpTo(src, i) /\ n \in Nat \ {0}
    BY UpToIsNew
  <1>0. UpTo(src, n) = UpTo(src, i) \cup {src[n].name}
    BY UpToGrows
  <1>2. \A m : m \in UpTo(src, i) => m \in UpTo(src, n)
    BY <1>0
  <1>3. el.name \in UpTo(src, n)
    BY <1>0
  <1> HIDE DEF el, t
  <1>4. ~ Missing(s, el) /\ s.ok
    BY <1>1, MergeRefsCases DEF InRange, Missing
  <1>5. CASE New(s, el)
    <2>1. t.ok /\ Len(t.items) = Len(s.items) + 1 /\ Len(s.items) \in Nat
      <3>1. t.ok /\ Appended(s.items, t.items, el)
        BY <1>1, <1>5, MergeAppends DEF t
      <3> QED
        BY <1>1, <3>1 DEF LoopState, Appended
    <2>2. Noted(s.refs, t.refs, el.name, n)
      BY <1>1, <1>5, MergeAppends DEF t
    <2>3. \A m \in DOMAIN s.refs : s.refs[m] \in Nat
      BY DEF LoopState, Refs
    <2>4. ASSUME NEW m \in DOMAIN t.refs, m \notin UpTo(src, n)
          PROVE  t.refs[m] <= Len(t.items)
      <3>1. m \in DOMAIN s.refs /\ m # el.name /\ t.refs[m] = s.refs[m]
        BY <1>3, <2>2, <2>4 DEF Noted
      <3>2. s.refs[m] <= Len(s.items)
        BY <1>2, <2>4, <3>1 DEF InRange
      <3> QED
        BY <2>1, <2>3, <3>1, <3>2
    <2> QED
      BY <2>1, <2>4 DEF InRange, t, el
  <1>6. CASE Found(s, el)
    <2>1. t.ok /\ t.refs = s.refs /\ Len(t.items) = Len(s.items)
      BY <1>1, <1>6, MergeFinds DEF t, Replaced
    <2> QED
      BY <1>2, <2>1 DEF InRange, t, el
  <1> QED
    BY <1>1, <1>4, <1>5, <1>6, MergeRefsCases

(* So no merge of distinct names runs out of range.                        *)
LEMMA LoopStaysInRange ==
  ASSUME NEW E, Mergeable(E), NEW src \in Seq(E), Distinct(src),
         NEW s \in LoopState(E), InRange(src, 0, s)
  PROVE  Loop(s, src)[Len(src)].ok
  <1> DEFINE P == {n \in Nat : n <= Len(src) => InRange(src, n, Loop(s, src)[n])}
  <1>1. Len(src) \in Nat
    OBVIOUS
  <1>2. 0 \in P
    BY LoopUnrolls
  <1>3. ASSUME NEW n \in Nat, n \in P PROVE n + 1 \in P
    <2>1. CASE n + 1 <= Len(src)
      <3>1. /\ InRange(src, n, Loop(s, src)[n]) /\ n \in 0 .. Len(src)
            /\ n + 1 \in 1 .. Len(src) /\ (n + 1) - 1 = n
        BY <1>1, <1>3, <2>1
      <3>2. Loop(s, src)[n + 1] = mergeRefs(Loop(s, src)[n], n + 1, src[n + 1])
        BY <1>1, <3>1, LoopUnrolls
      <3>3. Loop(s, src)[n] \in LoopState(E)
        BY <3>1, LoopType
      <3>4. PICK k : k = n + 1
        OBVIOUS
      <3>5. InRange(src, k, Loop(s, src)[k])
        BY <3>1, <3>2, <3>3, <3>4, StaysInRange
      <3>6. InRange(src, n + 1, Loop(s, src)[n + 1])
        BY <3>4, <3>5
      <3> QED
        BY <3>6
    <2> QED
      BY <1>1, <2>1
  <1> HIDE DEF P
  <1>4. Nat \subseteq P
    BY <1>2, <1>3, SetInduction
  <1>5. InRange(src, Len(src), Loop(s, src)[Len(src)])
    BY <1>1, <1>4 DEF P
  <1> QED
    BY <1>5 DEF InRange

-----------------------------------------------------------------------------
(* What has been merged of a source with each name once into a destination *)
(* with each name once: elements with a name of the destination are merged *)
(* into the one that has it, in place, and the others follow.              *)
MergedSoFar(dst, src, i, t) ==
  /\ t.ok /\ Distinct(t.items) /\ Len(dst) <= Len(t.items)
  /\ DOMAIN t.refs = NamesIn(dst) \cup UpTo(src, i)
  /\ \A n \in NamesIn(dst) : t.refs[n] \in 1 .. Len(dst) /\ dst[t.refs[n]].name = n
  /\ \A k \in 1 .. Len(dst) :
       /\ t.items[k].name = dst[k].name
       /\ \A j \in 1 .. i : src[j].name = dst[k].name => t.items[k] = merge(dst[k], src[j])
       /\ dst[k].name \notin UpTo(src, i) => t.items[k] = dst[k]
  /\ \A k \in Len(dst) + 1 .. Len(t.items) :
       \E j \in 1 .. i : t.items[k] = src[j] /\ src[j].name \notin NamesIn(dst)
  /\ \A j \in 1 .. i : src[j].name \notin NamesIn(dst) =>
       \E k \in Len(dst) + 1 .. Len(t.items) : t.items[k] = src[j]

(* One element keeps the partial merge.                                    *)
LEMMA MergedSoFarStep ==
  ASSUME NEW E, Mergeable(E), NEW dst \in Seq(E), NEW src \in Seq(E),
         Distinct(dst), Distinct(src),
         NEW i \in Nat, NEW n, n = i + 1, n \in 1 .. Len(src),
         NEW s \in LoopState(E), MergedSoFar(dst, src, i, s)
  PROVE  MergedSoFar(dst, src, n, mergeRefs(s, n, src[n]))
  <1> DEFINE el == src[n]
             t == mergeRefs(s, n, el)
  <1>1. el \in E /\ el.name \notin UpTo(src, i) /\ n \in Nat \ {0}
    BY UpToIsNew
  <1>2. UpTo(src, n) = UpTo(src, i) \cup {el.name}
    BY UpToGrows
  <1>3. 1 .. n = 1 .. i \cup {n}
    OBVIOUS
  <1>4. /\ s.items \in Seq(E) /\ Len(s.items) \in Nat /\ Len(dst) \in Nat
        /\ DOMAIN dst = 1 .. Len(dst) /\ DOMAIN s.items = 1 .. Len(s.items)
    BY DEF LoopState
  <1>5. \A j \in 1 .. i : src[j].name # el.name /\ src[j].name \in UpTo(src, i)
    BY <1>1 DEF UpTo
  <1> HIDE DEF el, t
  <1>6. CASE el.name \in NamesIn(dst)
    <2> DEFINE r == s.refs[el.name]
    <2>1. r \in 1 .. Len(dst) /\ dst[r].name = el.name
      BY <1>6 DEF MergedSoFar
    <2>2. Found(s, el)
      BY <1>4, <1>6, <2>1 DEF MergedSoFar, Found
    <2>3. /\ t.ok /\ t.refs = s.refs
          /\ Replaced(s.items, t.items, r, merge(s.items[r], el))
      BY <1>1, <2>2, MergeFinds DEF t
    <2>4. s.items[r] = dst[r] /\ s.items[r] \in E /\ dst[r] \in E
      BY <1>1, <1>4, <2>1 DEF MergedSoFar
    <2>5. merge(dst[r], el).name = dst[r].name
      BY <1>1, <2>1, <2>4 DEF Mergeable
    <2> HIDE DEF r
    <2>6. /\ Len(t.items) = Len(s.items) /\ DOMAIN t.items = DOMAIN s.items
          /\ t.items[r] = merge(dst[r], el)
          /\ \A k \in DOMAIN s.items : k # r => t.items[k] = s.items[k]
          /\ r \in DOMAIN s.items
      BY <1>4, <2>1, <2>3, <2>4 DEF MergedSoFar, Replaced
    <2>7. \A k \in DOMAIN s.items : t.items[k].name = s.items[k].name
      BY <2>4, <2>5, <2>6
    <2>8. Distinct(t.items)
      <3>1. Distinct(s.items)
        BY DEF MergedSoFar
      <3> QED
        BY <2>6, <2>7, <3>1 DEF Distinct
    <2>9. ASSUME NEW k \in 1 .. Len(dst)
          PROVE  /\ t.items[k].name = dst[k].name
                 /\ \A j \in 1 .. n : src[j].name = dst[k].name =>
                      t.items[k] = merge(dst[k], src[j])
                 /\ dst[k].name \notin UpTo(src, n) => t.items[k] = dst[k]
      <3>1. k \in DOMAIN s.items
        BY <1>4 DEF MergedSoFar
      <3>2. CASE k = r
        BY <1>2, <1>3, <1>5, <2>1, <2>5, <2>6, <3>2 DEF el
      <3>3. CASE k # r
        <4>1. dst[k].name # el.name
          BY <1>4, <2>1, <3>3 DEF Distinct
        <4> QED
          BY <1>2, <1>3, <2>6, <3>1, <3>3, <4>1 DEF MergedSoFar, el
      <3> QED
        BY <3>2, <3>3
    <2>10. ASSUME NEW k \in Len(dst) + 1 .. Len(t.items)
           PROVE  \E j \in 1 .. n : t.items[k] = src[j] /\ src[j].name \notin NamesIn(dst)
      <3>1. k \in Len(dst) + 1 .. Len(s.items) /\ k \in DOMAIN s.items /\ k # r
        BY <1>4, <2>1, <2>6
      <3>2. PICK j \in 1 .. i : s.items[k] = src[j] /\ src[j].name \notin NamesIn(dst)
        BY <3>1 DEF MergedSoFar
      <3> QED
        BY <1>3, <2>6, <3>1, <3>2
    <2>11. ASSUME NEW j \in 1 .. n, src[j].name \notin NamesIn(dst)
           PROVE  \E k \in Len(dst) + 1 .. Len(t.items) : t.items[k] = src[j]
      <3>1. j \in 1 .. i
        BY <1>3, <1>6, <2>11 DEF el
      <3>2. PICK k \in Len(dst) + 1 .. Len(s.items) : s.items[k] = src[j]
        BY <2>11, <3>1 DEF MergedSoFar
      <3>3. k \in DOMAIN s.items /\ k # r
        BY <1>4, <2>1, <3>2
      <3> QED
        BY <2>6, <3>2, <3>3
    <2>12. /\ t.ok /\ Len(dst) <= Len(t.items)
           /\ DOMAIN t.refs = NamesIn(dst) \cup UpTo(src, n)
           /\ \A m \in NamesIn(dst) : t.refs[m] \in 1 .. Len(dst) /\ dst[t.refs[m]].name = m
      BY <1>2, <1>6, <2>3, <2>6 DEF MergedSoFar
    <2> QED
      BY <2>8, <2>9, <2>10, <2>11, <2>12 DEF MergedSoFar, t, el
  <1>7. CASE el.name \notin NamesIn(dst)
    <2>1. New(s, el)
      BY <1>1, <1>7 DEF MergedSoFar, New
    <2>2. /\ t.ok /\ Appended(s.items, t.items, el)
          /\ Noted(s.refs, t.refs, el.name, n)
      BY <1>1, <2>1, MergeAppends DEF t
    <2>3. /\ Len(t.items) = Len(s.items) + 1 /\ DOMAIN t.items = 1 .. Len(s.items) + 1
          /\ t.items[Len(s.items) + 1] = el
          /\ \A k \in 1 .. Len(s.items) : t.items[k] = s.items[k]
      BY <1>1, <1>4, <2>2 DEF Appended
    <2>4. \A k \in 1 .. Len(s.items) : s.items[k].name # el.name
      <3>1. ASSUME NEW k \in 1 .. Len(s.items) PROVE s.items[k].name # el.name
        <4>1. CASE k \in 1 .. Len(dst)
          <5>1. dst[k].name \in NamesIn(dst) /\ s.items[k].name = dst[k].name
            BY <1>4, <4>1 DEF MergedSoFar, NamesIn
          <5> QED
            BY <1>7, <5>1
        <4>2. CASE k \in Len(dst) + 1 .. Len(s.items)
          <5>1. PICK j \in 1 .. i : s.items[k] = src[j]
            BY <4>2 DEF MergedSoFar
          <5> QED
            BY <1>5, <5>1
        <4> QED
          BY <1>4, <4>1, <4>2
      <3> QED
        BY <3>1
    <2>5. Distinct(t.items)
      <3>1. Distinct(s.items)
        BY DEF MergedSoFar
      <3>2. ASSUME NEW k \in 1 .. Len(s.items) + 1, NEW m \in 1 .. Len(s.items) + 1,
                   t.items[k].name = t.items[m].name
            PROVE  k = m
        <4>1. CASE k \in 1 .. Len(s.items) /\ m \in 1 .. Len(s.items)
          BY <1>4, <2>3, <3>1, <3>2, <4>1 DEF Distinct
        <4>2. CASE k = Len(s.items) + 1 /\ m \in 1 .. Len(s.items)
          BY <2>3, <2>4, <3>2, <4>2
        <4>3. CASE k \in 1 .. Len(s.items) /\ m = Len(s.items) + 1
          BY <2>3, <2>4, <3>2, <4>3
        <4>4. /\ k \in 1 .. Len(s.items) \/ k = Len(s.items) + 1
              /\ m \in 1 .. Len(s.items) \/ m = Len(s.items) + 1
          <5>1. \A l \in Nat : \A x \in 1 .. l + 1 : x \in 1 .. l \/ x = l + 1
            OBVIOUS
          <5> QED
            BY <1>4, <5>1
        <4> QED
          BY <4>1, <4>2, <4>3, <4>4
      <3> QED
        BY <2>3, <3>2 DEF Distinct
    <2>6. Len(dst) <= Len(s.items)
      BY DEF MergedSoFar
    <2>7. ASSUME NEW k \in 1 .. Len(dst)
          PROVE  /\ t.items[k].name = dst[k].name
                 /\ \A j \in 1 .. n : src[j].name = dst[k].name =>
                      t.items[k] = merge(dst[k], src[j])
                 /\ dst[k].name \notin UpTo(src, n) => t.items[k] = dst[k]
      <3>1. k \in 1 .. Len(s.items) /\ dst[k].name \in NamesIn(dst)
        BY <1>4, <2>6 DEF NamesIn
      <3>2. dst[k].name # el.name /\ t.items[k] = s.items[k]
        BY <1>7, <2>3, <3>1
      <3>3. /\ s.items[k].name = dst[k].name
            /\ \A j \in 1 .. i : src[j].name = dst[k].name => s.items[k] = merge(dst[k], src[j])
            /\ dst[k].name \notin UpTo(src, i) => s.items[k] = dst[k]
        BY DEF MergedSoFar
      <3>4. \A j \in 1 .. n : src[j].name = dst[k].name => j \in 1 .. i
        BY <1>3, <3>2 DEF el
      <3> QED
        BY <1>2, <3>2, <3>3, <3>4
    <2>8. ASSUME NEW k \in Len(dst) + 1 .. Len(t.items)
          PROVE  \E j \in 1 .. n : t.items[k] = src[j] /\ src[j].name \notin NamesIn(dst)
      <3>1. CASE k = Len(s.items) + 1
        BY <1>3, <1>7, <2>3, <3>1 DEF el
      <3>2. CASE k \in Len(dst) + 1 .. Len(s.items)
        <4>1. PICK j \in 1 .. i : s.items[k] = src[j] /\ src[j].name \notin NamesIn(dst)
          BY <3>2 DEF MergedSoFar
        <4>2. k \in 1 .. Len(s.items)
          BY <1>4, <3>2
        <4> QED
          BY <1>3, <2>3, <4>1, <4>2
      <3> QED
        BY <1>4, <2>3, <3>1, <3>2
    <2>9. ASSUME NEW j \in 1 .. n, src[j].name \notin NamesIn(dst)
          PROVE  \E k \in Len(dst) + 1 .. Len(t.items) : t.items[k] = src[j]
      <3>0. Len(s.items) + 1 \in Len(dst) + 1 .. Len(t.items)
        BY <1>4, <2>3 DEF MergedSoFar
      <3>1. CASE j = n
        BY <2>3, <3>0, <3>1 DEF el
      <3>2. CASE j \in 1 .. i
        <4>1. PICK k \in Len(dst) + 1 .. Len(s.items) : s.items[k] = src[j]
          BY <2>9, <3>2 DEF MergedSoFar
        <4>2. k \in 1 .. Len(s.items) /\ k \in Len(dst) + 1 .. Len(t.items)
          BY <1>4, <2>3, <4>1
        <4> QED
          BY <2>3, <4>1, <4>2
      <3> QED
        BY <1>3, <3>1, <3>2
    <2>10. /\ t.ok /\ Len(dst) <= Len(t.items)
          /\ DOMAIN t.refs = NamesIn(dst) \cup UpTo(src, n)
      BY <1>2, <1>4, <2>2, <2>3 DEF MergedSoFar, Noted
    <2>11. \A m \in NamesIn(dst) : t.refs[m] \in 1 .. Len(dst) /\ dst[t.refs[m]].name = m
      <3>1. ASSUME NEW m \in NamesIn(dst) PROVE t.refs[m] = s.refs[m]
        BY <1>7, <2>2 DEF MergedSoFar, Noted
      <3> QED
        BY <3>1 DEF MergedSoFar
    <2> QED
      BY <2>5, <2>7, <2>8, <2>9, <2>10, <2>11 DEF MergedSoFar, t, el
  <1> QED
    BY <1>6, <1>7

(* So does the loop.                                                       *)
LEMMA LoopMerges ==
  ASSUME NEW E, Mergeable(E), NEW dst \in Seq(E), NEW src \in Seq(E),
         Distinct(dst), Distinct(src),
         NEW s \in LoopState(E), MergedSoFar(dst, src, 0, s)
  PROVE  MergedSoFar(dst, src, Len(src), Loop(s, src)[Len(src)])
  <1> DEFINE P == {n \in Nat : n <= Len(src) => MergedSoFar(dst, src, n, Loop(s, src)[n])}
  <1>1. Len(src) \in Nat
    OBVIOUS
  <1>2. 0 \in P
    BY LoopUnrolls
  <1>3. ASSUME NEW n \in Nat, n \in P PROVE n + 1 \in P
    <2>1. CASE n + 1 <= Len(src)
      <3>1. /\ MergedSoFar(dst, src, n, Loop(s, src)[n]) /\ n \in 0 .. Len(src)
            /\ n + 1 \in 1 .. Len(src) /\ (n + 1) - 1 = n
        BY <1>1, <1>3, <2>1
      <3>2. Loop(s, src)[n + 1] = mergeRefs(Loop(s, src)[n], n + 1, src[n + 1])
        BY <1>1, <3>1, LoopUnrolls
      <3>3. Loop(s, src)[n] \in LoopState(E)
        BY <3>1, LoopType
      <3>4. PICK k : k = n + 1
        OBVIOUS
      <3>5. MergedSoFar(dst, src, k, Loop(s, src)[k])
        BY <3>1, <3>2, <3>3, <3>4, MergedSoFarStep
      <3>6. MergedSoFar(dst, src, n + 1, Loop(s, src)[n + 1])
        BY <3>4, <3>5
      <3> QED
        BY <3>6
    <2> QED
      BY <1>1, <2>1
  <1> HIDE DEF P
  <1>4. Nat \subseteq P
    BY <1>2, <1>3, SetInduction
  <1> QED
    BY <1>1, <1>4 DEF P
-----------------------------------------------------------------------------
(* What a merge makes of two slices with each name once.                   *)
IsMerge(dst, src, res) ==
  /\ Distinct(res) /\ Len(dst) <= Len(res)
  /\ NamesIn(res) = NamesIn(dst) \cup NamesIn(src)
  /\ \A k \in DOMAIN dst :
       /\ res[k].name = dst[k].name
       /\ \A j \in DOMAIN src : src[j].name = dst[k].name => res[k] = merge(dst[k], src[j])
       /\ dst[k].name \notin NamesIn(src) => res[k] = dst[k]
  /\ \A k \in DOMAIN res : k > Len(dst) =>
       \E j \in DOMAIN src : res[k] = src[j] /\ src[j].name \notin NamesIn(dst)

(* In the end all names have been seen.                                    *)
LEMMA UpToAll ==
  ASSUME NEW E, NEW src \in Seq(E)
  PROVE  UpTo(src, Len(src)) = NamesIn(src) /\ UpTo(src, 0) = {}
  BY DEF UpTo, NamesIn

(* A partial merge of all elements is the merge.                           *)
LEMMA MergedAll ==
  ASSUME NEW E, NEW dst \in Seq(E), NEW src \in Seq(E), NEW t \in LoopState(E),
         MergedSoFar(dst, src, Len(src), t)
  PROVE  IsMerge(dst, src, t.items)
  <1> DEFINE res == t.items
  <1>1. /\ DOMAIN dst = 1 .. Len(dst) /\ DOMAIN src = 1 .. Len(src)
        /\ DOMAIN res = 1 .. Len(res) /\ Len(dst) \in Nat /\ Len(res) \in Nat
    BY DEF LoopState
  <1>2. UpTo(src, Len(src)) = NamesIn(src)
    BY UpToAll
  <1>3. /\ Distinct(res) /\ Len(dst) <= Len(res)
        /\ \A k \in DOMAIN dst :
             /\ res[k].name = dst[k].name
             /\ \A j \in DOMAIN src :
                  src[j].name = dst[k].name => res[k] = merge(dst[k], src[j])
             /\ dst[k].name \notin NamesIn(src) => res[k] = dst[k]
    BY <1>1, <1>2 DEF MergedSoFar
  <1>4. ASSUME NEW k \in DOMAIN res, k > Len(dst)
        PROVE  \E j \in DOMAIN src : res[k] = src[j] /\ src[j].name \notin NamesIn(dst)
    <2>1. k \in Len(dst) + 1 .. Len(res)
      BY <1>1, <1>4
    <2> QED
      BY <1>1, <2>1 DEF MergedSoFar
  <1>5. ASSUME NEW k \in DOMAIN res PROVE res[k].name \in NamesIn(dst) \cup NamesIn(src)
    <2>1. CASE k \in DOMAIN dst
      BY <1>3, <2>1 DEF NamesIn
    <2>2. CASE k > Len(dst)
      BY <1>4, <2>2 DEF NamesIn
    <2> QED
      BY <1>1, <2>1, <2>2
  <1>6. ASSUME NEW n \in NamesIn(dst) \cup NamesIn(src) PROVE n \in NamesIn(res)
    <2>1. CASE n \in NamesIn(dst)
      <3>1. PICK k \in DOMAIN dst : dst[k].name = n
        BY <2>1 DEF NamesIn
      <3>2. k \in DOMAIN res /\ res[k].name = n
        BY <1>1, <1>3, <3>1
      <3> QED
        BY <3>2 DEF NamesIn
    <2>2. CASE n \notin NamesIn(dst)
      <3>1. PICK j \in 1 .. Len(src) : src[j].name = n
        BY <1>1, <1>6, <2>2 DEF NamesIn
      <3>2. PICK k \in Len(dst) + 1 .. Len(res) : res[k] = src[j]
        BY <2>2, <3>1 DEF MergedSoFar
      <3>3. k \in DOMAIN res /\ res[k].name = n
        BY <1>1, <3>1, <3>2
      <3> QED
        BY <3>3 DEF NamesIn
    <2> QED
      BY <2>1, <2>2
  <1>7. NamesIn(res) = NamesIn(dst) \cup NamesIn(src)
    BY <1>5, <1>6 DEF NamesIn
  <1> QED
    BY <1>3, <1>4, <1>7 DEF IsMerge

(* A merge starts with slices of one kind of elements.                     *)
Mergee(E, items, shared, room, store) ==
  items \in Seq(E) /\ shared \in BOOLEAN /\ room \in Nat /\ store \in Seq(E)

(* The loop begins in one of its states.                                   *)
LEMMA BegunState ==
  ASSUME NEW E, NEW items, NEW shared, NEW room, NEW store,
         Mergee(E, items, shared, room, store)
  PROVE  LET s == Begun(items, shared, room, store) IN
         /\ s \in LoopState(E)
         /\ s.items = items /\ s.refs = refsFor(items) /\ s.ok
         /\ s.shared = shared /\ s.store = store
  <1>1. refsFor(items) \in Refs(E)
    BY refsForType DEF Mergee
  <1>2. Begun(items, shared, room, store) =
          [items |-> items, refs |-> refsFor(items), ok |-> TRUE,
           shared |-> shared, room |-> room, store |-> store]
    BY DEF Begun
  <1>3. Begun(items, shared, room, store) \in LoopState(E)
    BY <1>1, <1>2 DEF LoopState, Mergee
  <1> QED
    BY <1>2, <1>3

(* It begins with every index in range.                                    *)
LEMMA BegunInRange ==
  ASSUME NEW E, NEW items, NEW shared, NEW room, NEW store, NEW src \in Seq(E),
         Mergee(E, items, shared, room, store)
  PROVE  InRange(src, 0, Begun(items, shared, room, store))
  <1>1. /\ \A n \in NamesIn(items) : refsFor(items)[n] \in 1 .. Len(items)
        /\ DOMAIN refsFor(items) = NamesIn(items)
    BY refsForType DEF Mergee
  <1> DEFINE s == Begun(items, shared, room, store)
  <1>2. s.items = items /\ s.refs = refsFor(items) /\ s.ok
    BY BegunState
  <1>3. \A n \in NamesIn(items) : refsFor(items)[n] <= Len(items)
    BY <1>1
  <1> HIDE DEF s
  <1> QED
    BY <1>1, <1>2, <1>3 DEF InRange, s

(* It begins with nothing merged.                                          *)
LEMMA BegunMerged ==
  ASSUME NEW E, NEW items, NEW shared, NEW room, NEW store, NEW src \in Seq(E),
         Mergee(E, items, shared, room, store), Distinct(items)
  PROVE  MergedSoFar(items, src, 0, Begun(items, shared, room, store))
  <1> DEFINE s == Begun(items, shared, room, store)
  <1>1. /\ DOMAIN refsFor(items) = NamesIn(items)
        /\ \A n \in NamesIn(items) :
             /\ refsFor(items)[n] \in 1 .. Len(items)
             /\ items[refsFor(items)[n]].name = n
    BY refsForType DEF Mergee
  <1>2. s.items = items /\ s.refs = refsFor(items) /\ s.ok
    BY BegunState
  <1>3. UpTo(src, 0) = {} /\ 1 .. 0 = {} /\ Len(items) \in Nat
    BY UpToAll DEF Mergee
  <1>4. Len(items) + 1 .. Len(items) = {}
    BY <1>3
  <1>5. /\ s.ok /\ Distinct(s.items) /\ Len(items) <= Len(s.items)
        /\ DOMAIN s.refs = NamesIn(items) \cup UpTo(src, 0)
    BY <1>1, <1>2, <1>3
  <1> HIDE DEF s
  <1> QED
    BY <1>1, <1>2, <1>3, <1>4, <1>5 DEF MergedSoFar, s

(* A merge panics only if a name is twice in its source.                   *)
LEMMA TransformerType ==
  ASSUME NEW E, Mergeable(E), NEW s \in LoopState(E), NEW src \in Seq(E)
  PROVE  Transformer(s, src) \in LoopState(E)
  <1>1. Len(src) \in 0 .. Len(src)
    OBVIOUS
  <1> QED
    BY <1>1, LoopType DEF Transformer

(* Distinct names in src never make the merge panic.                       *)
LEMMA TransformerOK ==
  ASSUME NEW E, Mergeable(E), NEW items, NEW shared, NEW room, NEW store,
         Mergee(E, items, shared, room, store), NEW src \in Seq(E), Distinct(src)
  PROVE  Transformer(Begun(items, shared, room, store), src).ok
  BY BegunState, BegunInRange, LoopStaysInRange DEF Transformer

(* Two slices with distinct names are merged by name.                      *)
LEMMA TransformerMerges ==
  ASSUME NEW E, Mergeable(E), NEW items, NEW shared, NEW room, NEW store,
         Mergee(E, items, shared, room, store), NEW src \in Seq(E),
         Distinct(items), Distinct(src)
  PROVE  LET t == Transformer(Begun(items, shared, room, store), src) IN
         t \in LoopState(E) /\ t.ok /\ IsMerge(items, src, t.items)
  <1> DEFINE s == Begun(items, shared, room, store)
  <1>1. s \in LoopState(E) /\ MergedSoFar(items, src, 0, s)
    BY BegunState, BegunMerged
  <1> HIDE DEF s
  <1>2. MergedSoFar(items, src, Len(src), Transformer(s, src))
    BY <1>1, LoopMerges DEF Transformer, Mergee
  <1>3. Transformer(s, src) \in LoopState(E)
    BY <1>1, TransformerType
  <1>4. IsMerge(items, src, Transformer(s, src).items)
    BY <1>2, <1>3, MergedAll DEF Mergee
  <1> QED
    BY <1>2, <1>3, <1>4 DEF s, MergedSoFar

(* The merge of a slice in memory of its own.                              *)
LEMMA AloneMergee ==
  ASSUME NEW E, NEW items \in Seq(E)
  PROVE  Mergee(E, items, FALSE, 0, <<>>) /\ Alone(items) = Begun(items, FALSE, 0, <<>>)
  BY DEF Mergee, Alone

-----------------------------------------------------------------------------
(* Items are merged with items.                                            *)
LEMMA ItemMerged ==
  ASSUME NEW d \in Item, NEW e \in Item
  PROVE  /\ merge(d, e) = Override(d, e) /\ merge(d, e) \in Item
         /\ merge(d, e).name = e.name
         /\ merge(d, e).val = IF e.val = None THEN d.val ELSE e.val
         /\ d.name = e.name /\ e.val = None => merge(d, e) = d
  <1>1. "pipelines" \notin DOMAIN e
    BY DEF Item
  <1>2. merge(d, e) = Override(d, e)
    BY <1>1 DEF merge
  <1>3. d = [name |-> d.name, val |-> d.val] /\ d.name \in Names /\ e.name \in Names
        /\ d.val \in (Source \X Nat) \cup {None}
    BY DEF Item
  <1>4. CASE e.val = None
    <2>1. merge(d, e) = [name |-> e.name, val |-> d.val]
      BY <1>2, <1>3, <1>4 DEF Override
    <2> QED
      BY <1>2, <1>3, <1>4, <2>1 DEF Item
  <1>5. CASE e.val # None
    BY <1>2, <1>5 DEF Override
  <1> QED
    BY <1>4, <1>5

(* The merge of two items is an item of the same name.                     *)
LEMMA ItemsMerge == Mergeable(Item)
  BY ItemMerged DEF Mergeable

-----------------------------------------------------------------------------
(* What every step of a build keeps: the types, and what the parts are.    *)
Verdicts == {"yes", "no", "error"}

Shape ==
  /\ <<0, 0>> \in Parts
  /\ \A t \in DOMAIN filter : <<t, 0>> \in Parts
  /\ \A p \in Parts : p = <<0, 0>> \/ p \in (DOMAIN filter) \X Nat
  /\ \A p \in Parts, k \in Nat : k <= p[2] => <<p[1], k>> \in Parts

Place ==
  /\ pc = "filter" => job[1] > 0 /\ job[2] = 0
  /\ pc \in {"merge", "reconcile"} => job \in Parts /\ job[1] > 0 /\ job[2] > 0
  /\ pc = "merge" => step \in 1 .. 3
  /\ pc = "reconcile" => step = 4
  /\ pc \in {"filter", "merge", "reconcile"} => outcome = "open" /\ job # <<0, 0>>

Unloaded ==
  /\ filter = <<>> /\ orig = <<>> /\ mem = <<>>
  /\ step = 1 /\ run = EmptyRun /\ built = <<>>
  /\ pc \in {"central", "local", "load", "end"}

PointersValid ==
  \A i \in DOMAIN run.params : run.params[i][2] \in DOMAIN mem[run.params[i][1]].params

BuildInv ==
  /\ BuildTypeOK
  /\ filter \in Seq(Verdicts)
  /\ IF job = <<0, 0>> THEN Unloaded ELSE Shape
  /\ Place
  /\ PointersValid

(* What is visible of the array that the run shares.                       *)
RunStore == IF run.array = None THEN <<>> ELSE mem[run.array].items
RunBegun == Begun(run.items, run.array # None, run.room, RunStore)

(* The run is a slice the transformer may merge into.                      *)
LEMMA RunMergee ==
  ASSUME BuildInv
  PROVE  Mergee(Item, run.items, run.array # None, run.room, RunStore)
  <1>1. /\ run.items \in Seq(Item) /\ run.room \in Nat /\ run.array \in Parts \cup {None}
        /\ mem \in [Parts -> Content]
    BY DEF BuildInv, BuildTypeOK
  <1>2. \A q \in Parts : mem[q].items \in Seq(Item)
    BY <1>1 DEF Content
  <1> QED
    BY <1>1, <1>2 DEF Mergee, RunStore

(* What a part holds, in memory and as loaded.                             *)
LEMMA PartTyped ==
  ASSUME BuildInv, NEW q \in Parts
  PROVE  /\ mem[q] \in Content /\ orig[q] \in Content
         /\ mem[q].timeouts \in Source \cup {None} /\ mem[q].items \in Seq(Item)
         /\ mem[q].spare \in Nat /\ mem[q].bare \in BOOLEAN
         /\ mem[q].params \in Seq(Param)
         /\ mem[q].label \in Label /\ orig[q].label \in Label
         /\ orig[q].timeouts \in Source \cup {None} /\ orig[q].items \in Seq(Item)
         /\ orig[q].params \in Seq(Param) /\ orig[q].bare \in BOOLEAN
  <1>1. mem \in [Parts -> Content] /\ orig \in [Parts -> Content]
    BY DEF BuildInv, BuildTypeOK
  <1>2. mem[q] \in Content /\ orig[q] \in Content
    BY <1>1
  <1> QED
    BY <1>2 DEF Content

(* What a merge yields.                                                    *)
LEMMA MergedType ==
  ASSUME BuildInv, NEW p \in Parts
  PROVE  /\ Merged(p).items \in Seq(Item) /\ Merged(p).store \in Seq(Item)
         /\ Merged(p).room \in Nat /\ Merged(p).shared \in BOOLEAN
         /\ Merged(p).ok \in BOOLEAN
  <1>1. mem[p].items \in Seq(Item)
    BY PartTyped
  <1>2. CASE run.items = <<>>
    BY <1>1, <1>2 DEF Merged
  <1>3. CASE run.items # <<>>
    <2>1. Transformer(RunBegun, mem[p].items) \in LoopState(Item)
      BY <1>1, RunMergee, BegunState, ItemsMerge, TransformerType DEF RunBegun
    <2>2. Merged(p) = Transformer(RunBegun, mem[p].items)
      BY <1>3 DEF Merged, RunBegun, RunStore
    <2> QED
      BY <2>1, <2>2 DEF LoopState
  <1> QED
    BY <1>2, <1>3

(* The sources of a pipeline are parts.                                    *)
LEMMA SourcesOf ==
  ASSUME NEW j
  PROVE  /\ Sources(j)[1] = <<0, 0>> /\ Sources(j)[2] = <<j[1], 0>> /\ Sources(j)[3] = j
         /\ Len(Sources(j)) = 3 /\ DOMAIN Sources(j) = 1 .. 3
  BY DEF Sources

(* The sources of a pipeline are parts.                                    *)
LEMMA SourcesAreParts ==
  ASSUME BuildInv, job # <<0, 0>>, NEW j \in Parts, NEW i \in 1 .. 3
  PROVE  Sources(j)[i] \in Parts
  <1>1. <<0, 0>> \in Parts /\ j \in Parts
    BY DEF BuildInv, Shape
  <1>2. j = <<0, 0>> \/ j \in (DOMAIN filter) \X Nat
    BY DEF BuildInv, Shape
  <1>3. <<j[1], 0>> \in Parts
    <2>1. CASE j = <<0, 0>>
      BY <1>1, <2>1
    <2>2. CASE j \in (DOMAIN filter) \X Nat
      BY <2>2 DEF BuildInv, Shape
    <2> QED
      BY <1>2, <2>1, <2>2
  <1>4. i = 1 \/ i = 2 \/ i = 3
    OBVIOUS
  <1> QED
    BY <1>1, <1>3, <1>4, SourcesOf

-----------------------------------------------------------------------------
(* A merge that does not panic, field by field.                            *)
Writes(p, m) ==
  /\ run'.timeouts = IF run.timeouts = None /\ mem[p].timeouts # None
                       THEN p ELSE run.timeouts
  /\ run'.label = Later(run.label, mem[p].label)
  /\ run'.items = m.items
  /\ run'.array = IF run.items = <<>> /\ mem[p].items # <<>> THEN p
                  ELSE IF m.shared THEN run.array ELSE None
  /\ run'.room = IF run.items = <<>> THEN mem[p].spare ELSE m.room
  /\ run'.bare = mem[p].bare
  /\ run'.params = run.params \o [i \in DOMAIN mem[p].params |-> <<p, i>>]
  /\ run' = [timeouts |-> run'.timeouts, label |-> run'.label, items |-> run'.items, array |-> run'.array,
             room |-> run'.room, bare |-> run'.bare, params |-> run'.params]
  /\ DOMAIN mem' = Parts
  /\ \A q \in Parts :
       /\ mem'[q].timeouts = IF run.timeouts = q /\ mem[p].timeouts # None
                               THEN mem[p].timeouts ELSE mem[q].timeouts
       /\ mem'[q].items = IF run.array = q THEN m.store ELSE mem[q].items
       /\ mem'[q].spare = mem[q].spare /\ mem'[q].bare = mem[q].bare
       /\ mem'[q].params = mem[q].params /\ mem'[q].label = mem[q].label

(* MergeInto, field by field.                                              *)
LEMMA MergeIntoWrites ==
  ASSUME BuildInv, NEW p \in Parts, NEW m, MergeInto(p, m)
  PROVE  Writes(p, m)
  <1>1. ASSUME NEW q \in Parts
        PROVE  mem[q] = [timeouts |-> mem[q].timeouts, label |-> mem[q].label,
                         items |-> mem[q].items, spare |-> mem[q].spare, bare |-> mem[q].bare,
                         params |-> mem[q].params]
    <2>1. mem[q] \in Content
      BY PartTyped
    <2> QED
      BY <2>1 DEF Content
  <1>2. ASSUME NEW q \in Parts
        PROVE  /\ mem'[q].timeouts = IF run.timeouts = q /\ mem[p].timeouts # None
                                      THEN mem[p].timeouts ELSE mem[q].timeouts
               /\ mem'[q].items = IF run.array = q THEN m.store ELSE mem[q].items
               /\ mem'[q].spare = mem[q].spare /\ mem'[q].bare = mem[q].bare
               /\ mem'[q].params = mem[q].params /\ mem'[q].label = mem[q].label
    <2>1. mem'[q] = [mem[q] EXCEPT
            !.timeouts = IF run.timeouts = q /\ mem[p].timeouts # None
                           THEN mem[p].timeouts ELSE mem[q].timeouts,
            !.items = IF run.array = q THEN m.store ELSE mem[q].items]
      BY DEF MergeInto
    <2> QED
      BY <1>1, <2>1
  <1>3. DOMAIN mem' = Parts
    BY DEF MergeInto
  <1>4. run' = [timeouts |-> run'.timeouts, label |-> run'.label, items |-> run'.items, array |-> run'.array,
                room |-> run'.room, bare |-> run'.bare, params |-> run'.params]
    BY DEF MergeInto
  <1> QED
    BY <1>2, <1>3, <1>4 DEF MergeInto, Writes

(* What a merge does: it panics, or writes and goes on.                    *)
MergesTo(p, m) ==
  /\ UNCHANGED <<filter, orig, job, built>>
  /\ IF run.bare \/ ~ m.ok
       THEN pc' = "end" /\ outcome' = "panic" /\ UNCHANGED <<mem, step, run>>
       ELSE /\ Writes(p, m) /\ step' = step + 1 /\ UNCHANGED outcome
            /\ pc' = IF step = 3 THEN "reconcile" ELSE "merge"

(* Where a merge happens, and what it does.                                *)
LEMMA MergeDoes ==
  ASSUME BuildInv, Merge
  PROVE  /\ pc = "merge" /\ step \in 1 .. 3 /\ Sources(job)[step] \in Parts
         /\ job \in Parts /\ job # <<0, 0>> /\ outcome = "open"
         /\ MergesTo(Sources(job)[step], Merged(Sources(job)[step]))
  <1>1. pc = "merge" /\ step \in 1 .. 3 /\ job \in Parts /\ job # <<0, 0>> /\ outcome = "open"
    BY DEF Merge, BuildInv, Place
  <1>2. Sources(job)[step] \in Parts
    BY <1>1, SourcesAreParts
  <1> DEFINE p == Sources(job)[step]
             m == Merged(p)
  <1>3. /\ UNCHANGED <<filter, orig, job, built>>
        /\ IF run.bare \/ ~ m.ok
             THEN Finish("panic") /\ UNCHANGED <<mem, step, run>>
             ELSE /\ MergeInto(p, m) /\ step' = step + 1 /\ UNCHANGED outcome
                  /\ pc' = IF step = 3 THEN "reconcile" ELSE "merge"
    BY DEF Merge
  <1> HIDE DEF p, m
  <1>4. MergeInto(p, m) => Writes(p, m)
    BY <1>2, MergeIntoWrites DEF p
  <1>5. MergesTo(p, m)
    BY <1>3, <1>4 DEF MergesTo, Finish
  <1> QED
    BY <1>1, <1>2, <1>5 DEF p, m

(* A merge keeps the types and the shape.                                  *)
LEMMA MergeKeepsInv ==
  ASSUME BuildInv, Merge, mode' = mode
  PROVE  BuildInv'
  <1> DEFINE p == Sources(job)[step]
             m == Merged(p)
  <1>1. /\ pc = "merge" /\ step \in 1 .. 3 /\ p \in Parts /\ job # <<0, 0>>
        /\ job \in Parts /\ outcome = "open"
    BY MergeDoes
  <1>2. MergesTo(p, m)
    BY MergeDoes
  <1>3. /\ m.items \in Seq(Item) /\ m.store \in Seq(Item) /\ m.room \in Nat
        /\ m.shared \in BOOLEAN
    BY <1>1, MergedType
  <1> HIDE DEF p, m
  <1>4. BuildTypeOK /\ filter \in Seq(Verdicts) /\ Shape /\ Place /\ PointersValid
    BY <1>1 DEF BuildInv
  <1>5. CASE run.bare \/ ~ m.ok
    <2>1. /\ UNCHANGED <<mode, filter, orig, job, built, mem, step, run>>
          /\ pc' = "end" /\ outcome' = "panic"
      BY <1>2, <1>5 DEF MergesTo
    <2> QED
      BY <1>1, <1>4, <2>1
      DEF BuildInv, BuildTypeOK, Shape, Place, PointersValid, Parts, Content
  <1>6. CASE ~ (run.bare \/ ~ m.ok)
    <2>1. /\ UNCHANGED <<filter, orig, job, built, outcome>>
          /\ Writes(p, m) /\ step' = step + 1
          /\ pc' = IF step = 3 THEN "reconcile" ELSE "merge"
      BY <1>2, <1>6 DEF MergesTo
    <2>2. Parts' = Parts
      BY <2>1 DEF Writes, Parts
    <2>3. mem' \in [Parts -> Content]
      <3>1. ASSUME NEW q \in Parts PROVE mem'[q] \in Content
        <4>1. /\ mem[q] \in Content /\ mem[p].timeouts \in Source \cup {None}
              /\ mem[q].timeouts \in Source \cup {None} /\ mem[q].items \in Seq(Item)
          BY <1>1, PartTyped
        <4>2. mem'[q] = [mem[q] EXCEPT
                !.timeouts = IF run.timeouts = q /\ mem[p].timeouts # None
                               THEN mem[p].timeouts ELSE mem[q].timeouts,
                !.items = IF run.array = q THEN m.store ELSE mem[q].items]
          BY <1>1, <1>6 DEF Merge, MergeInto, p, m
        <4> HIDE DEF Parts
        <4>3. (IF run.timeouts = q /\ mem[p].timeouts # None
                 THEN mem[p].timeouts ELSE mem[q].timeouts) \in Source \cup {None}
          BY <4>1
        <4>4. (IF run.array = q THEN m.store ELSE mem[q].items) \in Seq(Item)
          BY <1>3, <4>1
        <4> QED
          BY <4>1, <4>2, <4>3, <4>4 DEF Content
      <3>2. mem' = [q \in Parts |-> mem'[q]]
        BY <1>1, <1>6 DEF Merge, MergeInto, p, m
      <3> QED
        BY <3>1, <3>2
    <2>4. run' \in [timeouts : Parts \cup {None}, label : Label, items : Seq(Item),
                    array : Parts \cup {None}, room : Nat, bare : BOOLEAN,
                    params : Seq(Parts \X Nat)]
      <3>1. run \in [timeouts : Parts \cup {None}, label : Label, items : Seq(Item),
                     array : Parts \cup {None}, room : Nat, bare : BOOLEAN,
                     params : Seq(Parts \X Nat)]
        BY <1>4 DEF BuildTypeOK
      <3>2. mem[p].spare \in Nat /\ mem[p].bare \in BOOLEAN /\ mem[p].params \in Seq(Param)
        BY <1>1, PartTyped
      <3>3. [i \in DOMAIN mem[p].params |-> <<p, i>>] \in Seq(Parts \X Nat)
        BY <1>1, <3>2
      <3>4. run.params \in Seq(Parts \X Nat)
        BY <3>1
      <3>5. run.params \o [i \in DOMAIN mem[p].params |-> <<p, i>>] \in Seq(Parts \X Nat)
        BY <3>3, <3>4
      <3>6. run' = [timeouts |-> run'.timeouts, label |-> run'.label, items |-> run'.items, array |-> run'.array,
                    room |-> run'.room, bare |-> run'.bare, params |-> run'.params]
        BY <2>1 DEF Writes
      <3>8. run'.label \in Label
        BY <1>1, <2>1, <3>1, PartTyped DEF Writes, Later
      <3>7. /\ run'.timeouts \in Parts \cup {None} /\ run'.items \in Seq(Item)
            /\ run'.array \in Parts \cup {None} /\ run'.room \in Nat
            /\ run'.bare \in BOOLEAN /\ run'.params \in Seq(Parts \X Nat)
        BY <1>1, <1>3, <2>1, <3>1, <3>2, <3>5 DEF Writes
      <3> QED
        BY <3>6, <3>7, <3>8
    <2>5. BuildTypeOK'
      BY <1>1, <1>4, <2>1, <2>2, <2>3, <2>4 DEF BuildTypeOK
    <2>6. Shape' /\ Place' /\ filter' \in Seq(Verdicts) /\ job' # <<0, 0>>
      <3>1. step' \in 1 .. 4 /\ (pc' = "merge" => step' \in 1 .. 3) /\ (pc' = "reconcile" => step' = 4)
        BY <1>1, <2>1
      <3>2. Shape'
        BY <1>4, <2>1, <2>2 DEF Shape
      <3> QED
        BY <1>1, <1>4, <2>1, <2>2, <3>1, <3>2 DEF Place
    <2>7. PointersValid'
      <3>1. mem[p].params \in Seq(Param) /\ run.params \in Seq(Parts \X Nat)
        BY <1>1, <1>4, PartTyped DEF BuildTypeOK
      <3> DEFINE new == [i \in DOMAIN mem[p].params |-> <<p, i>>]
      <3>2. new \in Seq(Parts \X Nat) /\ DOMAIN new = DOMAIN mem[p].params
            /\ \A i \in DOMAIN new : new[i] = <<p, i>>
        <4>1. DOMAIN mem[p].params = 1 .. Len(mem[p].params) /\ Len(mem[p].params) \in Nat
          BY <3>1
        <4>2. DOMAIN new = DOMAIN mem[p].params /\ \A i \in DOMAIN new : new[i] = <<p, i>>
          OBVIOUS
        <4>3. new = [i \in 1 .. Len(mem[p].params) |-> new[i]]
          BY <4>1, <4>2
        <4>4. \A i \in 1 .. Len(mem[p].params) : new[i] \in Parts \X Nat
          BY <1>1, <4>1, <4>2
        <4> HIDE DEF new
        <4> QED
          BY <4>1, <4>2, <4>3, <4>4, SequenceOf
      <3>3. run'.params = run.params \o new
        BY <2>1 DEF Writes
      <3> HIDE DEF new
      <3>4. ASSUME NEW i \in DOMAIN run'.params
            PROVE  \/ i \in DOMAIN run.params /\ run'.params[i] = run.params[i]
                   \/ \E k \in DOMAIN new : run'.params[i] = new[k]
        <4>1. CASE i <= Len(run.params)
          BY <3>1, <3>2, <3>3, <3>4, <4>1
        <4>2. CASE i > Len(run.params)
          <5>1. i - Len(run.params) \in DOMAIN new
            BY <3>1, <3>2, <3>3, <3>4, <4>2
          <5>2. run'.params[i] = new[i - Len(run.params)]
            BY <3>1, <3>2, <3>3, <3>4, <4>2
          <5> QED
            BY <5>1, <5>2
        <4> QED
          BY <3>1, <3>2, <3>3, <4>1, <4>2
      <3>5. ASSUME NEW i \in DOMAIN run'.params
            PROVE  run'.params[i][2] \in DOMAIN mem'[run'.params[i][1]].params
        <4>1. CASE i \in DOMAIN run.params /\ run'.params[i] = run.params[i]
          <5>1. run.params[i][1] \in Parts
            BY <3>1, <4>1
          <5>2. mem'[run.params[i][1]].params = mem[run.params[i][1]].params
            BY <2>1, <5>1 DEF Writes
          <5>3. run.params[i][2] \in DOMAIN mem[run.params[i][1]].params
            BY <1>4, <4>1 DEF PointersValid
          <5> QED
            BY <4>1, <5>2, <5>3
        <4>2. CASE \E k \in DOMAIN new : run'.params[i] = new[k]
          <5>1. PICK k \in DOMAIN new : run'.params[i] = <<p, k>>
            BY <3>2, <4>2
          <5>2. k \in DOMAIN mem[p].params /\ mem'[p].params = mem[p].params
            BY <1>1, <2>1, <3>2 DEF Writes
          <5> QED
            BY <5>1, <5>2
        <4> QED
          BY <3>4, <3>5, <4>1, <4>2
      <3> QED
        BY <3>5 DEF PointersValid
    <2> QED
      BY <2>5, <2>6, <2>7 DEF BuildInv
  <1> QED
    BY <1>5, <1>6

-----------------------------------------------------------------------------
(* A filter keeps the types and the shape.                                 *)
LEMMA MatchKeepsInv ==
  ASSUME BuildInv, Match, mode' = mode
  PROVE  BuildInv'
  <1>1. /\ BuildTypeOK /\ filter \in Seq(Verdicts) /\ Shape /\ job[1] > 0 /\ job[2] = 0
        /\ job # <<0, 0>> /\ outcome = "open" /\ PointersValid /\ job \in Nat \X Nat
    BY DEF BuildInv, BuildTypeOK, Match, Place
  <1>2. UNCHANGED <<filter, orig, mem, built>> /\ Parts' = Parts
    BY DEF Match, Parts
  <1>3. \/ /\ UNCHANGED <<job, step, run>> /\ pc' = "end" /\ outcome' \in {"OK", "error"}
        \/ /\ step' = 1 /\ run' = EmptyRun /\ outcome' = outcome
           /\ \/ job' = <<job[1], 1>> /\ pc' = "merge" /\ <<job[1], 1>> \in Parts
              \/ job' = <<job[1] + 1, 0>> /\ pc' = "filter"
    BY DEF Match, Finish
  <1>4. EmptyRun \in [timeouts : Parts \cup {None}, label : Label, items : Seq(Item),
                      array : Parts \cup {None}, room : Nat, bare : BOOLEAN,
                      params : Seq(Parts \X Nat)]
        /\ EmptyRun.params = <<>>
    <2>1. <<>> \in Seq(Item) /\ <<>> \in Seq(Parts \X Nat)
      OBVIOUS
    <2> QED
      BY <2>1 DEF EmptyRun, Label
  <1>5. CASE /\ UNCHANGED <<job, step, run>> /\ pc' = "end" /\ outcome' \in {"OK", "error"}
    BY <1>1, <1>2, <1>5 DEF BuildInv, BuildTypeOK, Shape, Place, PointersValid
  <1>6. CASE /\ step' = 1 /\ run' = EmptyRun /\ outcome' = outcome
             /\ \/ job' = <<job[1], 1>> /\ pc' = "merge" /\ <<job[1], 1>> \in Parts
                \/ job' = <<job[1] + 1, 0>> /\ pc' = "filter"
    <2>1. BuildTypeOK'
      BY <1>1, <1>2, <1>4, <1>6 DEF BuildTypeOK
    <2>2. PointersValid'
      BY <1>4, <1>6 DEF PointersValid
    <2>3. job' # <<0, 0>> /\ Place'
      BY <1>1, <1>2, <1>6 DEF Place
    <2>4. Shape' /\ filter' \in Seq(Verdicts)
      BY <1>1, <1>2 DEF Shape
    <2> QED
      BY <2>1, <2>2, <2>3, <2>4 DEF BuildInv
  <1> QED
    BY <1>3, <1>5, <1>6

(* The run points to parameters that are there.                            *)
LEMMA PointedValue ==
  ASSUME BuildInv, NEW i \in DOMAIN run.params
  PROVE  /\ run.params[i] \in Parts \X Nat /\ run.params \in Seq(Parts \X Nat)
         /\ Value(run.params[i]) \in Param
  <1>1. run.params \in Seq(Parts \X Nat)
    BY DEF BuildInv, BuildTypeOK
  <1>2. run.params[i] \in Parts \X Nat
    BY <1>1
  <1>3. mem[run.params[i][1]].params \in Seq(Param)
    BY <1>2, PartTyped
  <1>4. run.params[i][2] \in DOMAIN mem[run.params[i][1]].params
    BY DEF BuildInv, PointersValid
  <1> QED
    BY <1>1, <1>2, <1>3, <1>4 DEF Value

(* A value that evaluates has a value.                                     *)
LEMMA EvaluatedType ==
  ASSUME NEW v \in ParamValue, mode = "trigger" => Evaluates(v), mode \in {"trigger", "validator"}
  PROVE  Evaluated(v) \in ParamValue
  <1>1. CASE mode = "validator"
    BY <1>1 DEF Evaluated
  <1>2. CASE mode = "trigger"
    BY <1>2 DEF Evaluated, Evaluates, SafeValueOf, ParamValue
  <1> QED
    BY <1>1, <1>2

(* Evaluation keeps a parameter's name and says what its value becomes.    *)
LEMMA ResolvedType ==
  ASSUME NEW q \in Param, mode \in {"trigger", "validator"}
  PROVE  /\ Resolved(q) = [name |-> q.name, val |-> Evaluated(q.val)]
         /\ (mode = "trigger" => Evaluates(q.val)) => Resolved(q) \in Param
  <1>1. q.name \in Names /\ q.val \in ParamValue /\ q = [name |-> q.name, val |-> q.val]
    BY DEF Param
  <1>2. Resolved(q) = [name |-> q.name, val |-> Evaluated(q.val)]
    BY <1>1 DEF Resolved
  <1>3. ASSUME mode = "trigger" => Evaluates(q.val) PROVE Resolved(q) \in Param
    <2>1. Evaluated(q.val) \in ParamValue
      BY <1>1, <1>3, EvaluatedType
    <2> QED
      BY <1>1, <1>2, <2>1 DEF Param
  <1> QED
    BY <1>2, <1>3

(* What a reconciliation does: a value fails, or the values are written and*)
(* the PipelineRun is finished.                                            *)
Fails == mode = "trigger" /\ Unresolved
Finished ==
  [job |-> job,
   timeouts |-> IF run.timeouts = None THEN None ELSE mem[run.timeouts].timeouts,
   label |-> IF run.label = None THEN None ELSE Evaluated(run.label),
   items |-> run.items,
   params |-> [i \in DOMAIN run.params |-> Resolved(Value(run.params[i]))]]
Following ==
  IF <<job[1], job[2] + 1>> \in Parts
    THEN job' = <<job[1], job[2] + 1>> /\ pc' = "merge"
    ELSE job' = <<job[1] + 1, 0>> /\ pc' = "filter"
WritesValues ==
  /\ DOMAIN mem' = Parts
  /\ \A q \in Parts :
       /\ mem'[q].timeouts = mem[q].timeouts /\ mem'[q].items = mem[q].items
       /\ mem'[q].spare = mem[q].spare /\ mem'[q].bare = mem[q].bare
       /\ mem'[q].params \in Seq(Param) /\ mem'[q].label = mem[q].label
       /\ DOMAIN mem'[q].params = DOMAIN mem[q].params
       /\ \A i \in DOMAIN mem[q].params :
            mem'[q].params[i] = IF Pointed(<<q, i>>) THEN Resolved(mem[q].params[i])
                                ELSE mem[q].params[i]

(* Where a reconciliation happens, and what it does.                       *)
LEMMA ReconcileDoes ==
  ASSUME BuildInv, Reconcile
  PROVE  /\ pc = "reconcile" /\ step = 4 /\ job \in Parts /\ job # <<0, 0>>
         /\ outcome = "open" /\ UNCHANGED <<filter, orig>>
         /\ IF Fails THEN pc' = "end" /\ outcome' = "error" /\ UNCHANGED <<mem, job, step, run, built>>
            ELSE /\ WritesValues /\ built' = Append(built, Finished) /\ Following
                 /\ step' = 1 /\ run' = EmptyRun /\ outcome' = outcome
                 /\ mem' \in [Parts -> Content]
  <1>1. /\ pc = "reconcile" /\ step = 4 /\ job \in Parts /\ job # <<0, 0>>
        /\ outcome = "open" /\ UNCHANGED <<filter, orig>>
    BY DEF Reconcile, BuildInv, Place
  <1>2. CASE Fails
    BY <1>1, <1>2 DEF Reconcile, Fails, Finish
  <1>3. CASE ~ Fails
    <2>1. /\ built' = Append(built, Finished) /\ Following
          /\ step' = 1 /\ run' = EmptyRun /\ outcome' = outcome
      BY <1>3 DEF Reconcile, Fails, Finished, Following
    <2> DEFINE written(p) == [i \in DOMAIN mem[p].params |->
                                IF Pointed(<<p, i>>) THEN Resolved(mem[p].params[i])
                                ELSE mem[p].params[i]]
    <2>2. mem' = [p \in Parts |-> [mem[p] EXCEPT !.params = written(p)]]
      BY <1>3 DEF Reconcile, Fails
    <2>3. ASSUME NEW q \in Parts PROVE written(q) \in Seq(Param)
      <3>1. mem[q].params \in Seq(Param)
        BY PartTyped
      <3>2. ASSUME NEW i \in DOMAIN mem[q].params, Pointed(<<q, i>>)
            PROVE  Resolved(mem[q].params[i]) \in Param
        <4>1. PICK k \in DOMAIN run.params : run.params[k] = <<q, i>>
          BY <3>2 DEF Pointed
        <4>2. Value(run.params[k]) = mem[q].params[i]
          BY <4>1 DEF Value
        <4>3. mode \in {"trigger", "validator"}
          BY DEF BuildInv, BuildTypeOK
        <4>4. mode = "trigger" => Evaluates(mem[q].params[i].val)
          BY <1>3, <4>2 DEF Fails, Unresolved
        <4>5. mem[q].params[i] \in Param
          BY <3>1, <3>2
        <4> QED
          BY <4>3, <4>4, <4>5, ResolvedType
      <3>3. \A i \in DOMAIN mem[q].params : written(q)[i] \in Param
        BY <3>1, <3>2
      <3>4. DOMAIN mem[q].params = 1 .. Len(mem[q].params) /\ Len(mem[q].params) \in Nat
            /\ DOMAIN written(q) = DOMAIN mem[q].params
        BY <3>1
      <3>5. PICK w : w = written(q)
        OBVIOUS
      <3>6. w = [i \in 1 .. Len(mem[q].params) |-> w[i]]
        BY <3>4, <3>5
      <3>7. \A i \in 1 .. Len(mem[q].params) : w[i] \in Param
        BY <3>3, <3>4, <3>5
      <3>8. PICK n \in Nat : n = Len(mem[q].params)
        BY <3>4
      <3>9. w = [i \in 1 .. n |-> w[i]] /\ \A i \in 1 .. n : w[i] \in Param
        BY <3>6, <3>7, <3>8
      <3> HIDE DEF written
      <3>10. w \in Seq(Param)
        BY <3>9
      <3> QED
        BY <3>5, <3>10
    <2>4. ASSUME NEW q \in Parts
          PROVE  /\ mem'[q] \in Content
                 /\ mem'[q].timeouts = mem[q].timeouts /\ mem'[q].items = mem[q].items
                 /\ mem'[q].spare = mem[q].spare /\ mem'[q].bare = mem[q].bare
                 /\ mem'[q].params \in Seq(Param) /\ mem'[q].label = mem[q].label
                 /\ DOMAIN mem'[q].params = DOMAIN mem[q].params
                 /\ \A i \in DOMAIN mem[q].params :
                      mem'[q].params[i] = IF Pointed(<<q, i>>) THEN Resolved(mem[q].params[i])
                                          ELSE mem[q].params[i]
      <3>1. mem[q] \in Content /\ mem'[q] = [mem[q] EXCEPT !.params = written(q)]
            /\ written(q) \in Seq(Param)
        BY <2>2, <2>3, PartTyped
      <3>2. PICK w : w = written(q)
        OBVIOUS
      <3>5. /\ DOMAIN w = DOMAIN mem[q].params
            /\ \A i \in DOMAIN mem[q].params :
                 w[i] = IF Pointed(<<q, i>>) THEN Resolved(mem[q].params[i])
                        ELSE mem[q].params[i]
        BY <3>2
      <3> HIDE DEF written
      <3>3. mem[q] \in Content /\ mem'[q] = [mem[q] EXCEPT !.params = w] /\ w \in Seq(Param)
        BY <3>1, <3>2
      <3>4. /\ mem'[q] \in Content
            /\ mem'[q].timeouts = mem[q].timeouts /\ mem'[q].items = mem[q].items
            /\ mem'[q].spare = mem[q].spare /\ mem'[q].bare = mem[q].bare
            /\ mem'[q].params = w /\ mem'[q].label = mem[q].label
        BY <3>3 DEF Content
      <3> QED
        BY <3>1, <3>2, <3>4, <3>5
    <2> HIDE DEF written
    <2>7. DOMAIN mem' = Parts
      BY <2>2
    <2>5. WritesValues
      BY <2>4, <2>7 DEF WritesValues
    <2>6. mem' \in [Parts -> Content]
      <3>1. mem' = [q \in Parts |-> mem'[q]]
        BY <2>2
      <3> QED
        BY <2>4, <3>1
    <2> QED
      BY <1>1, <1>3, <2>1, <2>5, <2>6
  <1> QED
    BY <1>2, <1>3

(* The PipelineRun that is handed out is one.                              *)
LEMMA FinishedType ==
  ASSUME BuildInv, pc = "reconcile", ~ Fails
  PROVE  Finished \in [job : Parts, timeouts : Source \cup {None}, label : Label,
                       items : Seq(Item), params : Seq(Param)]
  <1>1. /\ job \in Parts /\ run.items \in Seq(Item) /\ run.timeouts \in Parts \cup {None}
        /\ run.params \in Seq(Parts \X Nat)
    BY DEF BuildInv, BuildTypeOK, Place
  <1>2. (IF run.timeouts = None THEN None ELSE mem[run.timeouts].timeouts) \in Source \cup {None}
    BY <1>1, PartTyped
  <1> DEFINE values == [i \in DOMAIN run.params |-> Resolved(Value(run.params[i]))]
  <1>3. ASSUME NEW i \in DOMAIN run.params PROVE values[i] \in Param
    <2>1. mode \in {"trigger", "validator"} /\ Value(run.params[i]) \in Param
      BY PointedValue DEF BuildInv, BuildTypeOK
    <2>2. mode = "trigger" => Evaluates(Value(run.params[i]).val)
      BY DEF Fails, Unresolved
    <2> QED
      BY <2>1, <2>2, ResolvedType
  <1>4. DOMAIN run.params = 1 .. Len(run.params) /\ Len(run.params) \in Nat
    BY <1>1
  <1>5. values = [i \in 1 .. Len(run.params) |-> values[i]]
    BY <1>4
  <1> HIDE DEF values
  <1>6. values \in Seq(Param)
    <2>1. \A i \in 1 .. Len(run.params) : values[i] \in Param
      BY <1>3, <1>4
    <2> QED
      BY <1>4, <1>5, <2>1, SequenceOf
  <1>7. (IF run.label = None THEN None ELSE Evaluated(run.label)) \in Label
    <2>1. run.label \in Label /\ mode \in {"trigger", "validator"}
      BY DEF BuildInv, BuildTypeOK
    <2>2. CASE run.label = None
      BY <2>2 DEF Label
    <2>3. CASE run.label # None
      <3>1. run.label \in ParamValue
        BY <2>1, <2>3 DEF Label
      <3>2. mode = "trigger" => Evaluates(run.label)
        BY <2>3 DEF Fails, Unresolved
      <3>3. Evaluated(run.label) \in ParamValue
        BY <2>1, <3>1, <3>2, EvaluatedType
      <3> QED
        BY <2>3, <3>3 DEF Label
    <2> QED
      BY <2>2, <2>3
  <1> QED
    BY <1>1, <1>2, <1>6, <1>7 DEF Finished, values

(* A reconciliation keeps the types and the shape.                         *)
LEMMA ReconcileKeepsInv ==
  ASSUME BuildInv, Reconcile, mode' = mode
  PROVE  BuildInv'
  <1>1. /\ pc = "reconcile" /\ step = 4 /\ job \in Parts /\ job # <<0, 0>>
        /\ outcome = "open" /\ UNCHANGED <<filter, orig>>
    BY ReconcileDoes
  <1>2. BuildTypeOK /\ filter \in Seq(Verdicts) /\ Shape /\ Place /\ PointersValid
    BY <1>1 DEF BuildInv
  <1>3. CASE Fails
    <2>1. pc' = "end" /\ outcome' = "error" /\ UNCHANGED <<mem, job, step, run, built>>
      BY <1>3, ReconcileDoes
    <2> QED
      BY <1>1, <1>2, <2>1 DEF BuildInv, BuildTypeOK, Shape, Place, PointersValid, Parts
  <1>4. CASE ~ Fails
    <2>1. /\ WritesValues /\ built' = Append(built, Finished) /\ Following
          /\ step' = 1 /\ run' = EmptyRun /\ outcome' = outcome
          /\ mem' \in [Parts -> Content]
      BY <1>4, ReconcileDoes
    <2>2. Parts' = Parts
      BY <2>1 DEF WritesValues, Parts
    <2>3. built' \in Seq([job : Parts, timeouts : Source \cup {None}, label : Label,
                          items : Seq(Item), params : Seq(Param)])
      BY <1>1, <1>2, <1>4, <2>1, FinishedType DEF BuildTypeOK
    <2>4. EmptyRun \in [timeouts : Parts \cup {None}, label : Label, items : Seq(Item),
                        array : Parts \cup {None}, room : Nat, bare : BOOLEAN,
                        params : Seq(Parts \X Nat)]
          /\ EmptyRun.params = <<>>
      <3>1. <<>> \in Seq(Item) /\ <<>> \in Seq(Parts \X Nat)
        OBVIOUS
      <3> QED
        BY <3>1 DEF EmptyRun, Label
    <2>5. job \in Nat \X Nat
      BY <1>2 DEF BuildTypeOK
    <2>6. job' \in Nat \X Nat /\ job' # <<0, 0>> /\ Place'
      <3>1. job[1] > 0 /\ job[2] > 0
        BY <1>1, <1>2 DEF Place
      <3>2. \/ /\ job' = <<job[1], job[2] + 1>> /\ pc' = "merge"
               /\ <<job[1], job[2] + 1>> \in Parts
            \/ job' = <<job[1] + 1, 0>> /\ pc' = "filter"
        BY <2>1 DEF Following
      <3>3. PICK t \in Nat, k \in Nat : job = <<t, k>>
        BY <2>5
      <3>4. CASE job' = <<t, k + 1>> /\ pc' = "merge" /\ <<t, k + 1>> \in Parts
        <4>1. t > 0 /\ k + 1 > 0 /\ job' \in Nat \X Nat /\ job' # <<0, 0>>
          BY <3>1, <3>3, <3>4
        <4> QED
          BY <1>1, <2>1, <2>2, <3>4, <4>1 DEF Place
      <3>5. CASE job' = <<t + 1, 0>> /\ pc' = "filter"
        <4>1. t + 1 > 0 /\ job' \in Nat \X Nat /\ job' # <<0, 0>>
          BY <3>5
        <4> QED
          BY <1>1, <2>1, <3>5, <4>1 DEF Place
      <3> QED
        BY <3>2, <3>3, <3>4, <3>5
    <2>7. BuildTypeOK'
      <3>1. /\ mode' \in {"trigger", "validator"} /\ orig' \in [Parts' -> Content]
            /\ mem' \in [Parts' -> Content] /\ step' \in 1 .. 4
            /\ outcome' \in {"open", "OK", "error", "panic"}
        BY <1>1, <1>2, <2>1, <2>2 DEF BuildTypeOK
      <3> QED
        BY <2>1, <2>2, <2>3, <2>4, <2>6, <3>1 DEF BuildTypeOK
    <2>8. PointersValid' /\ Shape' /\ filter' \in Seq(Verdicts)
      BY <1>1, <1>2, <2>1, <2>2, <2>4 DEF PointersValid, Shape
    <2> QED
      BY <2>6, <2>7, <2>8 DEF BuildInv
  <1> QED
    BY <1>3, <1>4

(* So does every step of a build.                                          *)
LEMMA BuildKeepsInv ==
  ASSUME BuildInv, Build, mode' = mode
  PROVE  BuildInv'
  BY MatchKeepsInv, MergeKeepsInv, ReconcileKeepsInv DEF Build

-----------------------------------------------------------------------------
(* The values in a slice with each name once, and in a merge of two.       *)
LEMMA ValueAt ==
  ASSUME NEW items, Distinct(items), NEW k \in DOMAIN items
  PROVE  ValueIn(items, items[k].name) = items[k].val
  <1> DEFINE at == {i \in DOMAIN items : items[i].name = items[k].name}
  <1>1. at = {k}
    BY DEF Distinct
  <1>2. (CHOOSE i \in at : TRUE) = k
    BY <1>1
  <1>3. ValueIn(items, items[k].name) =
          IF at = {} THEN None ELSE items[CHOOSE i \in at : TRUE].val
    BY DEF ValueIn
  <1> QED
    BY <1>1, <1>2, <1>3

(* A name that is not there has no value.                                  *)
LEMMA NoValue ==
  ASSUME NEW items, NEW n, n \notin NamesIn(items)
  PROVE  ValueIn(items, n) = None
  <1>1. {i \in DOMAIN items : items[i].name = n} = {}
    BY DEF NamesIn
  <1> QED
    BY <1>1 DEF ValueIn

(* A name that is there is somewhere.                                      *)
LEMMA NameAt ==
  ASSUME NEW items, NEW n \in NamesIn(items)
  PROVE  \E k \in DOMAIN items : items[k].name = n
  BY DEF NamesIn

(* The last of two.                                                        *)
LEMMA LastOfTwo ==
  ASSUME NEW a, NEW b
  PROVE  LastGiven(<<a, b>>) = Later(a, b)
  <1> DEFINE vals == <<a, b>>
             given == {i \in DOMAIN vals : vals[i] # None}
             last == CHOOSE i \in given : \A j \in given : j <= i
  <1>1. LastGiven(vals) = IF given = {} THEN None ELSE vals[last]
    BY DEF LastGiven
  <1>2. DOMAIN vals = {1, 2} /\ vals[1] = a /\ vals[2] = b
    OBVIOUS
  <1>3. CASE b # None
    <2>1. 2 \in given /\ \A i \in given : i = 1 \/ i = 2
      BY <1>2, <1>3
    <2>2. \A i \in given : (\A j \in given : j <= i) => i = 2
      BY <2>1
    <2>3. \A j \in given : j <= 2
      BY <2>1
    <2> HIDE DEF given
    <2>4. last = 2
      BY <2>1, <2>2, <2>3
    <2> HIDE DEF vals, last
    <2> QED
      BY <1>1, <1>2, <1>3, <2>1, <2>4 DEF Later, vals
  <1>4. CASE b = None /\ a # None
    <2>1. given = {1}
      BY <1>2, <1>4
    <2>2. last = 1
      BY <2>1
    <2> HIDE DEF given, last
    <2> QED
      BY <1>1, <1>2, <1>4, <2>1, <2>2 DEF Later
  <1>5. CASE b = None /\ a = None
    <2>1. given = {}
      BY <1>2, <1>5
    <2> QED
      BY <1>1, <1>5, <2>1 DEF Later
  <1> QED
    BY <1>3, <1>4, <1>5

(* After a merge a name has the value src gives, or else that of dst.      *)
LEMMA MergedValues ==
  ASSUME NEW dst \in Seq(Item), NEW src \in Seq(Item), NEW res \in Seq(Item),
         Distinct(dst), Distinct(src), IsMerge(dst, src, res), NEW n
  PROVE  ValueIn(res, n) = Later(ValueIn(dst, n), ValueIn(src, n))
  <1>1. Distinct(res) /\ NamesIn(res) = NamesIn(dst) \cup NamesIn(src)
    BY DEF IsMerge
  <1>2. /\ DOMAIN dst = 1 .. Len(dst) /\ DOMAIN res = 1 .. Len(res)
        /\ Len(dst) <= Len(res) /\ Len(dst) \in Nat /\ Len(res) \in Nat
    BY DEF IsMerge
  <1>3. CASE n \notin NamesIn(res)
    BY <1>1, <1>3, NoValue DEF Later
  <1>4. CASE n \in NamesIn(dst)
    <2>1. PICK k \in DOMAIN dst : dst[k].name = n
      BY <1>4, NameAt
    <2>2. k \in DOMAIN res /\ res[k].name = n
      BY <1>2, <2>1 DEF IsMerge
    <2>3. ValueIn(res, n) = res[k].val /\ ValueIn(dst, n) = dst[k].val
      BY <1>1, <2>1, <2>2, ValueAt
    <2>4. CASE n \in NamesIn(src)
      <3>1. PICK j \in DOMAIN src : src[j].name = n
        BY <2>4, NameAt
      <3>2. ValueIn(src, n) = src[j].val
        BY <3>1, ValueAt
      <3>3. res[k] = merge(dst[k], src[j])
        BY <2>1, <3>1 DEF IsMerge
      <3>4. dst[k] \in Item /\ src[j] \in Item
        BY <2>1, <3>1
      <3>5. res[k].val = IF src[j].val = None THEN dst[k].val ELSE src[j].val
        BY <3>3, <3>4, ItemMerged
      <3> QED
        BY <2>3, <3>2, <3>5 DEF Later
    <2>5. CASE n \notin NamesIn(src)
      <3>1. res[k] = dst[k] /\ ValueIn(src, n) = None
        BY <2>1, <2>5, NoValue DEF IsMerge
      <3> QED
        BY <2>3, <3>1 DEF Later
    <2> QED
      BY <2>4, <2>5
  <1>5. CASE n \in NamesIn(src) /\ n \notin NamesIn(dst)
    <2>1. PICK k \in DOMAIN res : res[k].name = n
      BY <1>1, <1>5, NameAt
    <2>2. k > Len(dst)
      <3>1. ASSUME k \in DOMAIN dst PROVE FALSE
        <4>1. dst[k].name = n
          BY <2>1, <3>1 DEF IsMerge
        <4> QED
          BY <1>5, <3>1, <4>1 DEF NamesIn
      <3> QED
        BY <1>2, <2>1, <3>1
    <2>3. PICK j \in DOMAIN src : res[k] = src[j]
      BY <2>1, <2>2 DEF IsMerge
    <2>4. ValueIn(res, n) = res[k].val /\ ValueIn(src, n) = src[j].val
      BY <1>1, <2>1, <2>3, ValueAt
    <2> QED
      BY <1>5, <2>3, <2>4, NoValue DEF Later
  <1> QED
    BY <1>1, <1>3, <1>4, <1>5

(* Nothing merged with a slice is that slice.                              *)
LEMMA MergedWithNothing ==
  ASSUME NEW E, NEW src \in Seq(E), Distinct(src)
  PROVE  IsMerge(<<>>, src, src) /\ Distinct(<<>>) /\ <<>> \in Seq(E) /\ NamesIn(<<>>) = {}
  <1>1. Len(<<>>) = 0 /\ DOMAIN <<>> = {} /\ NamesIn(<<>>) = {} /\ <<>> \in Seq(E)
        /\ Len(src) \in Nat
    BY DEF NamesIn
  <1>2. 0 <= Len(src) /\ NamesIn(src) = NamesIn(<<>>) \cup NamesIn(src)
    BY <1>1
  <1>3. \A k \in DOMAIN src : src[k] = src[k] /\ src[k].name \notin NamesIn(<<>>)
    BY <1>1
  <1>4. Distinct(<<>>)
    BY <1>1 DEF Distinct
  <1> QED
    BY <1>1, <1>2, <1>3, <1>4 DEF IsMerge

-----------------------------------------------------------------------------
(* The elements of two sequences one after the other.                      *)
Holds(s, e) == \E i \in DOMAIN s : s[i] = e

(* Two sequences one after the other hold what each of them holds.         *)
LEMMA Concatenated ==
  ASSUME NEW S, NEW a \in Seq(S), NEW b \in Seq(S), NEW e
  PROVE  Holds(a \o b, e) <=> Holds(a, e) \/ Holds(b, e)
  <1>1. /\ Len(a) \in Nat /\ Len(b) \in Nat /\ DOMAIN a = 1 .. Len(a) /\ DOMAIN b = 1 .. Len(b)
        /\ DOMAIN (a \o b) = 1 .. Len(a) + Len(b)
    OBVIOUS
  <1>2. ASSUME NEW i \in DOMAIN a PROVE i \in DOMAIN (a \o b) /\ (a \o b)[i] = a[i]
    BY <1>1
  <1>3. ASSUME NEW i \in DOMAIN b
        PROVE  Len(a) + i \in DOMAIN (a \o b) /\ (a \o b)[Len(a) + i] = b[i]
    BY <1>1
  <1>4. ASSUME NEW i \in DOMAIN (a \o b), i \notin DOMAIN a
        PROVE  i - Len(a) \in DOMAIN b /\ (a \o b)[i] = b[i - Len(a)]
    BY <1>1, <1>4
  <1> QED
    BY <1>2, <1>3, <1>4 DEF Holds

-----------------------------------------------------------------------------
(* The pipelines that come before one.                                     *)
Done(j) == {k \in Jobs : Before(k, j)}

(* A pipeline to build is a part of a trigger that matches.                *)
LEMMA JobsTyped ==
  ASSUME BuildInv, job # <<0, 0>>, NEW k \in Jobs
  PROVE  /\ k \in Parts /\ k \in Nat \X Nat /\ k[1] \in DOMAIN filter /\ k[1] > 0 /\ k[2] > 0
         /\ mode = "validator" \/ filter[k[1]] = "yes"
         /\ k = <<k[1], k[2]>> /\ DOMAIN filter = 1 .. Len(filter) /\ Len(filter) \in Nat
  <1>1. k \in Parts /\ k[1] > 0 /\ k[2] > 0 /\ (mode = "validator" \/ filter[k[1]] = "yes")
    BY DEF Jobs
  <1>2. Shape /\ filter \in Seq(Verdicts)
    BY DEF BuildInv
  <1>3. k = <<0, 0>> \/ k \in (DOMAIN filter) \X Nat
    BY <1>1, <1>2 DEF Shape
  <1>4. DOMAIN filter = 1 .. Len(filter) /\ Len(filter) \in Nat
    BY <1>2
  <1> QED
    BY <1>1, <1>3, <1>4

(* No step changes which pipelines are to be built.                        *)
LEMMA StepKeepsJobs ==
  ASSUME BuildInv, Build, mode' = mode
  PROVE  Parts' = Parts /\ UNCHANGED <<filter, orig>> /\ Jobs' = Jobs
  <1>1. Parts' = Parts /\ UNCHANGED <<filter, orig>>
    <2>1. CASE Match
      BY <2>1 DEF Match, Parts
    <2>2. CASE Merge
      BY <2>2, MergeDoes DEF MergesTo, Writes, Parts
    <2>3. CASE Reconcile
      BY <2>3, ReconcileDoes DEF WritesValues, Parts
    <2> QED
      BY <2>1, <2>2, <2>3 DEF Build
  <1> QED
    BY <1>1 DEF Jobs

(* A filter passes over no pipeline to build.                              *)
LEMMA MatchDone ==
  ASSUME BuildInv, Match, mode' = mode
  PROVE  /\ \A k \in Jobs : Before(k, job') <=> Before(k, job)
         /\ pc' = "merge" => job' \in Jobs
  <1>1. /\ job \in Nat \X Nat /\ job[1] > 0 /\ job[2] = 0 /\ Shape /\ job # <<0, 0>>
        /\ filter \in Seq(Verdicts) /\ mode \in {"trigger", "validator"}
    BY DEF BuildInv, BuildTypeOK, Match, Place
  <1>2. CASE job' = job /\ pc' = "end"
    BY <1>2
  <1>3. CASE job' = <<job[1], 1>> /\ pc' = "merge"
    <2>1. Verdict(job[1]) = "yes" /\ <<job[1], 1>> \in Parts
      BY <1>3 DEF Match, Finish
    <2>2. job' \in Jobs
      BY <1>1, <1>3, <2>1 DEF Jobs, Verdict
    <2>3. ASSUME NEW k \in Jobs PROVE Before(k, job') <=> Before(k, job)
      <3>1. k \in Nat \X Nat /\ k[2] > 0
        BY <1>1, JobsTyped
      <3> QED
        BY <1>1, <1>3, <3>1 DEF Before
    <2> QED
      BY <2>2, <2>3
  <1>4. CASE job' = <<job[1] + 1, 0>> /\ pc' = "filter"
    <2>1. Verdict(job[1]) # "yes" \/ <<job[1], 1>> \notin Parts
      BY <1>1, <1>4 DEF Match, Finish
    <2>2. ASSUME NEW k \in Jobs PROVE Before(k, job') <=> Before(k, job)
      <3>1. /\ k \in Nat \X Nat /\ k[2] > 0 /\ k \in Parts
            /\ mode = "validator" \/ filter[k[1]] = "yes"
        BY <1>1, JobsTyped
      <3>2. k[1] # job[1]
        <4>1. ASSUME k[1] = job[1] PROVE FALSE
          <5>1. <<k[1], 1>> \in Parts
            BY <1>1, <3>1 DEF Shape
          <5>2. Verdict(job[1]) = "yes"
            BY <3>1, <4>1 DEF Verdict
          <5> QED
            BY <2>1, <4>1, <5>1, <5>2
        <4> QED
          BY <4>1
      <3> QED
        BY <1>1, <1>4, <3>1, <3>2 DEF Before
    <2> QED
      BY <1>4, <2>2
  <1>5. \/ job' = job /\ pc' = "end"
        \/ job' = <<job[1], 1>> /\ pc' = "merge"
        \/ job' = <<job[1] + 1, 0>> /\ pc' = "filter"
    BY DEF Match, Finish
  <1> QED
    BY <1>2, <1>3, <1>4, <1>5

(* A reconciliation finishes the current pipeline and passes over no       *)
(* other.                                                                  *)
LEMMA ReconcileDone ==
  ASSUME BuildInv, Reconcile, ~ Fails, job \in Jobs
  PROVE  /\ \A k \in Jobs : Before(k, job') <=> Before(k, job) \/ k = job
         /\ pc' = "merge" => job' \in Jobs
         /\ ~ Before(job, job)
  <1>1. Following /\ job # <<0, 0>>
    BY ReconcileDoes
  <1>2. /\ job \in Nat \X Nat /\ job[1] > 0 /\ job[2] > 0 /\ Shape
        /\ job = <<job[1], job[2]>>
        /\ mode = "validator" \/ filter[job[1]] = "yes"
    BY <1>1, JobsTyped DEF BuildInv
  <1>3. ASSUME NEW k \in Jobs
        PROVE  k \in Nat \X Nat /\ k[2] > 0 /\ k \in Parts /\ k = <<k[1], k[2]>>
    BY <1>1, JobsTyped
  <1>4. CASE <<job[1], job[2] + 1>> \in Parts
    <2>1. job' = <<job[1], job[2] + 1>>
      BY <1>1, <1>4 DEF Following
    <2>2. job' \in Jobs
      BY <1>2, <1>4, <2>1 DEF Jobs
    <2>3. ASSUME NEW k \in Jobs PROVE Before(k, job') <=> Before(k, job) \/ k = job
      <3>1. /\ k[1] \in Nat /\ k[2] \in Nat /\ job[1] \in Nat /\ job[2] \in Nat
            /\ k = job <=> k[1] = job[1] /\ k[2] = job[2]
        BY <1>2, <1>3
      <3> QED
        BY <2>1, <3>1 DEF Before
    <2> QED
      BY <1>2, <2>2, <2>3 DEF Before
  <1>5. CASE <<job[1], job[2] + 1>> \notin Parts
    <2>1. job' = <<job[1] + 1, 0>> /\ pc' = "filter"
      BY <1>1, <1>5 DEF Following
    <2>2. ASSUME NEW k \in Jobs PROVE Before(k, job') <=> Before(k, job) \/ k = job
      <3>1. /\ k[1] \in Nat /\ k[2] \in Nat /\ job[1] \in Nat /\ job[2] \in Nat
            /\ k = job <=> k[1] = job[1] /\ k[2] = job[2]
        BY <1>2, <1>3
      <3>2. k[1] = job[1] => k[2] <= job[2]
        <4>1. ASSUME k[1] = job[1], job[2] + 1 <= k[2] PROVE FALSE
          <5>1. <<k[1], job[2] + 1>> \in Parts
            BY <1>2, <1>3, <3>1, <4>1 DEF Shape
          <5> QED
            BY <1>5, <4>1, <5>1
        <4> QED
          BY <3>1, <4>1
      <3> QED
        BY <2>1, <3>1, <3>2 DEF Before
    <2> QED
      BY <1>2, <2>1, <2>2 DEF Before
  <1> QED
    BY <1>4, <1>5

(* After the last trigger every pipeline has been built.                   *)
LEMMA AllDone ==
  ASSUME BuildInv, job # <<0, 0>>, job[1] > Len(filter), NEW k \in Jobs
  PROVE  Before(k, job)
  <1>1. k[1] \in DOMAIN filter /\ DOMAIN filter = 1 .. Len(filter) /\ Len(filter) \in Nat
    BY JobsTyped
  <1>2. job \in Nat \X Nat
    BY DEF BuildInv, BuildTypeOK
  <1> QED
    BY <1>1, <1>2 DEF Before

-----------------------------------------------------------------------------
(* Of what the sources of a pipeline give, the last before the n-th.       *)
Given(f, n) ==
  IF n = 1 THEN None
  ELSE IF n = 2 THEN f[1]
  ELSE IF n = 3 THEN Later(f[1], f[2])
  ELSE Later(Later(f[1], f[2]), f[3])
LabelsOf(o, j) == [i \in 1 .. 3 |-> o[Sources(j)[i]].label]

(* The last value given so far, one source on.                             *)
LEMMA GivenGrows ==
  ASSUME NEW f, NEW n \in 1 .. 3, NEW k, k = n + 1
  PROVE  /\ Given(f, 1) = None
         /\ Given(f, k) = Later(Given(f, n), f[n])
         /\ (\A i \in 1 .. n - 1 : f[i] = None) => Given(f, n) = None
  <1>1. n = 1 \/ n = 2 \/ n = 3
    OBVIOUS
  <1>2. CASE n = 1
    BY <1>2 DEF Given, Later
  <1>3. CASE n = 2
    <2>1. k = 3 /\ Given(f, 2) = f[1] /\ Given(f, 3) = Later(f[1], f[2]) /\ 1 \in 1 .. n - 1
      BY <1>3 DEF Given
    <2> QED
      BY <1>3, <2>1 DEF Given
  <1>4. CASE n = 3
    <2>1. /\ k = 4 /\ Given(f, 3) = Later(f[1], f[2]) /\ Given(f, 4) = Later(Later(f[1], f[2]), f[3])
          /\ 1 \in 1 .. n - 1 /\ 2 \in 1 .. n - 1
      BY <1>4 DEF Given
    <2>2. f[1] = None /\ f[2] = None => Later(f[1], f[2]) = None
      BY DEF Later
    <2> QED
      BY <1>4, <2>1, <2>2 DEF Given
  <1> QED
    BY <1>1, <1>2, <1>3, <1>4

(* The last of three.                                                      *)
LEMMA LastOfThree ==
  ASSUME NEW f, DOMAIN f = 1 .. 3
  PROVE  LastGiven(f) = Given(f, 4)
  <1> DEFINE given == {i \in DOMAIN f : f[i] # None}
             IsLast(i) == \A j \in given : j <= i
             last == CHOOSE i \in given : IsLast(i)
  <1>1. LastGiven(f) = IF given = {} THEN None ELSE f[last]
    BY DEF LastGiven
  <1>2. Given(f, 4) = Later(Later(f[1], f[2]), f[3])
    BY DEF Given
  <1>3. \A i : i \in given <=> (i = 1 \/ i = 2 \/ i = 3) /\ f[i] # None
    OBVIOUS
  <1>4. ASSUME NEW n \in given, IsLast(n) PROVE last = n
    <2>1. \A i \in given : i \in 1 .. 3
      OBVIOUS
    <2>2. \A i \in given : IsLast(i) => i = n
      <3>1. ASSUME NEW i \in given, IsLast(i) PROVE i = n
        <4>1. i <= n /\ n <= i
          BY <1>4, <3>1
        <4> QED
          BY <2>1, <4>1
      <3> QED
        BY <3>1
    <2> HIDE DEF given, IsLast
    <2> QED
      BY <1>4, <2>2
  <1>5. CASE f[3] # None
    <2>1. 3 \in given /\ IsLast(3)
      BY <1>3, <1>5
    <2> HIDE DEF given, IsLast, last
    <2> QED
      BY <1>1, <1>2, <1>4, <1>5, <2>1 DEF Later
  <1>6. CASE f[3] = None /\ f[2] # None
    <2>1. 2 \in given /\ IsLast(2)
      BY <1>3, <1>6
    <2> HIDE DEF given, IsLast, last
    <2> QED
      BY <1>1, <1>2, <1>4, <1>6, <2>1 DEF Later
  <1>7. CASE f[3] = None /\ f[2] = None /\ f[1] # None
    <2>1. 1 \in given /\ IsLast(1)
      BY <1>3, <1>7
    <2> HIDE DEF given, IsLast, last
    <2> QED
      BY <1>1, <1>2, <1>4, <1>7, <2>1 DEF Later
  <1>8. CASE f[3] = None /\ f[2] = None /\ f[1] = None
    <2>1. given = {}
      BY <1>3, <1>8
    <2> HIDE DEF given, IsLast, last
    <2> QED
      BY <1>1, <1>2, <1>8, <2>1 DEF Later
  <1> QED
    BY <1>5, <1>6, <1>7, <1>8

-----------------------------------------------------------------------------
(* The pointers that a run holds before its n-th merge.                    *)
Ptr(o, p) == [i \in DOMAIN o[p].params |-> <<p, i>>]
PtrsUpTo(o, j, n) ==
  IF n = 1 THEN <<>>
  ELSE IF n = 2 THEN Ptr(o, <<0, 0>>)
  ELSE IF n = 3 THEN Ptr(o, <<0, 0>>) \o Ptr(o, <<j[1], 0>>)
  ELSE (Ptr(o, <<0, 0>>) \o Ptr(o, <<j[1], 0>>)) \o Ptr(o, j)

IsSource(p, j) == p = <<0, 0>> \/ p = <<j[1], 0>> \/ p = j

SameParams ==
  \A p \in Parts :
    /\ DOMAIN mem[p].params = DOMAIN orig[p].params
    /\ \A i \in DOMAIN orig[p].params : mem[p].params[i].name = orig[p].params[i].name
RunPoints == pc \in {"merge", "reconcile"} => run.params = PtrsUpTo(orig, job, step)

(* The labels in memory are those of the configuration, and the run has the*)
(* last that was given.                                                    *)
LabelsKept == \A p \in Parts : mem[p].label = orig[p].label
RunLabel == pc \in {"merge", "reconcile"} => run.label = Given(LabelsOf(orig, job), step)
InOrder(runs) == \A k \in DOMAIN runs : \A i \in 1 .. k - 1 : Before(runs[i].job, runs[k].job)
Labelled(runs) == \A k \in DOMAIN runs : runs[k].label = ExpectedLabel(runs[k].job)

(* What has become of the parameters in memory.                            *)
Touched(p) == \E k \in Jobs : Before(k, job) /\ IsSource(p, k)
ParamsTracked ==
  \A p \in Parts : \A i \in DOMAIN mem[p].params :
    LET was == orig[p].params[i].val
        now == mem[p].params[i].val
    IN /\ now = "undefined" <=> was = "undefined" \/ (was = "poison" /\ Touched(p))
       /\ now = "poison" <=> was = "poison" /\ ~ Touched(p)

ProgressInv ==
  /\ SameParams /\ RunPoints /\ LabelsKept /\ RunLabel
  /\ InOrder(built) /\ Labelled(built)
  /\ pc \in {"merge", "reconcile"} => job \in Jobs
  /\ {built[i].job : i \in DOMAIN built} = Done(job)
  /\ mode = "trigger" =>
       /\ \A t \in DOMAIN filter : t < job[1] => filter[t] # "error"
       /\ ParamsTracked
       /\ \A k \in Jobs : Before(k, job) => ~ Unevaluable(k)
  /\ outcome = "OK" => job[1] > Len(filter)
  /\ outcome = "error" =>
       mode = "trigger" /\ IF job[2] = 0 THEN filter[job[1]] = "error" ELSE Unevaluable(job)

(* The sources of a pipeline, one by one.                                  *)
LEMMA IsSourceOf ==
  ASSUME NEW p, NEW j
  PROVE  /\ IsSource(p, j) <=> \E i \in 1 .. 3 : p = Sources(j)[i]
         /\ p \in {Sources(j)[i] : i \in 1 .. 3} <=> IsSource(p, j)
         /\ p \in {Sources(j)[i] : i \in 1 .. 2} <=> p = <<0, 0>> \/ p = <<j[1], 0>>
  <1>1. 1 .. 3 = {1, 2, 3} /\ 1 .. 2 = {1, 2}
    OBVIOUS
  <1>2. Sources(j)[1] = <<0, 0>> /\ Sources(j)[2] = <<j[1], 0>> /\ Sources(j)[3] = j
    BY SourcesOf
  <1> QED
    BY <1>1, <1>2 DEF IsSource

(* The pointers to a part's parameters.                                    *)
LEMMA PtrType ==
  ASSUME BuildInv, NEW p \in Parts
  PROVE  Ptr(orig, p) \in Seq(Parts \X Nat)
  <1>1. orig[p].params \in Seq(Param)
    BY PartTyped
  <1>2. PICK n \in Nat : DOMAIN orig[p].params = 1 .. n
    BY <1>1
  <1>3. Ptr(orig, p) = [i \in 1 .. n |-> Ptr(orig, p)[i]] /\ \A i \in 1 .. n : Ptr(orig, p)[i] = <<p, i>>
    BY <1>2 DEF Ptr
  <1>4. ASSUME NEW i \in 1 .. n PROVE Ptr(orig, p)[i] \in Parts \X Nat
    <2>1. Ptr(orig, p)[i] = <<p, i>> /\ i \in Nat
      BY <1>3
    <2> QED
      BY <2>1
  <1> QED
    BY <1>3, <1>4, SequenceOf

(* They are those to its own parameters.                                   *)
LEMMA PtrHolds ==
  ASSUME NEW p, NEW q, NEW i
  PROVE  Holds(Ptr(orig, p), <<q, i>>) <=> q = p /\ i \in DOMAIN orig[p].params
  BY DEF Ptr, Holds

(* At the end a run points to every parameter of its three sources.        *)
LEMMA PointedAll ==
  ASSUME BuildInv, SameParams, RunPoints, pc = "reconcile", NEW p \in Parts,
         NEW i \in DOMAIN mem[p].params
  PROVE  Pointed(<<p, i>>) <=> IsSource(p, job)
  <1>1. job \in Parts /\ job # <<0, 0>> /\ step = 4
    BY DEF BuildInv, Place
  <1>2. <<0, 0>> \in Parts /\ <<job[1], 0>> \in Parts
    <2>1. Sources(job)[1] \in Parts /\ Sources(job)[2] \in Parts
      BY <1>1, SourcesAreParts
    <2> QED
      BY <2>1, SourcesOf
  <1> DEFINE a == Ptr(orig, <<0, 0>>)
             b == Ptr(orig, <<job[1], 0>>)
             c == Ptr(orig, job)
  <1>3. run.params = (a \o b) \o c
    <2>1. run.params = PtrsUpTo(orig, job, 4)
      BY <1>1 DEF RunPoints
    <2>2. PtrsUpTo(orig, job, 4) = (a \o b) \o c
      BY DEF PtrsUpTo
    <2> QED
      BY <2>1, <2>2
  <1>4. /\ a \in Seq(Parts \X Nat) /\ b \in Seq(Parts \X Nat) /\ c \in Seq(Parts \X Nat)
    BY <1>1, <1>2, PtrType
  <1>5. i \in DOMAIN orig[p].params
    BY DEF SameParams
  <1>6. /\ Holds(a, <<p, i>>) <=> p = <<0, 0>>
        /\ Holds(b, <<p, i>>) <=> p = <<job[1], 0>>
        /\ Holds(c, <<p, i>>) <=> p = job
    <2>1. Holds(a, <<p, i>>) <=> p = <<0, 0>>
      BY <1>5, PtrHolds
    <2>2. Holds(b, <<p, i>>) <=> p = <<job[1], 0>>
      BY <1>5, PtrHolds
    <2>3. Holds(c, <<p, i>>) <=> p = job
      BY <1>5, PtrHolds
    <2> QED
      BY <2>1, <2>2, <2>3
  <1> HIDE DEF a, b, c
  <1>7. a \o b \in Seq(Parts \X Nat)
    BY <1>4
  <1>8. Holds(a \o b, <<p, i>>) <=> Holds(a, <<p, i>>) \/ Holds(b, <<p, i>>)
    BY <1>4, Concatenated
  <1>9. Holds(run.params, <<p, i>>) <=> Holds(a \o b, <<p, i>>) \/ Holds(c, <<p, i>>)
    <2>1. PICK d \in Seq(Parts \X Nat) : d = a \o b
      BY <1>7
    <2>2. Holds(d \o c, <<p, i>>) <=> Holds(d, <<p, i>>) \/ Holds(c, <<p, i>>)
      BY <1>4, Concatenated
    <2> QED
      BY <1>3, <2>1, <2>2
  <1>10. Pointed(<<p, i>>) <=> Holds(run.params, <<p, i>>)
    BY DEF Pointed, Holds
  <1> QED
    BY <1>6, <1>8, <1>9, <1>10 DEF IsSource

(* The run's label is the one its sources give.                            *)
LEMMA LabelMeans ==
  ASSUME BuildInv, LabelsKept, RunLabel, pc = "reconcile"
  PROVE  run.label = GivenLabel(job)
  <1> DEFINE f == LabelsOf(orig, job)
  <1>1. step = 4 /\ run.label = Given(f, 4)
    BY DEF BuildInv, Place, RunLabel
  <1>2. DOMAIN f = 1 .. 3 /\ GivenLabel(job) = LastGiven(f)
    BY DEF LabelsOf, GivenLabel
  <1> HIDE DEF f
  <1> QED
    BY <1>1, <1>2, LastOfThree

(* In a request a run fails exactly if its label does not evaluate or one  *)
(* of its parameters never does or no longer does.                         *)
BadParam(p, i, j) ==
  \/ orig[p].params[i].val = "undefined"
  \/ /\ orig[p].params[i].val = "poison"
     /\ \E k \in Jobs : Before(k, j) /\ p \in {Sources(k)[s] : s \in 1 .. 2}
BadParams(j) ==
  \E p \in {Sources(j)[i] : i \in 1 .. 3} : \E i \in DOMAIN orig[p].params : BadParam(p, i, j)
FailingParams == \E k \in DOMAIN run.params : ~ Evaluates(Value(run.params[k]).val)

(* What cannot be evaluated of a pipeline: its label or one of its         *)
(* parameters.                                                             *)
LEMMA UnevaluableMeans ==
  ASSUME NEW j
  PROVE  Unevaluable(j) <=>
           (GivenLabel(j) # None /\ ~ Evaluates(GivenLabel(j))) \/ BadParams(j)
  BY DEF Unevaluable, BadParams, BadParam

(* The run holds a failing parameter when the pipeline's sources do.       *)
LEMMA ParamFailsMeans ==
  ASSUME BuildInv, ProgressInv, pc = "reconcile", mode = "trigger"
  PROVE  FailingParams <=> BadParams(job)
  <1>1. /\ SameParams /\ RunPoints /\ ParamsTracked /\ job \in Jobs /\ job # <<0, 0>>
    BY DEF ProgressInv, BuildInv, Place
  <1>2. ASSUME NEW p \in Parts, NEW i \in DOMAIN mem[p].params, IsSource(p, job)
        PROVE  mem[p].params[i].val = "undefined" <=>
                 \/ orig[p].params[i].val = "undefined"
                 \/ /\ orig[p].params[i].val = "poison"
                    /\ \E k \in Jobs : Before(k, job) /\ (p = <<0, 0>> \/ p = <<k[1], 0>>)
    <2>1. Touched(p) <=> \E k \in Jobs : Before(k, job) /\ (p = <<0, 0>> \/ p = <<k[1], 0>>)
      <3>1. ASSUME NEW k \in Jobs, Before(k, job), p = k
            PROVE  p = <<0, 0>> \/ p = <<k[1], 0>>
        <4>1. k \in Nat \X Nat /\ k[2] > 0 /\ job \in Nat \X Nat /\ job[2] > 0
          BY <1>1, JobsTyped
        <4>2. k # job
          BY <3>1, <4>1 DEF Before
        <4> QED
          BY <1>2, <3>1, <4>1, <4>2 DEF IsSource
      <3> QED
        BY <3>1 DEF Touched, IsSource
    <2> QED
      BY <1>1, <2>1 DEF ParamsTracked
  <1>3. ASSUME FailingParams PROVE BadParams(job)
    <2>1. PICK k \in DOMAIN run.params : Value(run.params[k]).val = "undefined"
      BY <1>3 DEF FailingParams, Evaluates
    <2>2. PICK p \in Parts, i \in Nat : run.params[k] = <<p, i>>
      BY PointedValue
    <2>3. i \in DOMAIN mem[p].params /\ mem[p].params[i].val = "undefined"
      BY <2>1, <2>2 DEF BuildInv, PointersValid, Value
    <2>4. IsSource(p, job)
      <3>1. Pointed(<<p, i>>)
        BY <2>2 DEF Pointed
      <3> QED
        BY <1>1, <2>3, <3>1, PointedAll
    <2>5. \/ orig[p].params[i].val = "undefined"
          \/ /\ orig[p].params[i].val = "poison"
             /\ \E l \in Jobs : Before(l, job) /\ (p = <<0, 0>> \/ p = <<l[1], 0>>)
      BY <1>2, <2>3, <2>4
    <2>6. i \in DOMAIN orig[p].params
      BY <1>1, <2>3 DEF SameParams
    <2>7. p \in {Sources(job)[s] : s \in 1 .. 3}
      BY <2>4, IsSourceOf
    <2>8. \A l : p \in {Sources(l)[s] : s \in 1 .. 2} <=> p = <<0, 0>> \/ p = <<l[1], 0>>
      BY IsSourceOf
    <2> QED
      BY <2>5, <2>6, <2>7, <2>8 DEF BadParams, BadParam
  <1>4. ASSUME BadParams(job) PROVE FailingParams
    <2>1. PICK p \in {Sources(job)[s] : s \in 1 .. 3} : \E i \in DOMAIN orig[p].params :
            BadParam(p, i, job)
      BY <1>4 DEF BadParams, BadParam
    <2>2. PICK i \in DOMAIN orig[p].params :
            BadParam(p, i, job)
      BY <2>1
    <2>3. IsSource(p, job) /\ p \in Parts
      <3>1. IsSource(p, job)
        BY IsSourceOf
      <3>2. job \in Parts
        BY <1>1, JobsTyped
      <3> QED
        BY <1>1, <3>1, <3>2, SourcesAreParts, IsSourceOf
    <2>4. i \in DOMAIN mem[p].params
      BY <1>1, <2>3 DEF SameParams
    <2>5. \A l : p \in {Sources(l)[s] : s \in 1 .. 2} <=> p = <<0, 0>> \/ p = <<l[1], 0>>
      BY IsSourceOf
    <2>6. mem[p].params[i].val = "undefined"
      BY <1>2, <2>2, <2>3, <2>4, <2>5 DEF BadParam
    <2>7. Pointed(<<p, i>>)
      BY <1>1, <2>3, <2>4, PointedAll
    <2>8. PICK k \in DOMAIN run.params : run.params[k] = <<p, i>>
      BY <2>7 DEF Pointed
    <2>9. Value(run.params[k]).val = "undefined"
      BY <2>6, <2>8 DEF Value
    <2> QED
      BY <2>9 DEF FailingParams, Evaluates
  <1> QED
    BY <1>3, <1>4

(* So a run fails for what its sources have, not for what others left in   *)
(* memory.                                                                 *)
LEMMA FailsMeans ==
  ASSUME BuildInv, ProgressInv, pc = "reconcile", mode = "trigger"
  PROVE  Fails <=> Unevaluable(job)
  <1>1. run.label = GivenLabel(job)
    BY LabelMeans DEF ProgressInv
  <1>2. Fails <=> (run.label # None /\ ~ Evaluates(run.label)) \/ FailingParams
    BY DEF Fails, Unresolved, FailingParams
  <1>3. FailingParams <=> BadParams(job)
    BY ParamFailsMeans
  <1>4. Unevaluable(job) <=>
          (GivenLabel(job) # None /\ ~ Evaluates(GivenLabel(job))) \/ BadParams(job)
    BY UnevaluableMeans
  <1> QED
    BY <1>1, <1>2, <1>3, <1>4

-----------------------------------------------------------------------------
(* Which pipelines cannot be evaluated depends on what was loaded.         *)
LEMMA UnevaluableStays ==
  ASSUME orig' = orig, Jobs' = Jobs, NEW k
  PROVE  Unevaluable(k)' <=> Unevaluable(k)
  BY DEF Unevaluable, GivenLabel, LastGiven, Sources, Before, Evaluates

(* The reconciliation writes no label of a source.                         *)
LEMMA LabelsStay ==
  ASSUME orig' = orig, mode' = mode, NEW runs, Labelled(runs), built' = runs
  PROVE  Labelled(built)'
  <1>1. ASSUME NEW j PROVE ExpectedLabel(j)' = ExpectedLabel(j)
    <2>1. GivenLabel(j)' = GivenLabel(j)
      BY DEF GivenLabel, LastGiven, Sources
    <2> QED
      BY <2>1 DEF ExpectedLabel, Evaluated
  <1> QED
    BY <1>1 DEF Labelled

(* Every step keeps what is known of the run's label.                      *)
LEMMA LabelledKept ==
  ASSUME NEW S, NEW runs \in Seq(S), NEW b, Labelled(runs), b.label = ExpectedLabel(b.job)
  PROVE  Labelled(Append(runs, b))
  <1> DEFINE n == Len(runs)
             more == Append(runs, b)
  <1>1. /\ n \in Nat /\ DOMAIN runs = 1 .. n /\ DOMAIN more = 1 .. n + 1 /\ more[n + 1] = b
        /\ \A i \in 1 .. n : more[i] = runs[i]
    OBVIOUS
  <1> HIDE DEF n, more
  <1>2. ASSUME NEW k \in DOMAIN more PROVE more[k].label = ExpectedLabel(more[k].job)
    <2>1. k = n + 1 \/ k \in 1 .. n
      BY <1>1
    <2> QED
      BY <1>1, <2>1 DEF Labelled
  <1> QED
    BY <1>2 DEF Labelled, more

(* Another element comes after those that are in order.                    *)
LEMMA OrderKept ==
  ASSUME NEW S, NEW runs \in Seq(S), NEW b, InOrder(runs), NEW j, b.job = j,
         {runs[i].job : i \in DOMAIN runs} = Done(j)
  PROVE  InOrder(Append(runs, b))
  <1> DEFINE n == Len(runs)
             more == Append(runs, b)
  <1>1. /\ n \in Nat /\ DOMAIN runs = 1 .. n /\ DOMAIN more = 1 .. n + 1 /\ more[n + 1] = b
        /\ \A i \in 1 .. n : more[i] = runs[i]
    OBVIOUS
  <1>2. \A i \in 1 .. n : Before(runs[i].job, j)
    BY <1>1 DEF Done
  <1> HIDE DEF n, more
  <1>3. ASSUME NEW k \in DOMAIN more, NEW i \in 1 .. k - 1
        PROVE  Before(more[i].job, more[k].job)
    <2>1. i \in 1 .. n
      BY <1>1
    <2>2. CASE k = n + 1
      BY <1>1, <1>2, <2>1, <2>2
    <2>3. CASE k # n + 1
      <3>1. k \in 1 .. n
        BY <1>1, <2>3
      <3> QED
        BY <1>1, <2>1, <3>1 DEF InOrder
    <2> QED
      BY <2>2, <2>3
  <1> QED
    BY <1>3 DEF InOrder, more

(* A merge appends the pointers of its source.                             *)
LEMMA PtrsGrow ==
  ASSUME NEW o, NEW j, NEW n \in 1 .. 3, NEW ps, ps = PtrsUpTo(o, j, n),
         NEW S, Ptr(o, <<0, 0>>) \in Seq(S)
  PROVE  ps \o Ptr(o, Sources(j)[n]) = PtrsUpTo(o, j, n + 1)
  <1>1. CASE n = 1
    <2>1. <<>> \o Ptr(o, <<0, 0>>) = Ptr(o, <<0, 0>>)
      OBVIOUS
    <2> QED
      BY <1>1, <2>1, SourcesOf DEF PtrsUpTo
  <1>2. CASE n = 2
    <2>1. ps = Ptr(o, <<0, 0>>) /\ Sources(j)[n] = <<j[1], 0>>
      BY <1>2, SourcesOf DEF PtrsUpTo
    <2>2. PtrsUpTo(o, j, 3) = Ptr(o, <<0, 0>>) \o Ptr(o, <<j[1], 0>>)
      BY DEF PtrsUpTo
    <2>3. n + 1 = 3
      BY <1>2
    <2> QED
      BY <1>2, <2>1, <2>2, <2>3, Zenon
  <1>3. CASE n = 3
    <2>1. ps = Ptr(o, <<0, 0>>) \o Ptr(o, <<j[1], 0>>) /\ Sources(j)[n] = j
      BY <1>3, SourcesOf DEF PtrsUpTo
    <2>2. PtrsUpTo(o, j, 4) = (Ptr(o, <<0, 0>>) \o Ptr(o, <<j[1], 0>>)) \o Ptr(o, j)
      BY DEF PtrsUpTo
    <2>3. n + 1 = 4
      BY <1>3
    <2> QED
      BY <1>3, <2>1, <2>2, <2>3, Zenon
  <1> QED
    BY <1>1, <1>2, <1>3

(* A filter keeps the record of what is done.                              *)
LEMMA MatchProgress ==
  ASSUME BuildInv, ProgressInv, Match, mode' = mode
  PROVE  ProgressInv'
  <1>1. /\ Parts' = Parts /\ UNCHANGED <<filter, orig>> /\ Jobs' = Jobs
    BY StepKeepsJobs DEF Build
  <1>2. /\ UNCHANGED <<mem, built>> /\ pc = "filter" /\ job \in Nat \X Nat
        /\ job[1] > 0 /\ job[2] = 0 /\ outcome = "open" /\ filter \in Seq(Verdicts)
        /\ mode \in {"trigger", "validator"}
    BY DEF Match, BuildInv, BuildTypeOK, Place
  <1>3. /\ \A k \in Jobs : Before(k, job') <=> Before(k, job)
        /\ pc' = "merge" => job' \in Jobs
    BY MatchDone
  <1>10. Labelled(built)'
    BY <1>1, <1>2, LabelsStay DEF ProgressInv
  <1>4. SameParams' /\ LabelsKept' /\ InOrder(built)'
    BY <1>1, <1>2 DEF ProgressInv, SameParams, LabelsKept, InOrder, Before
  <1>5. RunPoints' /\ RunLabel' /\ pc' # "reconcile"
    <2>1. pc' \in {"filter", "end"} \/ (pc' = "merge" /\ step' = 1 /\ run' = EmptyRun)
      BY DEF Match, Finish
    <2>2. EmptyRun.params = <<>> /\ EmptyRun.label = None
      BY DEF EmptyRun
    <2> QED
      BY <2>1, <2>2 DEF RunPoints, PtrsUpTo, RunLabel, Given
  <1>6. {built'[i].job : i \in DOMAIN built'} = Done(job)'
    BY <1>1, <1>2, <1>3 DEF ProgressInv, Done
  <1>7. ASSUME mode = "trigger"
        PROVE  /\ \A t \in DOMAIN filter : t < job'[1] => filter[t] # "error"
               /\ ParamsTracked' /\ \A k \in Jobs : Before(k, job') => ~ Unevaluable(k)'
    <2>1. \A t \in DOMAIN filter : t < job[1] => filter[t] # "error"
      BY <1>7 DEF ProgressInv
    <2>2. job'[1] = job[1] \/ (job'[1] = job[1] + 1 /\ filter[job[1]] # "error")
      BY <1>2, <1>7 DEF Match, Finish, Verdict
    <2>3. \A t \in DOMAIN filter : t < job'[1] => filter[t] # "error"
      BY <1>2, <2>1, <2>2
    <2>4. ASSUME NEW p \in Parts PROVE Touched(p)' <=> Touched(p)
      BY <1>1, <1>3 DEF Touched, IsSource
    <2>5. ParamsTracked'
      BY <1>1, <1>2, <1>7, <2>4 DEF ProgressInv, ParamsTracked
    <2>6. \A k \in Jobs : Before(k, job') => ~ Unevaluable(k)'
      BY <1>1, <1>3, <1>7, UnevaluableStays DEF ProgressInv
    <2> QED
      BY <2>3, <2>5, <2>6
  <1>8. outcome' = "OK" => job'[1] > Len(filter)
    BY <1>2 DEF Match, Finish
  <1>9. outcome' = "error" => mode = "trigger" /\ job'[2] = 0 /\ filter[job'[1]] = "error"
    BY <1>2 DEF Match, Finish, Verdict
  <1> QED
    BY <1>1, <1>3, <1>4, <1>5, <1>6, <1>7, <1>8, <1>9, <1>10 DEF ProgressInv

(* So does a merge.                                                        *)
LEMMA MergeProgress ==
  ASSUME BuildInv, ProgressInv, Merge, mode' = mode
  PROVE  ProgressInv'
  <1> DEFINE p == Sources(job)[step]
             m == Merged(p)
  <1>1. /\ Parts' = Parts /\ UNCHANGED <<filter, orig>> /\ Jobs' = Jobs
    BY StepKeepsJobs DEF Build
  <1>2. /\ pc = "merge" /\ step \in 1 .. 3 /\ p \in Parts /\ outcome = "open"
        /\ MergesTo(p, m)
    BY MergeDoes
  <1>3. UNCHANGED <<job, built>>
    BY <1>2 DEF MergesTo
  <1>4. \A q \in Parts : mem'[q].params = mem[q].params
    <2>1. CASE run.bare \/ ~ m.ok
      BY <1>2, <2>1 DEF MergesTo
    <2>2. CASE ~ (run.bare \/ ~ m.ok)
      BY <1>2, <2>2 DEF MergesTo, Writes
    <2> QED
      BY <2>1, <2>2
  <1>11. SameParams' /\ InOrder(built)'
    BY <1>1, <1>3, <1>4 DEF ProgressInv, SameParams, InOrder, Before
  <1>13. Labelled(built)'
    BY <1>1, <1>3, LabelsStay DEF ProgressInv
  <1>12. LabelsKept' /\ RunLabel'
    <2>1. CASE run.bare \/ ~ m.ok
      BY <1>1, <1>2, <2>1 DEF MergesTo, RunLabel, ProgressInv, LabelsKept
    <2>2. CASE ~ (run.bare \/ ~ m.ok)
      <3>1. /\ run'.label = Later(run.label, mem[p].label) /\ step' = step + 1
            /\ \A q \in Parts : mem'[q].label = mem[q].label
        BY <1>2, <2>2 DEF MergesTo, Writes
      <3> DEFINE f == LabelsOf(orig, job)
      <3>2. f[step] = mem[p].label
        BY <1>2 DEF LabelsOf, ProgressInv, LabelsKept
      <3>3. run.label = Given(f, step) /\ f' = f
        BY <1>1, <1>2, <1>3 DEF ProgressInv, RunLabel, LabelsOf, Sources
      <3> HIDE DEF f
      <3>4. Given(f, step') = Later(Given(f, step), f[step])
        BY <1>2, <3>1, GivenGrows
      <3>5. RunLabel'
        BY <1>1, <1>3, <3>1, <3>2, <3>3, <3>4 DEF RunLabel, f
      <3> QED
        BY <1>1, <3>1, <3>5 DEF ProgressInv, LabelsKept
    <2> QED
      BY <2>1, <2>2
  <1>6. RunPoints' /\ (pc' \in {"merge", "reconcile"} => job' \in Jobs') /\ outcome' \in {"open", "panic"}
    <2>1. CASE run.bare \/ ~ m.ok
      BY <1>2, <2>1 DEF MergesTo, RunPoints
    <2>2. CASE ~ (run.bare \/ ~ m.ok)
      <3>1. /\ run'.params = run.params \o [i \in DOMAIN mem[p].params |-> <<p, i>>]
            /\ step' = step + 1 /\ outcome' = "open"
        BY <1>2, <2>2 DEF MergesTo, Writes
      <3>2. [i \in DOMAIN mem[p].params |-> <<p, i>>] = Ptr(orig, p)
        BY <1>2 DEF Ptr, ProgressInv, SameParams
      <3>3. run.params = PtrsUpTo(orig, job, step)
        BY <1>2 DEF ProgressInv, RunPoints
      <3>4. run'.params = PtrsUpTo(orig, job, step + 1)
        <4>1. Ptr(orig, <<0, 0>>) \in Seq(Parts \X Nat)
          <5>1. <<0, 0>> \in Parts
            BY <1>2, MergeDoes DEF BuildInv, Shape
          <5> QED
            BY <5>1, PtrType
        <4>2. PICK ps : ps = run.params
          OBVIOUS
        <4>3. ps \o Ptr(orig, p) = PtrsUpTo(orig, job, step + 1)
          BY <1>2, <3>3, <4>1, <4>2, PtrsGrow
        <4> QED
          BY <3>1, <3>2, <4>2, <4>3
      <3> QED
        BY <1>1, <1>2, <1>3, <3>1, <3>4 DEF RunPoints, ProgressInv
    <2> QED
      BY <2>1, <2>2
  <1>7. {built'[i].job : i \in DOMAIN built'} = Done(job)'
    BY <1>1, <1>3 DEF ProgressInv, Done
  <1>8. ASSUME mode = "trigger"
        PROVE  ParamsTracked' /\ \A k \in Jobs : Before(k, job') => ~ Unevaluable(k)'
    <2>1. ASSUME NEW q \in Parts PROVE Touched(q)' <=> Touched(q)
      BY <1>1, <1>3 DEF Touched, IsSource, Before
    <2>2. ParamsTracked'
      BY <1>1, <1>4, <1>8, <2>1 DEF ProgressInv, ParamsTracked
    <2>3. \A k \in Jobs : Before(k, job') => ~ Unevaluable(k)'
      BY <1>1, <1>3, <1>8, UnevaluableStays DEF ProgressInv
    <2> QED
      BY <2>2, <2>3
  <1> QED
    BY <1>1, <1>3, <1>6, <1>7, <1>8, <1>11, <1>12, <1>13 DEF ProgressInv

(* A run that does not fail holds no parameter without a value.            *)
LEMMA PointedEvaluates ==
  ASSUME mode = "trigger", ~ Fails, NEW p, NEW i, Pointed(<<p, i>>)
  PROVE  mem[p].params[i].val # "undefined"
  <1>1. PICK k \in DOMAIN run.params : run.params[k] = <<p, i>>
    BY DEF Pointed
  <1>2. Value(run.params[k]) = mem[p].params[i]
    BY <1>1 DEF Value
  <1>3. Evaluates(Value(run.params[k]).val)
    BY <1>1 DEF Fails, Unresolved
  <1> QED
    BY <1>2, <1>3 DEF Evaluates

(* Only poison becomes undefined, and nothing becomes poison.              *)
LEMMA TrackedValue ==
  ASSUME NEW v \in ParamValue, v # "undefined"
  PROVE  (SafeValueOf(v) = "undefined" <=> v = "poison") /\ SafeValueOf(v) # "poison"
  BY DEF ParamValue, SafeValueOf

(* So does a reconciliation, which adds what it has evaluated.             *)
LEMMA ReconcileProgress ==
  ASSUME BuildInv, ProgressInv, Reconcile, mode' = mode
  PROVE  ProgressInv'
  <1>1. /\ Parts' = Parts /\ UNCHANGED <<filter, orig>> /\ Jobs' = Jobs
    BY StepKeepsJobs DEF Build
  <1>2. /\ pc = "reconcile" /\ step = 4 /\ job \in Parts /\ job # <<0, 0>>
        /\ outcome = "open" /\ job \in Jobs /\ job[2] > 0 /\ job \in Nat \X Nat
    BY ReconcileDoes, JobsTyped DEF ProgressInv
  <1>3. CASE Fails
    <2>1. pc' = "end" /\ outcome' = "error" /\ UNCHANGED <<mem, job, step, run, built>>
      BY <1>3, ReconcileDoes
    <2>2. mode = "trigger"
      BY <1>3 DEF Fails
    <2>3. Unevaluable(job)
      BY <1>2, <1>3, <2>2, FailsMeans
    <2>4. Unevaluable(job)'
      BY <1>1, <2>1, <2>3, UnevaluableStays
    <2>5. SameParams' /\ RunPoints' /\ LabelsKept' /\ RunLabel' /\ InOrder(built)'
      BY <1>1, <2>1
      DEF ProgressInv, SameParams, RunPoints, LabelsKept, RunLabel, InOrder, Before
    <2>10. Labelled(built)'
      BY <1>1, <2>1, LabelsStay DEF ProgressInv
    <2>6. {built'[i].job : i \in DOMAIN built'} = Done(job)'
      BY <1>1, <2>1 DEF ProgressInv, Done
    <2>7. ASSUME NEW q \in Parts PROVE Touched(q)' <=> Touched(q)
      BY <1>1, <2>1 DEF Touched, IsSource, Before
    <2>8. ParamsTracked'
      BY <1>1, <2>1, <2>2, <2>7 DEF ProgressInv, ParamsTracked
    <2>9. \A k \in Jobs : Before(k, job') => ~ Unevaluable(k)'
      BY <1>1, <2>1, <2>2, UnevaluableStays DEF ProgressInv
    <2> QED
      BY <1>1, <1>2, <2>1, <2>2, <2>4, <2>5, <2>6, <2>8, <2>9, <2>10
      DEF ProgressInv
  <1>4. CASE ~ Fails
    <2>1. /\ WritesValues /\ built' = Append(built, Finished) /\ Following
          /\ step' = 1 /\ run' = EmptyRun /\ outcome' = outcome
      BY <1>4, ReconcileDoes
    <2>2. /\ \A k \in Jobs : Before(k, job') <=> Before(k, job) \/ k = job
          /\ pc' = "merge" => job' \in Jobs
          /\ ~ Before(job, job)
      BY <1>2, <1>4, ReconcileDone
    <2>3. pc' \in {"merge", "filter"}
      BY <2>1 DEF Following
    <2>4. SameParams' /\ LabelsKept'
      <3>1. ASSUME NEW q \in Parts, NEW i \in DOMAIN mem[q].params
            PROVE  mem'[q].params[i].name = mem[q].params[i].name
        <4>1. mem[q].params \in Seq(Param) /\ mode \in {"trigger", "validator"}
          BY PartTyped DEF BuildInv, BuildTypeOK
        <4>2. mem[q].params[i] \in Param
          BY <4>1
        <4>3. Resolved(mem[q].params[i]).name = mem[q].params[i].name
          BY <4>1, <4>2, ResolvedType
        <4> QED
          BY <2>1, <4>3 DEF WritesValues
      <3> QED
        BY <1>1, <2>1, <3>1 DEF ProgressInv, SameParams, LabelsKept, WritesValues
    <2>5. RunPoints' /\ RunLabel'
      <3>1. EmptyRun.params = <<>> /\ EmptyRun.label = None
        BY DEF EmptyRun
      <3> QED
        BY <2>1, <2>3, <3>1 DEF RunPoints, PtrsUpTo, RunLabel, Given
    <2>12. Labelled(built)'
      <3>1. Labelled(built)
        BY DEF ProgressInv
      <3>2. Finished.job = job /\ Finished.label = IF run.label = None THEN None ELSE Evaluated(run.label)
        BY DEF Finished
      <3>3. run.label = GivenLabel(job)
        BY <1>2, LabelMeans DEF ProgressInv
      <3>4. Finished.label = ExpectedLabel(Finished.job)
        BY <3>2, <3>3 DEF ExpectedLabel
      <3>5. built \in Seq([job : Parts, timeouts : Source \cup {None}, label : Label,
                           items : Seq(Item), params : Seq(Param)])
        BY DEF BuildInv, BuildTypeOK
      <3>6. Labelled(Append(built, Finished))
        BY <3>1, <3>4, <3>5, LabelledKept
      <3>7. PICK runs : runs = Append(built, Finished)
        OBVIOUS
      <3> QED
        BY <1>1, <2>1, <3>6, <3>7, LabelsStay
    <2>11. InOrder(built)'
      <3>1. {built[i].job : i \in DOMAIN built} = Done(job) /\ InOrder(built)
        BY DEF ProgressInv
      <3>2. Finished.job = job
        BY DEF Finished
      <3>3. built \in Seq([job : Parts, timeouts : Source \cup {None}, label : Label,
                           items : Seq(Item), params : Seq(Param)])
        BY DEF BuildInv, BuildTypeOK
      <3>4. InOrder(Append(built, Finished))
        BY <3>1, <3>2, <3>3, OrderKept
      <3> QED
        BY <2>1, <3>4 DEF InOrder, Before
    <2>6. {built'[i].job : i \in DOMAIN built'} = Done(job)'
      <3>1. {built[i].job : i \in DOMAIN built} = Done(job)
        BY DEF ProgressInv
      <3>2. Finished.job = job
        BY DEF Finished
      <3>3. built \in Seq([job : Parts, timeouts : Source \cup {None}, label : Label,
                           items : Seq(Item), params : Seq(Param)])
        BY DEF BuildInv, BuildTypeOK
      <3>4. PICK n \in Nat : n = Len(built) /\ DOMAIN built = 1 .. n
        BY <3>3
      <3>5. /\ DOMAIN built' = 1 .. n + 1 /\ built'[n + 1] = Finished
            /\ \A i \in 1 .. n : built'[i] = built[i]
        BY <2>1, <3>3, <3>4
      <3>6. {built'[i].job : i \in DOMAIN built'} = {built[i].job : i \in DOMAIN built} \cup {job}
        <4>1. \A i \in DOMAIN built' : i = n + 1 \/ i \in 1 .. n
          BY <3>5
        <4>2. \A i \in 1 .. n : i \in DOMAIN built'
          BY <3>5
        <4>3. n + 1 \in DOMAIN built'
          BY <3>5
        <4> QED
          BY <3>2, <3>4, <3>5, <4>1, <4>2, <4>3
      <3>7. Done(job)' = Done(job) \cup {job}
        BY <1>1, <1>2, <2>2 DEF Done
      <3> QED
        BY <3>1, <3>6, <3>7
    <2>7. ASSUME mode = "trigger"
          PROVE  \A t \in DOMAIN filter : t < job'[1] => filter[t] # "error"
      <3>1. \A t \in DOMAIN filter : t < job[1] => filter[t] # "error"
        BY <2>7 DEF ProgressInv
      <3>2. filter[job[1]] = "yes"
        BY <1>2, <2>7, JobsTyped
      <3>3. job'[1] = job[1] \/ job'[1] = job[1] + 1
        BY <1>2, <2>1 DEF Following
      <3>4. filter \in Seq(Verdicts)
        BY DEF BuildInv
      <3> QED
        BY <1>2, <3>1, <3>2, <3>3, <3>4
    <2>8. ASSUME mode = "trigger", NEW p \in Parts, NEW i \in DOMAIN mem'[p].params
          PROVE  LET was == orig[p].params[i].val
                     now == mem'[p].params[i].val
                 IN /\ now = "undefined" <=> was = "undefined" \/ (was = "poison" /\ Touched(p)')
                    /\ now = "poison" <=> was = "poison" /\ ~ Touched(p)'
      <3> DEFINE was == orig[p].params[i].val
                 old == mem[p].params[i].val
                 now == mem'[p].params[i].val
      <3>1. Touched(p)' <=> Touched(p) \/ IsSource(p, job)
        BY <1>1, <1>2, <2>2 DEF Touched, IsSource
      <3>2. i \in DOMAIN mem[p].params
        BY <2>1 DEF WritesValues
      <3>3. /\ old = "undefined" <=> was = "undefined" \/ (was = "poison" /\ Touched(p))
            /\ old = "poison" <=> was = "poison" /\ ~ Touched(p)
        BY <2>8, <3>2 DEF ProgressInv, ParamsTracked
      <3>4. Pointed(<<p, i>>) <=> IsSource(p, job)
        BY <1>2, <3>2, PointedAll DEF ProgressInv
      <3>6. old \in ParamValue /\ mem[p].params[i] \in Param
        <4>1. mem[p].params \in Seq(Param)
          BY PartTyped
        <4>2. mem[p].params[i] \in Param
          BY <3>2, <4>1
        <4> QED
          BY <4>2 DEF Param
      <3>5. now = IF Pointed(<<p, i>>) THEN SafeValueOf(old) ELSE old
        <4>1. mem'[p].params[i] = IF Pointed(<<p, i>>) THEN Resolved(mem[p].params[i])
                                  ELSE mem[p].params[i]
          BY <2>1, <3>2 DEF WritesValues
        <4>2. Resolved(mem[p].params[i]) = [name |-> mem[p].params[i].name, val |-> Evaluated(old)]
          BY <2>8, <3>6, ResolvedType
        <4> QED
          BY <2>8, <4>1, <4>2 DEF Evaluated
      <3>7. Pointed(<<p, i>>) => old # "undefined"
        BY <1>4, <2>8, PointedEvaluates
      <3> HIDE DEF was, old, now
      <3>8. CASE Pointed(<<p, i>>)
        <4>1. /\ now = SafeValueOf(old) /\ old # "undefined" /\ Touched(p)'
          BY <3>1, <3>4, <3>5, <3>7, <3>8
        <4>2. (now = "undefined" <=> old = "poison") /\ now # "poison"
          BY <3>6, <4>1, TrackedValue
        <4> QED
          BY <3>3, <4>1, <4>2 DEF was, now
      <3>9. CASE ~ Pointed(<<p, i>>)
        BY <3>1, <3>3, <3>4, <3>5, <3>9 DEF was, now
      <3> QED
        BY <3>8, <3>9
    <2>9. mode = "trigger" => ParamsTracked'
      BY <1>1, <2>8 DEF ParamsTracked
    <2>10. mode = "trigger" => \A k \in Jobs : Before(k, job') => ~ Unevaluable(k)'
      <3>1. mode = "trigger" => ~ Unevaluable(job)
        BY <1>2, <1>4, FailsMeans
      <3>2. mode = "trigger" => \A k \in Jobs : Before(k, job') => ~ Unevaluable(k)
        BY <2>2, <3>1 DEF ProgressInv
      <3> QED
        BY <1>1, <3>2, UnevaluableStays
    <2> QED
      BY <1>1, <1>2, <2>1, <2>2, <2>3, <2>4, <2>5, <2>6, <2>7, <2>9, <2>10, <2>11, <2>12
      DEF ProgressInv
  <1> QED
    BY <1>3, <1>4

(* So does every step of a build.                                          *)
LEMMA BuildProgress ==
  ASSUME BuildInv, ProgressInv, Build, mode' = mode
  PROVE  ProgressInv'
  BY MatchProgress, MergeProgress, ReconcileProgress DEF Build

-----------------------------------------------------------------------------
(* What holds of a merge as long as it goes on: I has the pairs of an index*)
(* and a state for which it holds.                                         *)
LEMMA LoopInduction ==
  ASSUME NEW s, NEW src, Len(src) \in Nat, NEW I, <<0, s>> \in I,
         \A n \in Nat, m \in 1 .. Len(src) : \A t :
           m = n + 1 /\ <<n, t>> \in I => <<m, mergeRefs(t, m, src[m])>> \in I
  PROVE  <<Len(src), Transformer(s, src)>> \in I
  <1> DEFINE P == {n \in Nat : n <= Len(src) => <<n, Loop(s, src)[n]>> \in I}
  <1>1. 0 \in P
    BY LoopUnrolls
  <1>2. ASSUME NEW n \in Nat, n \in P PROVE n + 1 \in P
    <2>1. CASE n + 1 <= Len(src)
      <3>1. PICK m \in 1 .. Len(src) : m = n + 1
        BY <2>1
      <3>2. <<n, Loop(s, src)[n]>> \in I
        BY <1>2, <2>1
      <3>3. Loop(s, src)[m] = mergeRefs(Loop(s, src)[m - 1], m, src[m]) /\ m - 1 = n
        BY <3>1, LoopUnrolls
      <3>4. <<m, Loop(s, src)[m]>> \in I
        BY <3>1, <3>2, <3>3
      <3> QED
        BY <3>1, <3>4
    <2> QED
      BY <2>1
  <1> HIDE DEF P
  <1>3. Nat \subseteq P
    BY <1>1, <1>2, SetInduction
  <1>4. <<Len(src), Loop(s, src)[Len(src)]>> \in I
    BY <1>3 DEF P
  <1> QED
    BY <1>4 DEF Transformer

-----------------------------------------------------------------------------
(* What a merge does to the array it shares.  While it is shared, the part *)
(* that is visible to its owner is the beginning of the slice.             *)
Prefix(x, y) == Len(x) <= Len(y) /\ \A k \in 1 .. Len(x) : x[k] = y[k]
Shares(s) == s.shared => Prefix(s.store, s.items)
SameNames(x, y) == Len(x) = Len(y) /\ \A k \in 1 .. Len(x) : x[k].name = y[k].name

(* One element keeps the shared array a prefix of the slice.               *)
LEMMA SharesStep ==
  ASSUME NEW E, Mergeable(E), NEW s \in LoopState(E), NEW el \in E, NEW i \in Nat \ {0},
         Shares(s)
  PROVE  LET t == mergeRefs(s, i, el) IN
         /\ Shares(t) /\ Len(t.store) = Len(s.store) /\ (t.shared => s.shared)
         /\ Len(s.items) <= Len(t.items)
  <1> DEFINE t == mergeRefs(s, i, el)
  <1>1. /\ s.items \in Seq(E) /\ s.store \in Seq(E) /\ Len(s.items) \in Nat /\ Len(s.store) \in Nat
        /\ DOMAIN s.items = 1 .. Len(s.items) /\ DOMAIN s.store = 1 .. Len(s.store)
        /\ s.shared \in BOOLEAN
    BY DEF LoopState
  <1>2. CASE ~ s.ok
    BY <1>1, <1>2, MergeStops
  <1>3. CASE New(s, el)
    <2>1. t.store = s.store /\ (t.shared => s.shared) /\ Appended(s.items, t.items, el)
      BY <1>3, MergeAppends
    <2> HIDE DEF t
    <2>2. Shares(t)
      BY <1>1, <2>1 DEF Shares, Prefix, Appended
    <2> QED
      BY <1>1, <2>1, <2>2 DEF Appended, t
  <1>4. CASE Missing(s, el)
    <2>1. t = [s EXCEPT !.ok = FALSE]
      BY <1>4, MergeRefsCases DEF mergeRefs, mergeElement, Missing
    <2>2. t.store = s.store /\ t.items = s.items /\ t.shared = s.shared
      BY <2>1 DEF LoopState
    <2> HIDE DEF t
    <2> QED
      BY <1>1, <2>2 DEF Shares, t
  <1>5. CASE Found(s, el)
    <2> DEFINE r == s.refs[el.name]
    <2>1. /\ r \in 1 .. Len(s.items) /\ t.shared = s.shared
          /\ Replaced(s.items, t.items, r, merge(s.items[r], el))
          /\ IF s.shared /\ r <= Len(s.store)
               THEN Replaced(s.store, t.store, r, merge(s.store[r], el))
               ELSE t.store = s.store
      BY <1>5, MergeFinds
    <2> HIDE DEF t, r
    <2>2. CASE s.shared /\ r <= Len(s.store)
      <3>1. s.store[r] = s.items[r] /\ r \in 1 .. Len(s.store)
        BY <1>1, <2>1, <2>2 DEF Shares, Prefix
      <3>2. Replaced(s.store, t.store, r, merge(s.items[r], el))
        BY <2>1, <2>2, <3>1
      <3>3. Len(t.store) = Len(s.store) /\ Len(t.items) = Len(s.items)
        BY <2>1, <3>2 DEF Replaced
      <3>4. \A k \in 1 .. Len(s.store) : t.store[k] = t.items[k]
        <4>1. /\ Len(s.store) <= Len(s.items)
              /\ \A k \in 1 .. Len(s.store) : s.store[k] = s.items[k]
          BY <2>2 DEF Shares, Prefix
        <4>2. /\ \A k \in 1 .. Len(s.store) : k # r => t.store[k] = s.store[k]
              /\ t.store[r] = merge(s.items[r], el)
          BY <1>1, <3>2 DEF Replaced
        <4>3. /\ \A k \in 1 .. Len(s.items) : k # r => t.items[k] = s.items[k]
              /\ t.items[r] = merge(s.items[r], el)
          BY <1>1, <2>1 DEF Replaced
        <4>4. \A k \in 1 .. Len(s.store) : k \in 1 .. Len(s.items)
          BY <1>1, <4>1
        <4> QED
          BY <4>1, <4>2, <4>3, <4>4
      <3>5. Shares(t)
        BY <2>2, <3>3, <3>4 DEF Shares, Prefix
      <3> QED
        BY <1>1, <2>1, <3>3, <3>5 DEF t
    <2>3. CASE ~ (s.shared /\ r <= Len(s.store))
      <3>1. t.store = s.store /\ Len(t.items) = Len(s.items)
        BY <2>1, <2>3 DEF Replaced
      <3>2. Shares(t)
        <4>1. CASE s.shared
          <5>1. /\ Len(s.store) <= Len(s.items) /\ ~ (r <= Len(s.store))
                /\ \A k \in 1 .. Len(s.store) : s.store[k] = s.items[k]
            BY <2>3, <4>1 DEF Shares, Prefix
          <5>2. \A k \in 1 .. Len(s.store) : k # r /\ k \in 1 .. Len(s.items)
            BY <1>1, <2>1, <5>1
          <5>3. \A k \in 1 .. Len(s.items) : k # r => t.items[k] = s.items[k]
            BY <1>1, <2>1 DEF Replaced
          <5>4. \A k \in 1 .. Len(t.store) : t.store[k] = t.items[k]
            BY <3>1, <5>1, <5>2, <5>3
          <5> QED
            BY <3>1, <5>1, <5>4 DEF Shares, Prefix
        <4>2. CASE ~ s.shared
          BY <2>1, <4>2 DEF Shares
        <4> QED
          BY <4>1, <4>2
      <3> QED
        BY <1>1, <2>1, <3>1, <3>2 DEF t
    <2> QED
      BY <2>2, <2>3
  <1> QED
    BY <1>2, <1>3, <1>4, <1>5, MergeRefsCases

(* So does the merge; and it never begins to share.                        *)
LEMMA SharesKept ==
  ASSUME NEW E, Mergeable(E), NEW s \in LoopState(E), NEW src \in Seq(E), Shares(s)
  PROVE  LET t == Transformer(s, src) IN
         /\ Shares(t) /\ Len(t.store) = Len(s.store) /\ (t.shared => s.shared)
         /\ Len(s.items) <= Len(t.items)
  <1> DEFINE I == {x \in Nat \X LoopState(E) :
                     /\ Shares(x[2]) /\ Len(x[2].store) = Len(s.store)
                     /\ x[2].shared => s.shared
                     /\ Len(s.items) <= Len(x[2].items)}
  <1>1. <<0, s>> \in I
    BY DEF LoopState
  <1>2. ASSUME NEW n \in Nat, NEW m \in 1 .. Len(src), NEW t, m = n + 1, <<n, t>> \in I
        PROVE  <<m, mergeRefs(t, m, src[m])>> \in I
    <2> DEFINE u == mergeRefs(t, m, src[m])
    <2>1. /\ t \in LoopState(E) /\ Shares(t) /\ Len(t.store) = Len(s.store)
          /\ t.shared => s.shared
          /\ Len(s.items) <= Len(t.items)
      BY <1>2
    <2>2. src[m] \in E /\ m \in Nat \ {0}
      OBVIOUS
    <2>3. /\ Shares(u) /\ Len(u.store) = Len(t.store) /\ (u.shared => t.shared)
          /\ Len(t.items) <= Len(u.items)
      BY <2>1, <2>2, SharesStep
    <2>4. u \in LoopState(E)
      BY <2>1, <2>2, MergeRefsType
    <2>5. Len(s.items) \in Nat /\ Len(t.items) \in Nat /\ Len(u.items) \in Nat
      BY <2>1, <2>4 DEF LoopState
    <2> HIDE DEF u
    <2>6. Shares(u) /\ Len(u.store) = Len(s.store) /\ (u.shared => s.shared)
          /\ Len(s.items) <= Len(u.items)
      <3>1. Len(s.items) <= Len(u.items)
        BY <2>1, <2>3, <2>5
      <3> QED
        BY <2>1, <2>3, <3>1, Zenon
    <2>7. <<m, u>> \in I
      BY <2>4, <2>6
    <2> QED
      BY <2>7 DEF u
  <1> HIDE DEF I
  <1>3. Len(src) \in Nat
    OBVIOUS
  <1>4. <<Len(src), Transformer(s, src)>> \in I
    BY <1>1, <1>2, <1>3, LoopInduction
  <1> QED
    BY <1>4 DEF I

-----------------------------------------------------------------------------
(* The names in the shared array stay what they are if the source has each *)
(* name once: what is addressed then has the name already.                 *)
Addressed(src, i, s) ==
  \A n \in DOMAIN s.refs :
    n \in UpTo(src, i) \/ (s.refs[n] <= Len(s.items) /\ s.items[s.refs[n]].name = n)
NamesKept(src, i, store, s) ==
  s.ok /\ Shares(s) /\ Addressed(src, i, s) /\ SameNames(s.store, store)

(* One element of distinct names leaves the names in the shared array.     *)
LEMMA NamesKeptStep ==
  ASSUME NEW E, Mergeable(E), NEW src \in Seq(E), Distinct(src), NEW store,
         NEW i \in Nat, NEW n, n = i + 1, n \in 1 .. Len(src),
         NEW s \in LoopState(E), NamesKept(src, i, store, s)
  PROVE  NamesKept(src, n, store, mergeRefs(s, n, src[n]))
  <1> DEFINE el == src[n]
             t == mergeRefs(s, n, el)
  <1>1. el \in E /\ el.name \notin UpTo(src, i) /\ n \in Nat \ {0}
    BY UpToIsNew
  <1>2. UpTo(src, n) = UpTo(src, i) \cup {el.name}
    BY UpToGrows
  <1> HIDE DEF el, t
  <1>3. /\ s.ok /\ Shares(s) /\ Addressed(src, i, s) /\ SameNames(s.store, store)
    BY DEF NamesKept
  <1>4. Shares(t) /\ Len(t.store) = Len(s.store)
    BY <1>1, <1>3, SharesStep DEF t
  <1>5. /\ s.items \in Seq(E) /\ s.store \in Seq(E) /\ Len(s.items) \in Nat /\ Len(s.store) \in Nat
        /\ DOMAIN s.items = 1 .. Len(s.items) /\ DOMAIN s.store = 1 .. Len(s.store)
        /\ \A m \in DOMAIN s.refs : s.refs[m] \in Nat \ {0}
    BY DEF LoopState, Refs
  <1>6. CASE New(s, el)
    <2>1. t.ok /\ t.store = s.store /\ Appended(s.items, t.items, el)
          /\ Noted(s.refs, t.refs, el.name, n)
      BY <1>1, <1>6, MergeAppends DEF t
    <2>2. ASSUME NEW m \in DOMAIN t.refs, m \notin UpTo(src, n)
          PROVE  t.refs[m] <= Len(t.items) /\ t.items[t.refs[m]].name = m
      <3>1. m \in DOMAIN s.refs /\ t.refs[m] = s.refs[m] /\ m \notin UpTo(src, i)
        BY <1>2, <2>1, <2>2 DEF Noted
      <3>2. s.refs[m] \in 1 .. Len(s.items) /\ s.items[s.refs[m]].name = m
        BY <1>3, <1>5, <3>1 DEF Addressed
      <3>3. t.items[s.refs[m]] = s.items[s.refs[m]] /\ Len(t.items) = Len(s.items) + 1
        BY <2>1, <3>2 DEF Appended
      <3> QED
        BY <1>5, <3>1, <3>2, <3>3
    <2>3. Addressed(src, n, t)
      BY <2>2 DEF Addressed
    <2> QED
      BY <1>3, <1>4, <2>1, <2>3 DEF NamesKept, t, el
  <1>7. CASE el.name \in DOMAIN s.refs
    <2> DEFINE r == s.refs[el.name]
    <2>1. r <= Len(s.items) /\ s.items[r].name = el.name /\ r \in Nat \ {0}
      BY <1>1, <1>3, <1>5, <1>7 DEF Addressed
    <2>2. Found(s, el) /\ r \in 1 .. Len(s.items)
      BY <1>3, <1>5, <1>7, <2>1 DEF Found
    <2>3. /\ t.ok /\ t.refs = s.refs
          /\ Replaced(s.items, t.items, r, merge(s.items[r], el))
          /\ IF s.shared /\ r <= Len(s.store)
               THEN Replaced(s.store, t.store, r, merge(s.store[r], el))
               ELSE t.store = s.store
      BY <1>1, <2>2, MergeFinds DEF t
    <2> HIDE DEF r
    <2>4. merge(s.items[r], el).name = s.items[r].name
      <3>1. s.items[r] \in E
        BY <1>5, <2>2
      <3> QED
        BY <1>1, <2>1, <3>1 DEF Mergeable
    <2>5. Len(t.items) = Len(s.items) /\ \A k \in 1 .. Len(s.items) : t.items[k].name = s.items[k].name
      BY <1>5, <2>3, <2>4 DEF Replaced
    <2>6. Addressed(src, n, t)
      <3>1. ASSUME NEW m \in DOMAIN t.refs, m \notin UpTo(src, n)
            PROVE  t.refs[m] <= Len(t.items) /\ t.items[t.refs[m]].name = m
        <4>1. m \in DOMAIN s.refs /\ t.refs[m] = s.refs[m] /\ m \notin UpTo(src, i)
          BY <1>2, <2>3, <3>1
        <4>2. s.refs[m] \in 1 .. Len(s.items) /\ s.items[s.refs[m]].name = m
          BY <1>3, <1>5, <4>1 DEF Addressed
        <4> QED
          BY <2>5, <4>1, <4>2
      <3> QED
        BY <3>1 DEF Addressed
    <2>7. SameNames(t.store, store)
      <3>1. CASE s.shared /\ r <= Len(s.store)
        <4>1. r \in 1 .. Len(s.store) /\ s.store[r] = s.items[r]
          BY <1>3, <1>5, <2>2, <3>1 DEF Shares, Prefix
        <4>2. Replaced(s.store, t.store, r, merge(s.items[r], el))
          BY <2>3, <3>1, <4>1
        <4>3. \A k \in 1 .. Len(s.store) : t.store[k].name = s.store[k].name
          BY <1>5, <2>4, <4>1, <4>2 DEF Replaced
        <4> QED
          BY <1>3, <1>4, <4>3 DEF SameNames
      <3>2. CASE ~ (s.shared /\ r <= Len(s.store))
        BY <1>3, <2>3, <3>2
      <3> QED
        BY <3>1, <3>2
    <2> QED
      BY <1>4, <2>3, <2>6, <2>7 DEF NamesKept, t, el
  <1> QED
    BY <1>3, <1>6, <1>7 DEF New

(* So does the merge.                                                      *)
LEMMA StoreNamesKept ==
  ASSUME NEW E, Mergeable(E), NEW items, NEW shared, NEW room, NEW store,
         Mergee(E, items, shared, room, store), shared => Prefix(store, items),
         NEW src \in Seq(E), Distinct(src)
  PROVE  SameNames(Transformer(Begun(items, shared, room, store), src).store, store)
  <1> DEFINE s == Begun(items, shared, room, store)
             I == {x \in Nat \X LoopState(E) : NamesKept(src, x[1], store, x[2])}
  <1>1. /\ s \in LoopState(E) /\ s.items = items /\ s.refs = refsFor(items) /\ s.ok
        /\ s.shared = shared /\ s.store = store
    BY BegunState
  <1>2. /\ DOMAIN refsFor(items) = NamesIn(items)
        /\ \A n \in NamesIn(items) : /\ refsFor(items)[n] \in 1 .. Len(items)
                                     /\ items[refsFor(items)[n]].name = n
    BY refsForType DEF Mergee
  <1>3. Len(items) \in Nat /\ Len(src) \in Nat
    BY DEF Mergee
  <1> HIDE DEF s
  <1>4. Addressed(src, 0, s)
    BY <1>1, <1>2, <1>3 DEF Addressed
  <1>5. Shares(s)
    BY <1>1 DEF Shares
  <1>6. SameNames(s.store, store)
    BY <1>1 DEF SameNames
  <1>7. NamesKept(src, 0, store, s)
    BY <1>1, <1>4, <1>5, <1>6 DEF NamesKept
  <1>8. <<0, s>> \in I
    BY <1>1, <1>7
  <1>9. ASSUME NEW n \in Nat, NEW m \in 1 .. Len(src), NEW t, m = n + 1, <<n, t>> \in I
        PROVE  <<m, mergeRefs(t, m, src[m])>> \in I
    <2>1. t \in LoopState(E) /\ NamesKept(src, n, store, t)
      BY <1>9
    <2>2. NamesKept(src, m, store, mergeRefs(t, m, src[m]))
      BY <1>9, <2>1, NamesKeptStep
    <2>3. src[m] \in E /\ m \in Nat \ {0}
      OBVIOUS
    <2>4. mergeRefs(t, m, src[m]) \in LoopState(E)
      BY <2>1, <2>3, MergeRefsType
    <2> QED
      BY <2>2, <2>3, <2>4
  <1> HIDE DEF I
  <1>10. <<Len(src), Transformer(s, src)>> \in I
    BY <1>3, <1>8, <1>9, LoopInduction
  <1> QED
    BY <1>10 DEF I, NamesKept, s

-----------------------------------------------------------------------------
(* What is written while a pipeline is built: timeouts and items of its    *)
(* first two sources, which have no second coordinate.                     *)
Lent(q) == q = None \/ q[2] = 0
Owned ==
  /\ \A q \in Parts :
       /\ mem[q].bare = orig[q].bare /\ Len(mem[q].items) = Len(orig[q].items)
       /\ q[2] > 0 => mem[q].timeouts = orig[q].timeouts /\ mem[q].items = orig[q].items
  /\ pc = "merge" => Lent(run.timeouts) /\ Lent(run.array)
  /\ run.items = <<>> => run.array = None
  /\ run.array # None => Prefix(mem[run.array].items, run.items)

(* nil is no part.                                                         *)
LEMMA NoneIsNoPart ==
  ASSUME BuildInv, job # <<0, 0>>
  PROVE  None \notin Parts
  <1>1. \A p \in Parts : p = <<0, 0>> \/ p \in (DOMAIN filter) \X Nat
    BY DEF BuildInv, Shape
  <1>2. filter \in Seq(Verdicts)
    BY DEF BuildInv
  <1>3. DOMAIN filter \subseteq Nat
    BY <1>2
  <1> QED
    BY <1>1, <1>3, NoneAssumption

(* The first items are taken over as they are.                             *)
LEMMA FirstMerge ==
  ASSUME BuildInv, Owned, job # <<0, 0>>, NEW p \in Parts, NEW m, m = Merged(p),
         run.items = <<>>
  PROVE  /\ m.ok /\ m.items = mem[p].items
         /\ Writes(p, m) => /\ run'.items = mem[p].items
                            /\ run'.array = IF mem[p].items # <<>> THEN p ELSE None
                            /\ \A q \in Parts : mem'[q].items = mem[q].items
  <1>1. m = [items |-> mem[p].items, ok |-> TRUE, shared |-> FALSE, room |-> 0, store |-> <<>>]
    BY DEF Merged
  <1>2. m.ok /\ m.items = mem[p].items /\ ~ m.shared
    BY <1>1
  <1>3. run.array = None /\ None \notin Parts
    BY NoneIsNoPart DEF Owned
  <1>4. \A q \in Parts : run.array # q
    BY <1>3
  <1> QED
    BY <1>2, <1>4 DEF Writes

(* Later ones are merged into them, and into the array they share.         *)
LEMMA LaterMerge ==
  ASSUME BuildInv, Owned, NEW p \in Parts, NEW m, m = Merged(p), run.items # <<>>
  PROVE  /\ m = Transformer(RunBegun, mem[p].items)
         /\ m.items \in Seq(Item) /\ m.store \in Seq(Item)
         /\ Len(m.store) = Len(RunStore) /\ Len(run.items) <= Len(m.items)
         /\ m.shared => run.array # None /\ Prefix(m.store, m.items)
         /\ Writes(p, m) => /\ run'.items = m.items
                            /\ run'.array = IF m.shared THEN run.array ELSE None
                            /\ \A q \in Parts : mem'[q].items =
                                 IF run.array = q THEN m.store ELSE mem[q].items
  <1>1. m = Transformer(RunBegun, mem[p].items)
    BY DEF Merged, RunBegun, RunStore
  <1>2. /\ RunBegun \in LoopState(Item) /\ RunBegun.items = run.items
        /\ RunBegun.shared = (run.array # None) /\ RunBegun.store = RunStore
    BY RunMergee, BegunState DEF RunBegun
  <1>3. mem[p].items \in Seq(Item)
    BY PartTyped
  <1>4. Shares(RunBegun)
    BY <1>2 DEF Shares, Owned, RunStore
  <1>5. /\ Shares(m) /\ Len(m.store) = Len(RunStore) /\ (m.shared => run.array # None)
        /\ Len(run.items) <= Len(m.items)
    <2>1. PICK b \in LoopState(Item) : b = RunBegun
      BY <1>2
    <2>2. PICK src \in Seq(Item) : src = mem[p].items
      BY <1>3
    <2>3. LET t == Transformer(b, src) IN
          /\ Shares(t) /\ Len(t.store) = Len(b.store) /\ (t.shared => b.shared)
          /\ Len(b.items) <= Len(t.items)
      BY <1>4, <2>1, ItemsMerge, SharesKept
    <2> QED
      BY <1>1, <1>2, <2>1, <2>2, <2>3
  <1>6. m.items \in Seq(Item) /\ m.store \in Seq(Item)
    BY MergedType
  <1>7. Writes(p, m) => /\ run'.items = m.items
                        /\ run'.array = IF m.shared THEN run.array ELSE None
                        /\ \A q \in Parts : mem'[q].items =
                             IF run.array = q THEN m.store ELSE mem[q].items
    BY DEF Writes
  <1> QED
    BY <1>1, <1>5, <1>6, <1>7 DEF Shares

(* A source with each name once changes no name in the array.              *)
LEMMA RunStoreNames ==
  ASSUME BuildInv, Owned, NEW src \in Seq(Item), Distinct(src)
  PROVE  SameNames(Transformer(RunBegun, src).store, RunStore)
  <1>1. (run.array # None) => Prefix(RunStore, run.items)
    BY DEF Owned, RunStore
  <1>2. Mergee(Item, run.items, run.array # None, run.room, RunStore)
    BY RunMergee
  <1>3. RunBegun = Begun(run.items, run.array # None, run.room, RunStore)
    BY DEF RunBegun
  <1> QED
    BY <1>1, <1>2, <1>3, ItemsMerge, StoreNamesKept, Zenon

(* A merge writes to no pipeline, only to defaults.                        *)
LEMMA MergeOwned ==
  ASSUME BuildInv, Owned, Merge, mode' = mode
  PROVE  Owned'
  <1> DEFINE p == Sources(job)[step]
             m == Merged(p)
  <1>1. /\ pc = "merge" /\ step \in 1 .. 3 /\ p \in Parts /\ job # <<0, 0>>
        /\ job \in Parts /\ orig' = orig
    BY MergeDoes DEF MergesTo
  <1>2. MergesTo(p, m)
    BY MergeDoes
  <1>3. /\ Lent(run.timeouts) /\ Lent(run.array) /\ None \notin Parts
        /\ \A q \in Parts : /\ mem[q].bare = orig[q].bare
                            /\ Len(mem[q].items) = Len(orig[q].items)
                            /\ q[2] > 0 => /\ mem[q].timeouts = orig[q].timeouts
                                           /\ mem[q].items = orig[q].items
    BY <1>1, NoneIsNoPart DEF Owned
  <1>4. step # 3 => Lent(p)
    BY <1>1, SourcesOf DEF Lent
  <1>5. m = Merged(p)
    OBVIOUS
  <1> HIDE DEF p, m
  <1>6. CASE run.bare \/ ~ m.ok
    <2>1. UNCHANGED <<mem, run, orig>> /\ pc' = "end" /\ Parts' = Parts
      BY <1>2, <1>6 DEF MergesTo, Parts
    <2> QED
      BY <2>1 DEF Owned
  <1>7. CASE ~ (run.bare \/ ~ m.ok)
    <2>1. Writes(p, m) /\ pc' = IF step = 3 THEN "reconcile" ELSE "merge"
      BY <1>2, <1>7 DEF MergesTo
    <2>2. Parts' = Parts
      BY <2>1 DEF Writes, Parts
    <2>3. ASSUME NEW q \in Parts, q[2] > 0
          PROVE  q # run.timeouts /\ q # run.array
      BY <1>3, <2>3 DEF Lent
    <2>4. \A q \in Parts : q[2] > 0 => mem'[q].timeouts = orig'[q].timeouts
      BY <1>1, <1>3, <2>1, <2>3 DEF Writes
    <2>5. \A q \in Parts : mem'[q].bare = orig'[q].bare
      BY <1>1, <1>3, <2>1 DEF Writes
    <2>6. pc' = "merge" => Lent(run'.timeouts)
      BY <1>3, <1>4, <2>1 DEF Writes
    <2>7. CASE run.items = <<>>
      <3>1. /\ run'.items = mem[p].items /\ run'.array = IF mem[p].items # <<>> THEN p ELSE None
            /\ \A q \in Parts : mem'[q].items = mem[q].items
        BY <1>1, <1>5, <2>1, <2>7, FirstMerge
      <3>2. pc' = "merge" => Lent(run'.array)
        BY <1>4, <2>1, <3>1 DEF Lent
      <3>3. mem[p].items \in Seq(Item)
        BY <1>1, PartTyped
      <3>4. run'.array # None => Prefix(mem'[run'.array].items, run'.items)
        BY <1>1, <3>1, <3>3 DEF Prefix
      <3> QED
        BY <1>1, <1>3, <2>2, <2>4, <2>5, <2>6, <3>1, <3>2, <3>4 DEF Owned, Lent
    <2>8. CASE run.items # <<>>
      <3>1. /\ m.items \in Seq(Item) /\ m.store \in Seq(Item)
            /\ Len(m.store) = Len(RunStore) /\ Len(run.items) <= Len(m.items)
            /\ m.shared => run.array # None /\ Prefix(m.store, m.items)
            /\ run'.items = m.items
            /\ run'.array = IF m.shared THEN run.array ELSE None
            /\ \A q \in Parts : mem'[q].items = IF run.array = q THEN m.store ELSE mem[q].items
        BY <1>1, <1>5, <2>1, <2>8, LaterMerge
      <3>2. run.items \in Seq(Item) /\ run.array \in Parts \cup {None}
        BY DEF BuildInv, BuildTypeOK
      <3>3. run'.items # <<>>
        BY <2>8, <3>1, <3>2
      <3>4. pc' = "merge" => Lent(run'.array)
        BY <1>3, <3>1 DEF Lent
      <3>5. run'.array # None => Prefix(mem'[run'.array].items, run'.items)
        BY <3>1, <3>2
      <3>6. \A q \in Parts : Len(mem'[q].items) = Len(orig'[q].items)
        <4>1. ASSUME NEW q \in Parts PROVE Len(mem'[q].items) = Len(mem[q].items)
          BY <1>3, <3>1 DEF RunStore
        <4> QED
          BY <1>1, <1>3, <4>1
      <3>7. \A q \in Parts : q[2] > 0 => mem'[q].items = orig'[q].items
        BY <1>1, <1>3, <2>3, <3>1
      <3> QED
        BY <2>2, <2>4, <2>5, <2>6, <3>3, <3>4, <3>5, <3>6, <3>7 DEF Owned, Lent
    <2> QED
      BY <2>7, <2>8
  <1> QED
    BY <1>6, <1>7

(* Nor does any other step.                                                *)
LEMMA BuildOwned ==
  ASSUME BuildInv, Owned, Build, mode' = mode
  PROVE  Owned'
  <1>1. CASE Match
    <2>1. /\ mem' = mem /\ orig' = orig /\ Parts' = Parts /\ pc' # "reconcile"
          /\ (run' = run /\ pc' = "end") \/ run' = EmptyRun
      BY <1>1 DEF Match, Finish, Parts
    <2>2. CASE run' = run /\ pc' = "end"
      BY <2>1, <2>2 DEF Owned
    <2>3. CASE run' = EmptyRun
      BY <2>1, <2>3 DEF Owned, EmptyRun, Lent
    <2> QED
      BY <2>1, <2>2, <2>3
  <1>2. CASE Merge
    BY <1>2, MergeOwned
  <1>3. CASE Reconcile
    <2>1. /\ orig' = orig
          /\ IF Fails THEN pc' = "end" /\ UNCHANGED <<mem, run>>
             ELSE WritesValues /\ run' = EmptyRun
      BY <1>3, ReconcileDoes
    <2>2. CASE Fails
      BY <2>1, <2>2 DEF Owned, Parts
    <2>3. CASE ~ Fails
      <3>1. WritesValues /\ run' = EmptyRun
        BY <2>1, <2>3
      <3>2. Parts' = Parts
        BY <3>1 DEF WritesValues, Parts
      <3>3. /\ run'.array = None /\ run'.timeouts = None
        BY <3>1 DEF EmptyRun
      <3>4. \A q \in Parts :
              /\ mem'[q].bare = orig'[q].bare /\ Len(mem'[q].items) = Len(orig'[q].items)
              /\ q[2] > 0 => mem'[q].timeouts = orig'[q].timeouts /\ mem'[q].items = orig'[q].items
        BY <2>1, <3>1 DEF WritesValues, Owned
      <3> QED
        BY <3>2, <3>3, <3>4 DEF Owned, Lent
    <2> QED
      BY <2>2, <2>3
  <1> QED
    BY <1>1, <1>2, <1>3 DEF Build

-----------------------------------------------------------------------------
(* The names of the sources that are merged before the n-th.               *)
NamesUpTo(o, j, n) == UNION {NamesIn(o[Sources(j)[s]].items) : s \in 1 .. n - 1}
Covers(o, j, items) ==
  \A n \in NamesIn(o[j].items) : ValueIn(o[j].items, n) # None =>
    ValueIn(items, n) = ValueIn(o[j].items, n)
OwnIn(o, b) ==
  /\ o[b.job].timeouts # None => b.timeouts = o[b.job].timeouts
  /\ Covers(o, b.job, b.items)
  /\ Distinct(b.items)
  /\ NamesIn(b.items) = NamesUpTo(o, b.job, 4)

(* Nothing that is written changes a name, if names are distinct.          *)
Gathered ==
  /\ \A q \in Parts : SameNames(mem[q].items, orig[q].items)
  /\ pc \in {"merge", "reconcile"} =>
       Distinct(run.items) /\ NamesIn(run.items) = NamesUpTo(orig, job, step)
  /\ pc = "reconcile" =>
       /\ orig[job].timeouts # None =>
            run.timeouts # None /\ mem[run.timeouts].timeouts = orig[job].timeouts
       /\ Covers(orig, job, run.items)
  /\ \A i \in DOMAIN built : OwnIn(orig, built[i])

(* What a PipelineRun has of its pipeline, said as the property says it.   *)
LEMMA OwnMeans ==
  ASSUME WellNamed => \A i \in DOMAIN built : OwnIn(orig, built[i]), Labelled(built)
  PROVE  OwnPartWins
  <1>1. ASSUME NEW j
        PROVE  NamesUpTo(orig, j, 4) = UNION {NamesIn(orig[Sources(j)[s]].items) : s \in 1 .. 3}
    BY DEF NamesUpTo
  <1> QED
    BY <1>1 DEF OwnPartWins, OwnIn, Covers, Labelled

(* The names of the sources, one source on.                                *)
LEMMA NamesUpToGrows ==
  ASSUME NEW o, NEW j, NEW n \in 1 .. 3, NEW k, k = n + 1
  PROVE  /\ NamesUpTo(o, j, 1) = {}
         /\ NamesUpTo(o, j, k) = NamesUpTo(o, j, n) \cup NamesIn(o[Sources(j)[n]].items)
  <1>1. 1 .. 1 - 1 = {} /\ 1 .. k - 1 = (1 .. n - 1) \cup {n}
    OBVIOUS
  <1> QED
    BY <1>1 DEF NamesUpTo

(* Slices with the same names have the same set of names.                  *)
LEMMA SameNamesSame ==
  ASSUME NEW x \in Seq(Item), NEW y \in Seq(Item), SameNames(x, y)
  PROVE  NamesIn(x) = NamesIn(y) /\ (Distinct(y) => Distinct(x))
  <1>1. DOMAIN x = 1 .. Len(x) /\ DOMAIN y = 1 .. Len(x)
    BY DEF SameNames
  <1>2. \A k \in 1 .. Len(x) : x[k].name = y[k].name
    BY DEF SameNames
  <1> QED
    BY <1>1, <1>2 DEF NamesIn, Distinct

(* The names of three slices.                                              *)
LEMMA SameNamesTransitive ==
  ASSUME NEW x, NEW y, NEW z, SameNames(x, y), SameNames(y, z)
  PROVE  SameNames(x, z)
  BY DEF SameNames

(* An empty slice has no names.                                            *)
LEMMA EmptyNames ==
  Distinct(<<>>) /\ NamesIn(<<>>) = {}
  BY DEF Distinct, NamesIn

(* What a part holds is distinct as it was.                                *)
LEMMA StillDistinct ==
  ASSUME BuildInv, Gathered, WellNamed, NEW q \in Parts
  PROVE  Distinct(mem[q].items) /\ NamesIn(mem[q].items) = NamesIn(orig[q].items)
  <1>1. mem[q].items \in Seq(Item) /\ orig[q].items \in Seq(Item)
    BY PartTyped
  <1>2. SameNames(mem[q].items, orig[q].items) /\ Distinct(orig[q].items)
    BY DEF Gathered, WellNamed
  <1> QED
    BY <1>1, <1>2, SameNamesSame

(* A merge gathers the names of its source, the values of the last.        *)
LEMMA MergeGathers ==
  ASSUME BuildInv, Owned, Gathered, WellNamed, Merge, mode' = mode
  PROVE  Gathered'
  <1> DEFINE p == Sources(job)[step]
             m == Merged(p)
  <1>1. /\ pc = "merge" /\ step \in 1 .. 3 /\ p \in Parts /\ job # <<0, 0>>
        /\ job \in Parts /\ job[2] > 0
    BY MergeDoes DEF MergesTo, BuildInv, Place
  <1>2. MergesTo(p, m) /\ UNCHANGED <<orig, job, built>>
    BY MergeDoes DEF MergesTo
  <1>3. None \notin Parts /\ step = 3 => p = job
    BY <1>1, NoneIsNoPart, SourcesOf
  <1>4. /\ Distinct(mem[p].items) /\ NamesIn(mem[p].items) = NamesIn(orig[p].items)
        /\ mem[p].items \in Seq(Item)
    BY <1>1, StillDistinct, PartTyped
  <1>5. /\ Distinct(run.items) /\ NamesIn(run.items) = NamesUpTo(orig, job, step)
        /\ \A q \in Parts : SameNames(mem[q].items, orig[q].items)
        /\ \A i \in DOMAIN built : OwnIn(orig, built[i])
    BY <1>1 DEF Gathered
  <1>6. NamesUpTo(orig, job, step + 1) = NamesUpTo(orig, job, step) \cup NamesIn(orig[p].items)
    BY <1>1, NamesUpToGrows
  <1>7. mem[job].items = orig[job].items /\ mem[job].timeouts = orig[job].timeouts
    BY <1>1 DEF Owned
  <1>8. /\ run.items \in Seq(Item) /\ run.array \in Parts \cup {None}
        /\ run.timeouts \in Parts \cup {None}
    BY DEF BuildInv, BuildTypeOK
  <1>9. m = Merged(p)
    OBVIOUS
  <1>10. None \notin Parts
    BY <1>1, NoneIsNoPart
  <1>11. step = 3 => p = job
    BY SourcesOf
  <1> HIDE DEF p, m
  <1>12. CASE run.bare \/ ~ m.ok
    <2>1. UNCHANGED <<mem, run, orig, built>> /\ pc' = "end" /\ Parts' = Parts
      BY <1>2, <1>12 DEF MergesTo, Parts
    <2> QED
      BY <1>5, <2>1 DEF Gathered
  <1>13. CASE ~ (run.bare \/ ~ m.ok)
    <2>1. /\ Writes(p, m) /\ step' = step + 1
          /\ pc' = IF step = 3 THEN "reconcile" ELSE "merge"
      BY <1>2, <1>13 DEF MergesTo
    <2>2. Parts' = Parts
      BY <2>1 DEF Writes, Parts
    <2>3. ASSUME step = 3, orig[job].timeouts # None
          PROVE  run'.timeouts # None /\ mem'[run'.timeouts].timeouts = orig[job].timeouts
      <3>1. mem[p].timeouts = orig[job].timeouts /\ mem[p].timeouts # None
        BY <1>7, <1>11, <2>3
      <3>2. CASE run.timeouts = None
        BY <1>1, <1>10, <2>1, <3>1, <3>2 DEF Writes
      <3>3. CASE run.timeouts # None
        BY <1>8, <2>1, <3>1, <3>3 DEF Writes
      <3> QED
        BY <3>2, <3>3
    <2>4. /\ \A q \in Parts : SameNames(mem'[q].items, orig[q].items)
          /\ Distinct(run'.items)
          /\ NamesIn(run'.items) = NamesIn(run.items) \cup NamesIn(mem[p].items)
          /\ step = 3 => Covers(orig, job, run'.items)
      <3>1. CASE run.items = <<>>
        <4>1. /\ run'.items = mem[p].items
              /\ \A q \in Parts : mem'[q].items = mem[q].items
          BY <1>1, <1>9, <2>1, <3>1, FirstMerge
        <4>2. step = 3 => Covers(orig, job, run'.items)
          BY <1>7, <1>11, <4>1 DEF Covers
        <4> QED
          BY <1>4, <1>5, <3>1, <4>1, <4>2, EmptyNames
      <3>2. CASE run.items # <<>>
        <4>1. /\ m = Transformer(RunBegun, mem[p].items)
              /\ m.items \in Seq(Item) /\ m.store \in Seq(Item)
              /\ run'.items = m.items
              /\ \A q \in Parts : mem'[q].items = IF run.array = q THEN m.store ELSE mem[q].items
          BY <1>1, <1>9, <2>1, <3>2, LaterMerge
        <4>2. IsMerge(run.items, mem[p].items, m.items)
          BY <1>4, <1>5, <4>1, RunMergee, ItemsMerge, TransformerMerges DEF RunBegun
        <4>3. run.array # None => SameNames(m.store, mem[run.array].items)
          <5>1. SameNames(m.store, RunStore)
            BY <1>4, <4>1, RunStoreNames
          <5> QED
            BY <5>1 DEF RunStore
        <4>4. \A q \in Parts : SameNames(mem'[q].items, orig[q].items)
          BY <1>5, <1>10, <4>1, <4>3, SameNamesTransitive
        <4>5. step = 3 => Covers(orig, job, run'.items)
          <5>1. ASSUME NEW n PROVE ValueIn(m.items, n) = Later(ValueIn(run.items, n), ValueIn(mem[p].items, n))
            BY <1>4, <1>5, <1>8, <4>1, <4>2, MergedValues
          <5> QED
            BY <1>7, <1>11, <4>1, <5>1 DEF Covers, Later
        <4> QED
          BY <4>1, <4>2, <4>4, <4>5 DEF IsMerge
      <3> QED
        BY <3>1, <3>2
    <2>5. NamesIn(run'.items) = NamesUpTo(orig', job', step')
      BY <1>2, <1>4, <1>5, <1>6, <2>1, <2>4
    <2> QED
      BY <1>2, <1>5, <2>1, <2>2, <2>3, <2>4, <2>5 DEF Gathered
  <1> QED
    BY <1>12, <1>13

(* Every step of a build keeps what is gathered.                           *)
LEMMA BuildGathers ==
  ASSUME BuildInv, Owned, Gathered, WellNamed, Build, mode' = mode
  PROVE  Gathered'
  <1>1. ASSUME NEW j PROVE Distinct(EmptyRun.items) /\ NamesIn(EmptyRun.items) = NamesUpTo(orig, j, 1)
    <2>1. NamesUpTo(orig, j, 1) = {}
      BY 1 \in 1 .. 3, 2 = 1 + 1, NamesUpToGrows
    <2> QED
      BY <2>1, EmptyNames DEF EmptyRun
  <1>2. CASE Match
    <2>1. /\ mem' = mem /\ orig' = orig /\ built' = built /\ Parts' = Parts /\ pc' # "reconcile"
          /\ pc' = "end" \/ (run' = EmptyRun /\ step' = 1)
      BY <1>2 DEF Match, Finish, Parts
    <2> QED
      BY <1>1, <2>1 DEF Gathered
  <1>3. CASE Merge
    BY <1>3, MergeGathers
  <1>4. CASE Reconcile
    <2>1. /\ orig' = orig /\ pc = "reconcile" /\ step = 4 /\ job \in Parts
          /\ IF Fails THEN pc' = "end" /\ UNCHANGED <<mem, run, built>>
             ELSE /\ WritesValues /\ run' = EmptyRun /\ step' = 1 /\ Following
                  /\ built' = Append(built, Finished)
      BY <1>4, ReconcileDoes
    <2>2. CASE Fails
      BY <2>1, <2>2 DEF Gathered, Parts
    <2>3. CASE ~ Fails
      <3>1. /\ WritesValues /\ run' = EmptyRun /\ step' = 1 /\ pc' # "reconcile"
            /\ built' = Append(built, Finished)
        BY <2>1, <2>3 DEF Following
      <3>2. Parts' = Parts /\ \A q \in Parts : mem'[q].items = mem[q].items
        BY <3>1 DEF WritesValues, Parts
      <3>3. /\ Finished.job = job /\ Finished.items = run.items
            /\ Finished.timeouts = IF run.timeouts = None THEN None ELSE mem[run.timeouts].timeouts
        BY DEF Finished
      <3>4. OwnIn(orig, Finished)
        BY <2>1, <3>3 DEF Gathered, OwnIn
      <3>5. built \in Seq([job : Parts, timeouts : Source \cup {None}, label : Label,
                           items : Seq(Item), params : Seq(Param)])
        BY DEF BuildInv, BuildTypeOK
      <3>6. \A i \in DOMAIN built' : OwnIn(orig, built'[i])
        <4>1. PICK f : f = Finished
          OBVIOUS
        <4>2. built' = Append(built, f) /\ OwnIn(orig, f) /\ \A i \in DOMAIN built : OwnIn(orig, built[i])
          BY <3>1, <3>4, <4>1 DEF Gathered
        <4>3. \A i \in DOMAIN built' : built'[i] = f \/ (i \in DOMAIN built /\ built'[i] = built[i])
          BY <3>5, <4>2
        <4> QED
          BY <4>2, <4>3
      <3> QED
        BY <1>1, <2>1, <3>1, <3>2, <3>6 DEF Gathered
    <2> QED
      BY <2>2, <2>3
  <1> QED
    BY <1>2, <1>3, <1>4 DEF Build

-----------------------------------------------------------------------------
(* Two merges that see the same names address the same elements.           *)
Alike(a, b) == a.ok = b.ok /\ (a.ok => a.refs = b.refs /\ SameNames(a.items, b.items))

(* Equal names are noted with equal indices.                               *)
LEMMA SameRefs ==
  ASSUME NEW x \in Seq(Item), NEW y \in Seq(Item), SameNames(x, y)
  PROVE  refsFor(x) = refsFor(y)
  <1>1. DOMAIN x = 1 .. Len(x) /\ DOMAIN y = 1 .. Len(x) /\ Len(x) \in Nat /\ Len(y) = Len(x)
        /\ \A k \in 1 .. Len(x) : x[k].name = y[k].name
    BY DEF SameNames
  <1>2. NamesIn(x) = NamesIn(y)
    BY SameNamesSame
  <1>3. /\ DOMAIN refsFor(x) = NamesIn(x) /\ DOMAIN refsFor(y) = NamesIn(x)
        /\ refsFor(x) = [n \in NamesIn(x) |-> refsFor(x)[n]]
        /\ refsFor(y) = [n \in NamesIn(y) |-> refsFor(y)[n]]
    <2>1. refsFor(x) \in Refs(Item) /\ refsFor(y) \in Refs(Item)
      BY refsForType
    <2> QED
      BY <1>2, <2>1, refsForType DEF Refs
  <1>4. ASSUME NEW n \in NamesIn(x) PROVE refsFor(x)[n] = refsFor(y)[n]
    <2>1. PICK i : i = refsFor(x)[n]
      OBVIOUS
    <2>2. PICK j : j = refsFor(y)[n]
      OBVIOUS
    <2>3. /\ i \in 1 .. Len(x) /\ x[i].name = n
          /\ \A k \in DOMAIN x : x[k].name = n => k <= i
      BY <2>1, refsForType
    <2>4. /\ j \in 1 .. Len(y) /\ y[j].name = n
          /\ \A k \in DOMAIN y : y[k].name = n => k <= j
      BY <1>2, <2>2, refsForType
    <2>5. i <= j /\ j <= i
      BY <1>1, <2>3, <2>4
    <2> QED
      BY <1>1, <2>1, <2>2, <2>3, <2>4, <2>5
  <1> QED
    BY <1>2, <1>3, <1>4

(* One element, merged into two slices with the same names, leaves the     *)
(* same names, or panics in both.                                          *)
LEMMA AlikeStep ==
  ASSUME NEW a \in LoopState(Item), NEW b \in LoopState(Item), Alike(a, b),
         NEW d \in Item, NEW e \in Item, d.name = e.name, NEW i \in Nat \ {0}
  PROVE  Alike(mergeRefs(a, i, d), mergeRefs(b, i, e))
  <1> DEFINE u == mergeRefs(a, i, d)
             v == mergeRefs(b, i, e)
  <1>1. CASE ~ a.ok
    BY <1>1, MergeStops DEF Alike
  <1>2. CASE a.ok
    <2>1. /\ b.ok /\ a.refs = b.refs /\ SameNames(a.items, b.items)
          /\ Len(a.items) = Len(b.items) /\ Len(a.items) \in Nat
          /\ DOMAIN a.items = 1 .. Len(a.items) /\ DOMAIN b.items = 1 .. Len(a.items)
          /\ \A k \in 1 .. Len(a.items) : a.items[k].name = b.items[k].name
          /\ a.items \in Seq(Item) /\ b.items \in Seq(Item)
      BY <1>2 DEF Alike, SameNames, LoopState
    <2>2. CASE New(a, d)
      <3>1. New(b, e)
        BY <2>1, <2>2 DEF New
      <3>2. /\ u.ok /\ Appended(a.items, u.items, d) /\ Noted(a.refs, u.refs, d.name, i)
            /\ u \in LoopState(Item)
        BY <2>2, MergeAppends
      <3>3. /\ v.ok /\ Appended(b.items, v.items, e) /\ Noted(b.refs, v.refs, e.name, i)
            /\ v \in LoopState(Item)
        BY <3>1, MergeAppends
      <3> HIDE DEF u, v
      <3>4. u.refs = [n \in DOMAIN u.refs |-> u.refs[n]] /\ v.refs = [n \in DOMAIN v.refs |-> v.refs[n]]
        <4>1. u.refs \in Refs(Item) /\ v.refs \in Refs(Item)
          BY <3>2, <3>3 DEF LoopState
        <4> QED
          BY <4>1 DEF Refs
      <3>5. DOMAIN u.refs = DOMAIN v.refs
        BY <2>1, <3>2, <3>3 DEF Noted
      <3>6. \A n \in DOMAIN u.refs : u.refs[n] = v.refs[n]
        BY <2>1, <3>2, <3>3 DEF Noted
      <3>7. u.refs = v.refs
        BY <3>4, <3>5, <3>6
      <3>8. SameNames(u.items, v.items)
        <4>1. PICK n \in Nat : n = Len(a.items)
          BY <2>1
        <4>2. /\ Len(u.items) = n + 1 /\ Len(v.items) = n + 1
              /\ u.items[n + 1] = d /\ v.items[n + 1] = e
              /\ \A k \in 1 .. n : u.items[k] = a.items[k] /\ v.items[k] = b.items[k]
          BY <2>1, <3>2, <3>3, <4>1 DEF Appended
        <4>3. \A k \in 1 .. n : a.items[k].name = b.items[k].name
          BY <2>1, <4>1
        <4>4. \A k \in 1 .. n + 1 : k \in 1 .. n \/ k = n + 1
          BY <4>1
        <4>5. \A k \in 1 .. n + 1 : u.items[k].name = v.items[k].name
          BY <4>2, <4>3, <4>4
        <4> QED
          BY <4>2, <4>5 DEF SameNames
      <3> QED
        BY <3>2, <3>3, <3>7, <3>8 DEF Alike, u, v
    <2>3. CASE Missing(a, d)
      <3>1. Missing(b, e)
        BY <2>1, <2>3 DEF Missing
      <3>2. ~ u.ok /\ ~ v.ok /\ u.ok \in BOOLEAN /\ v.ok \in BOOLEAN
        BY <2>3, <3>1, MergeMisses DEF LoopState
      <3> QED
        BY <3>2 DEF Alike
    <2>4. CASE Found(a, d)
      <3>1. Found(b, e)
        BY <2>1, <2>4 DEF Found
      <3> DEFINE r == a.refs[d.name]
      <3>2. /\ r \in 1 .. Len(a.items) /\ u.ok /\ u.refs = a.refs
            /\ Replaced(a.items, u.items, r, merge(a.items[r], d))
        BY <2>4, ItemsMerge, MergeFinds
      <3>3. /\ v.ok /\ v.refs = b.refs
            /\ Replaced(b.items, v.items, r, merge(b.items[r], e))
        BY <2>1, <3>1, ItemsMerge, MergeFinds
      <3> HIDE DEF u, v, r
      <3>4. merge(a.items[r], d).name = d.name /\ merge(b.items[r], e).name = e.name
        <4>1. a.items[r] \in Item /\ b.items[r] \in Item
          BY <2>1, <3>2
        <4> QED
          BY <4>1, ItemMerged
      <3>5. \A k \in 1 .. Len(a.items) : u.items[k].name = v.items[k].name
        BY <2>1, <3>2, <3>3, <3>4 DEF Replaced
      <3>6. SameNames(u.items, v.items)
        BY <2>1, <3>2, <3>3, <3>5 DEF Replaced, SameNames
      <3> QED
        BY <2>1, <3>2, <3>3, <3>6 DEF Alike, u, v
    <2> QED
      BY <1>2, <2>2, <2>3, <2>4, MergeRefsCases
  <1> QED
    BY <1>1, <1>2

(* So does the merge, whatever arrays are shared.                          *)
LEMMA AlikeMerges ==
  ASSUME NEW x, NEW shared, NEW room, NEW store, Mergee(Item, x, shared, room, store),
         NEW y \in Seq(Item), NEW c \in Seq(Item), NEW d \in Seq(Item),
         SameNames(x, y), SameNames(c, d)
  PROVE  Alike(Transformer(Begun(x, shared, room, store), c), Transformer(Alone(y), d))
  <1>1. PICK a : a = Begun(x, shared, room, store)
    OBVIOUS
  <1>2. PICK b : b = Alone(y)
    OBVIOUS
  <1>3. /\ a \in LoopState(Item) /\ a.items = x /\ a.refs = refsFor(x) /\ a.ok
    BY <1>1, BegunState
  <1>4. /\ b \in LoopState(Item) /\ b.items = y /\ b.refs = refsFor(y) /\ b.ok
    <2>1. Mergee(Item, y, FALSE, 0, <<>>) /\ b = Begun(y, FALSE, 0, <<>>)
      BY <1>2, AloneMergee
    <2>2. b = [items |-> y, refs |-> refsFor(y), ok |-> TRUE, shared |-> FALSE, room |-> 0,
               store |-> <<>>]
      BY <2>1 DEF Begun
    <2>3. refsFor(y) \in Refs(Item) /\ <<>> \in Seq(Item)
      BY refsForType
    <2> QED
      BY <2>2, <2>3 DEF LoopState
  <1>5. x \in Seq(Item)
    BY DEF Mergee
  <1>6. Alike(a, b)
    <2>1. refsFor(x) = refsFor(y)
      BY <1>5, SameRefs
    <2> QED
      BY <1>3, <1>4, <2>1 DEF Alike
  <1>7. Len(c) \in Nat /\ Len(d) = Len(c) /\ \A k \in 1 .. Len(c) : c[k].name = d[k].name
    BY DEF SameNames
  <1> DEFINE P == {n \in Nat : n <= Len(c) => Alike(Loop(a, c)[n], Loop(b, d)[n])}
  <1>8. 0 \in P
    BY <1>6, <1>7, LoopUnrolls
  <1>9. ASSUME NEW n \in Nat, n \in P PROVE n + 1 \in P
    <2>1. CASE n + 1 <= Len(c)
      <3>1. PICK m \in 1 .. Len(c) : m = n + 1
        BY <1>7, <2>1
      <3>2. PICK u : u = Loop(a, c)[n]
        OBVIOUS
      <3>3. PICK v : v = Loop(b, d)[n]
        OBVIOUS
      <3>4. n \in 0 .. Len(c) /\ m - 1 = n /\ c[m] \in Item /\ d[m] \in Item /\ c[m].name = d[m].name
            /\ m \in Nat \ {0} /\ m \in 1 .. Len(d)
        BY <1>7, <3>1
      <3>5. u \in LoopState(Item) /\ v \in LoopState(Item)
        BY <1>3, <1>4, <1>7, <3>2, <3>3, <3>4, ItemsMerge, LoopType
      <3>6. Alike(u, v)
        BY <1>7, <1>9, <2>1, <3>2, <3>3
      <3>7. Loop(a, c)[m] = mergeRefs(u, m, c[m])
        BY <1>7, <3>1, <3>2, <3>4, LoopUnrolls
      <3>8. Loop(b, d)[m] = mergeRefs(v, m, d[m])
        BY <1>7, <3>1, <3>3, <3>4, LoopUnrolls
      <3>9. Alike(Loop(a, c)[m], Loop(b, d)[m])
        BY <3>4, <3>5, <3>6, <3>7, <3>8, AlikeStep
      <3> QED
        BY <3>1, <3>9
    <2> QED
      BY <2>1
  <1> HIDE DEF P
  <1>10. Nat \subseteq P
    BY <1>8, <1>9, SetInduction
  <1>11. Alike(Loop(a, c)[Len(c)], Loop(b, d)[Len(d)])
    BY <1>7, <1>10 DEF P
  <1> QED
    BY <1>1, <1>2, <1>11 DEF Transformer

-----------------------------------------------------------------------------
(* Names that are distinct stay so in the shared array, whatever is merged:*)
(* each of them is noted with its place.                                   *)
Rooted(s) ==
  s.ok => \A k \in 1 .. Len(s.store) :
    s.store[k].name \in DOMAIN s.refs /\ s.refs[s.store[k].name] = k

(* One element keeps every name of the shared array noted with its own     *)
(* place.                                                                  *)
LEMMA RootedStep ==
  ASSUME NEW s \in LoopState(Item), NEW el \in Item, NEW i \in Nat \ {0}, Rooted(s)
  PROVE  Rooted(mergeRefs(s, i, el))
  <1> DEFINE t == mergeRefs(s, i, el)
  <1>1. CASE ~ s.ok
    BY <1>1, MergeStops
  <1>2. CASE New(s, el)
    <2>1. t.store = s.store /\ Noted(s.refs, t.refs, el.name, i)
      BY <1>2, MergeAppends
    <2> HIDE DEF t
    <2>2. \A k \in 1 .. Len(s.store) :
            s.store[k].name \in DOMAIN s.refs /\ s.refs[s.store[k].name] = k
      BY <1>2 DEF Rooted, New
    <2>3. Rooted(t)
      BY <1>2, <2>1, <2>2 DEF Rooted, New, Noted
    <2> QED
      BY <2>3 DEF t
  <1>3. CASE Missing(s, el)
    BY <1>3, MergeMisses DEF Rooted
  <1>4. CASE Found(s, el)
    <2> DEFINE r == s.refs[el.name]
    <2>1. /\ r \in 1 .. Len(s.items) /\ t.refs = s.refs
          /\ IF s.shared /\ r <= Len(s.store)
               THEN Replaced(s.store, t.store, r, merge(s.store[r], el))
               ELSE t.store = s.store
      BY <1>4, ItemsMerge, MergeFinds
    <2> HIDE DEF t
    <2>2. /\ s.ok /\ el.name \in DOMAIN s.refs /\ s.store \in Seq(Item)
          /\ Len(s.store) \in Nat /\ Len(s.items) \in Nat
      BY <1>4 DEF Found, LoopState
    <2>3. \A k \in 1 .. Len(s.store) :
            s.store[k].name \in DOMAIN s.refs /\ s.refs[s.store[k].name] = k
      BY <2>2 DEF Rooted
    <2>4. CASE s.shared /\ r <= Len(s.store)
      <3>1. r \in 1 .. Len(s.store) /\ s.store[r] \in Item
        BY <2>1, <2>2, <2>4
      <3>2. merge(s.store[r], el).name = el.name
        BY <3>1, ItemMerged
      <3>3. Replaced(s.store, t.store, r, merge(s.store[r], el))
        BY <2>1, <2>4
      <3>4. PICK x : x = merge(s.store[r], el)
        OBVIOUS
      <3>5. x.name = el.name /\ Replaced(s.store, t.store, r, x)
        BY <3>2, <3>3, <3>4
      <3>6. \A k \in 1 .. Len(t.store) :
              t.store[k].name \in DOMAIN s.refs /\ s.refs[t.store[k].name] = k
        BY <2>2, <2>3, <3>1, <3>5 DEF Replaced
      <3> QED
        BY <2>1, <3>6 DEF Rooted, t
    <2>5. CASE ~ (s.shared /\ r <= Len(s.store))
      BY <2>1, <2>3, <2>5 DEF Rooted, t
    <2> QED
      BY <2>4, <2>5
  <1> QED
    BY <1>1, <1>2, <1>3, <1>4, MergeRefsCases

(* So the names in it stay distinct, even if those merged are not.         *)
LEMMA StoreDistinct ==
  ASSUME NEW items, NEW shared, NEW room, NEW store,
         Mergee(Item, items, shared, room, store), Prefix(store, items),
         NEW src \in Seq(Item), Distinct(items),
         Transformer(Begun(items, shared, room, store), src).ok
  PROVE  Distinct(Transformer(Begun(items, shared, room, store), src).store)
  <1> DEFINE s == Begun(items, shared, room, store)
             I == {x \in Nat \X LoopState(Item) : Rooted(x[2])}
  <1>1. /\ s \in LoopState(Item) /\ s.items = items /\ s.refs = refsFor(items) /\ s.ok
        /\ s.shared = shared /\ s.store = store
    BY BegunState
  <1>2. /\ DOMAIN refsFor(items) = NamesIn(items)
        /\ \A n \in NamesIn(items) : /\ refsFor(items)[n] \in 1 .. Len(items)
                                     /\ items[refsFor(items)[n]].name = n
    BY refsForType DEF Mergee
  <1>3. /\ Len(items) \in Nat /\ Len(src) \in Nat /\ DOMAIN items = 1 .. Len(items)
        /\ Len(store) \in Nat
    BY DEF Mergee
  <1> HIDE DEF s
  <1>4. Rooted(s)
    <2>1. ASSUME NEW k \in 1 .. Len(store)
          PROVE  store[k].name \in NamesIn(items) /\ refsFor(items)[store[k].name] = k
      <3>1. store[k] = items[k] /\ k \in DOMAIN items
        BY <1>3 DEF Prefix
      <3>2. items[k].name \in NamesIn(items)
        BY <3>1 DEF NamesIn
      <3>3. PICK r : r = refsFor(items)[items[k].name]
        OBVIOUS
      <3>4. r \in DOMAIN items /\ items[r].name = items[k].name
        BY <1>2, <1>3, <3>2, <3>3
      <3>5. r = k
        BY <3>1, <3>4 DEF Distinct
      <3> QED
        BY <3>1, <3>2, <3>3, <3>5
    <2> QED
      BY <1>1, <1>2, <2>1 DEF Rooted
  <1>5. <<0, s>> \in I
    BY <1>1, <1>4
  <1>6. ASSUME NEW n \in Nat, NEW m \in 1 .. Len(src), NEW t, m = n + 1, <<n, t>> \in I
        PROVE  <<m, mergeRefs(t, m, src[m])>> \in I
    <2>1. t \in LoopState(Item) /\ Rooted(t) /\ src[m] \in Item /\ m \in Nat \ {0}
      BY <1>6
    <2>2. Rooted(mergeRefs(t, m, src[m]))
      BY <2>1, RootedStep
    <2>3. mergeRefs(t, m, src[m]) \in LoopState(Item)
      BY <2>1, ItemsMerge, MergeRefsType
    <2> QED
      BY <2>1, <2>2, <2>3
  <1> HIDE DEF I
  <1>7. <<Len(src), Transformer(s, src)>> \in I
    BY <1>3, <1>5, <1>6, LoopInduction
  <1>8. PICK t : t = Transformer(s, src)
    OBVIOUS
  <1>9. t \in LoopState(Item) /\ Rooted(t) /\ t.ok
    BY <1>7, <1>8 DEF I, s
  <1>10. DOMAIN t.store = 1 .. Len(t.store)
    BY <1>9 DEF LoopState
  <1>11. Distinct(t.store)
    BY <1>9, <1>10 DEF Rooted, Distinct
  <1> QED
    BY <1>8, <1>11 DEF s

-----------------------------------------------------------------------------
(* The merges of a pipeline in memory of their own.                        *)
Into(items, src) ==
  IF items = <<>> THEN [ok |-> TRUE, items |-> src] ELSE Transformer(Alone(items), src)
Second(o, j) == Into(o[<<0, 0>>].items, o[<<j[1], 0>>].items)
Third(o, j) == Into(Second(o, j).items, o[j].items)
Panic(o, j) ==
  o[<<0, 0>>].bare \/ o[<<j[1], 0>>].bare \/ ~ Second(o, j).ok \/ ~ Third(o, j).ok
Repeat(o, j) == ~ Distinct(o[<<j[1], 0>>].items) \/ ~ Distinct(o[j].items)

(* No pipeline before j has a name twice; and what that excuses.           *)
Calm(o, js, j) == \A k \in js : Before(k, j) => ~ Repeat(o, k)
Excused(o, js, j) == Panic(o, j) => Repeat(o, j) /\ ~ Calm(o, js, j)

(* The panics of a pipeline, in terms of what was loaded.                  *)
LEMMA PanicMeans ==
  ASSUME NEW j
  PROVE  /\ Panics(j) <=> Panic(orig, j)
         /\ Repeats(j) <=> Repeat(orig, j)
         /\ Renamed(j) <=> Repeat(orig, j) /\ ~ Calm(orig, Jobs, j)
  <1>1. ASSUME NEW k PROVE Repeats(k) <=> Repeat(orig, k)
    <2>1. \A i \in 2 .. 3 : i = 2 \/ i = 3
      OBVIOUS
    <2> QED
      BY <2>1, SourcesOf DEF Repeats, Repeat
  <1>2. Panics(j) <=> Panic(orig, j)
    BY SourcesOf DEF Panics, Panic, Second, Third, Into
  <1>3. Renamed(j) <=> Repeat(orig, j) /\ ~ Calm(orig, Jobs, j)
    BY <1>1 DEF Renamed, Calm
  <1> QED
    BY <1>1, <1>2, <1>3

(* What a merge in memory of its own yields; distinct names never make it  *)
(* panic.                                                                  *)
LEMMA IntoType ==
  ASSUME NEW y \in Seq(Item), NEW d \in Seq(Item)
  PROVE  /\ Into(y, d).items \in Seq(Item)
         /\ Distinct(d) => Into(y, d).ok
  <1>1. CASE y = <<>>
    BY <1>1 DEF Into
  <1>2. CASE y # <<>>
    <2>1. Into(y, d) = Transformer(Alone(y), d)
      BY <1>2 DEF Into
    <2>2. PICK b : b = Alone(y)
      OBVIOUS
    <2>3. PICK c \in {FALSE} : c = FALSE
      OBVIOUS
    <2>4. Mergee(Item, y, c, 0, <<>>) /\ b = Begun(y, c, 0, <<>>)
      BY <2>2, <2>3, AloneMergee
    <2>5. b \in LoopState(Item)
      BY <2>4, BegunState
    <2>6. Transformer(b, d) \in LoopState(Item)
      BY <2>5, ItemsMerge, TransformerType
    <2>7. Distinct(d) => Transformer(b, d).ok
      BY <2>4, ItemsMerge, TransformerOK
    <2> QED
      BY <2>1, <2>2, <2>6, <2>7 DEF LoopState
  <1> QED
    BY <1>1, <1>2

(* A merge of sources with the same names goes as it does there.           *)
LEMMA MergedAlike ==
  ASSUME BuildInv, Owned, job # <<0, 0>>, NEW p \in Parts, NEW m, m = Merged(p),
         NEW y \in Seq(Item), NEW d \in Seq(Item),
         SameNames(run.items, y), SameNames(mem[p].items, d)
  PROVE  m.ok = Into(y, d).ok /\ (m.ok => SameNames(m.items, Into(y, d).items))
  <1>1. run.items \in Seq(Item) /\ mem[p].items \in Seq(Item)
    BY PartTyped DEF BuildInv, BuildTypeOK
  <1>2. run.items = <<>> <=> y = <<>>
    BY <1>1 DEF SameNames
  <1>3. CASE run.items = <<>>
    <2>1. m.ok /\ m.items = mem[p].items /\ m.ok = TRUE
      BY <1>3, FirstMerge DEF Merged
    <2> QED
      BY <1>2, <1>3, <2>1 DEF Into
  <1>4. CASE run.items # <<>>
    <2>1. m = Transformer(RunBegun, mem[p].items)
      BY <1>4, LaterMerge
    <2>2. Alike(m, Transformer(Alone(y), d))
      BY <1>1, <2>1, RunMergee, AlikeMerges DEF RunBegun
    <2> QED
      BY <1>2, <1>4, <2>2 DEF Into, Alike
  <1> QED
    BY <1>3, <1>4

(* A merge of a source with each name once does not panic, and renames     *)
(* nothing that is shared.                                                 *)
LEMMA MergedDistinct ==
  ASSUME BuildInv, Owned, job # <<0, 0>>, NEW p \in Parts, NEW m, m = Merged(p),
         Distinct(mem[p].items)
  PROVE  /\ m.ok
         /\ Writes(p, m) => \A q \in Parts : SameNames(mem'[q].items, mem[q].items)
  <1>1. \A q \in Parts : SameNames(mem[q].items, mem[q].items)
    BY DEF SameNames
  <1>2. None \notin Parts /\ mem[p].items \in Seq(Item)
    BY NoneIsNoPart, PartTyped
  <1>3. CASE run.items = <<>>
    BY <1>1, <1>3, FirstMerge
  <1>4. CASE run.items # <<>>
    <2>1. /\ m = Transformer(RunBegun, mem[p].items)
          /\ Writes(p, m) => \A q \in Parts :
               mem'[q].items = IF run.array = q THEN m.store ELSE mem[q].items
      BY <1>4, LaterMerge
    <2>2. m.ok
      BY <1>2, <2>1, RunMergee, ItemsMerge, TransformerOK DEF RunBegun
    <2>3. SameNames(m.store, RunStore)
      <3>1. PICK src \in Seq(Item) : src = mem[p].items /\ Distinct(src)
        BY <1>2
      <3>2. SameNames(Transformer(RunBegun, src).store, RunStore)
        BY <3>1, RunStoreNames
      <3> QED
        BY <2>1, <3>1, <3>2
    <2>4. run.array # None => SameNames(m.store, mem[run.array].items)
      BY <2>3 DEF RunStore
    <2> QED
      BY <1>1, <1>2, <2>1, <2>2, <2>4
  <1> QED
    BY <1>3, <1>4

(* What a run has of its first two sources, whatever they contain.         *)
Collected ==
  pc = "merge" =>
    /\ step = 1 => ~ run.bare /\ run.items = <<>>
    /\ step = 2 => run.bare = orig[<<0, 0>>].bare /\ run.array \in {None, <<0, 0>>}
    /\ step = 3 => /\ ~ orig[<<0, 0>>].bare /\ run.bare = orig[<<job[1], 0>>].bare
                   /\ run.array \in {None, <<0, 0>>, <<job[1], 0>>}
                   /\ run.array = <<job[1], 0>> => run.items = mem[run.array].items
DistinctStays ==
  \A q \in Parts : q # <<0, 0>> /\ Distinct(orig[q].items) => Distinct(mem[q].items)
(* As long as no pipeline has had a name twice, names are what they were,  *)
(* and the run has those of the merges in memory of their own.             *)
Renames == (pc = "merge" => step = 3) /\ pc # "filter" /\ Repeat(orig, job)
NamesStay ==
  pc # "end" /\ Calm(orig, Jobs, job) =>
    /\ ~ Renames => \A q \in Parts : SameNames(mem[q].items, orig[q].items)
    /\ pc = "merge" /\ step = 2 => SameNames(run.items, orig[<<0, 0>>].items)
    /\ pc = "merge" /\ step = 3 =>
         Second(orig, job).ok /\ SameNames(run.items, Second(orig, job).items)
Foreseen ==
  /\ Collected /\ DistinctStays /\ NamesStay
  /\ pc = "reconcile" => Excused(orig, Jobs, job)
  /\ \A k \in Jobs : Before(k, job) => Excused(orig, Jobs, k)
  /\ outcome = "panic" => Panic(orig, job) \/ (Repeat(orig, job) /\ ~ Calm(orig, Jobs, job))

-----------------------------------------------------------------------------
(* What the parts of a pipeline are while it is merged.                    *)
LEMMA MergedParts ==
  ASSUME BuildInv, Merge
  PROVE  /\ <<0, 0>> \in Parts /\ <<job[1], 0>> \in Parts /\ job \in Parts
         /\ job[1] > 0 /\ job[2] > 0 /\ <<job[1], 0>> # <<0, 0>> /\ job # <<0, 0>>
         /\ \A q \in Parts : orig[q].items \in Seq(Item) /\ mem[q].items \in Seq(Item)
         /\ \A q \in Parts : orig[q].bare \in BOOLEAN
         /\ Second(orig, job).items \in Seq(Item)
         /\ run.items \in Seq(Item)
  <1>1. /\ job \in Parts /\ job[1] > 0 /\ job[2] > 0 /\ job # <<0, 0>>
    BY MergeDoes DEF BuildInv, Place
  <1>2. Sources(job)[1] \in Parts /\ Sources(job)[2] \in Parts
    BY <1>1, SourcesAreParts
  <1>3. <<0, 0>> \in Parts /\ <<job[1], 0>> \in Parts
    BY <1>2, SourcesOf
  <1>4. \A q \in Parts : orig[q].items \in Seq(Item) /\ mem[q].items \in Seq(Item)
    BY PartTyped
  <1>5. \A q \in Parts : orig[q].bare \in BOOLEAN
    BY PartTyped
  <1>6. Second(orig, job).items \in Seq(Item)
    BY <1>3, <1>4, IntoType DEF Second
  <1>7. run.items \in Seq(Item)
    BY DEF BuildInv, BuildTypeOK
  <1> QED
    BY <1>1, <1>3, <1>4, <1>5, <1>6, <1>7

(* Whether the merge of the next source panics is known.                   *)
LEMMA MergeForeseen ==
  ASSUME BuildInv, Owned, Foreseen, Merge, NEW p, p = Sources(job)[step],
         NEW m, m = Merged(p)
  PROVE  /\ ~ Calm(orig, Jobs, job) => Repeat(orig, job) \/ m.ok
         /\ Calm(orig, Jobs, job) =>
              /\ step = 1 => m.ok /\ SameNames(m.items, orig[<<0, 0>>].items)
              /\ step = 2 => /\ m.ok = Second(orig, job).ok
                             /\ m.ok => SameNames(m.items, Second(orig, job).items)
              /\ step = 3 => Second(orig, job).ok /\ m.ok = Third(orig, job).ok
         /\ step = 1 => m.ok
         /\ ~ Repeat(orig, job) /\ step # 1 => Distinct(mem[p].items)
  <1>1. /\ pc = "merge" /\ step \in 1 .. 3 /\ p \in Parts /\ job \in Parts
        /\ job # <<0, 0>>
    BY MergeDoes
  <1>2. /\ Sources(job)[1] = <<0, 0>> /\ Sources(job)[2] = <<job[1], 0>>
        /\ Sources(job)[3] = job
    BY SourcesOf
  <1>3. /\ <<0, 0>> \in Parts /\ <<job[1], 0>> \in Parts
        /\ job[2] > 0 /\ <<job[1], 0>> # <<0, 0>>
        /\ \A q \in Parts : orig[q].items \in Seq(Item) /\ mem[q].items \in Seq(Item)
        /\ Second(orig, job).items \in Seq(Item) /\ run.items \in Seq(Item)
    BY MergedParts
  <1>4. Collected /\ DistinctStays /\ NamesStay
    BY DEF Foreseen
  <1>5. mem[job].items = orig[job].items
    BY <1>1, <1>3 DEF Owned
  <1>6. ~ Repeat(orig, job) /\ step # 1 => Distinct(mem[p].items)
    <2>1. CASE step = 2
      BY <1>2, <1>3, <1>4, <2>1 DEF DistinctStays, Repeat
    <2>2. CASE step = 3
      BY <1>2, <1>5, <2>2 DEF Repeat
    <2> QED
      BY <1>1, <2>1, <2>2
  <1>7. step = 1 => m.ok /\ m.items = mem[p].items
    BY <1>1, <1>4, FirstMerge DEF Collected
  <1>8. Distinct(mem[p].items) => m.ok
    BY <1>1, MergedDistinct
  <1>9. ASSUME Calm(orig, Jobs, job), step = 1
        PROVE  m.ok /\ SameNames(m.items, orig[<<0, 0>>].items)
    BY <1>1, <1>2, <1>3, <1>4, <1>7, <1>9 DEF NamesStay, Renames
  <1>10. ASSUME Calm(orig, Jobs, job), step = 2
         PROVE  m.ok = Second(orig, job).ok /\ (m.ok => SameNames(m.items, Second(orig, job).items))
    <2>1. /\ SameNames(run.items, orig[<<0, 0>>].items)
          /\ SameNames(mem[p].items, orig[<<job[1], 0>>].items)
      <3>1. p = <<job[1], 0>> /\ ~ Renames /\ pc # "end"
        BY <1>1, <1>2, <1>10 DEF Renames
      <3> QED
        BY <1>1, <1>3, <1>4, <1>10, <3>1 DEF NamesStay
    <2>2. PICK y \in Seq(Item) : y = orig[<<0, 0>>].items
      BY <1>3
    <2>3. PICK d \in Seq(Item) : d = orig[<<job[1], 0>>].items
      BY <1>3
    <2>4. m.ok = Into(y, d).ok /\ (m.ok => SameNames(m.items, Into(y, d).items))
      BY <1>1, <2>1, <2>2, <2>3, MergedAlike
    <2> QED
      BY <2>2, <2>3, <2>4 DEF Second
  <1>11. ASSUME Calm(orig, Jobs, job), step = 3
         PROVE  Second(orig, job).ok /\ m.ok = Third(orig, job).ok
    <2>1. Second(orig, job).ok /\ SameNames(run.items, Second(orig, job).items)
      BY <1>1, <1>4, <1>11 DEF NamesStay
    <2>2. SameNames(mem[p].items, orig[job].items)
      BY <1>2, <1>5, <1>11 DEF SameNames
    <2> QED
      BY <1>1, <1>3, <2>1, <2>2, MergedAlike DEF Third
  <1> QED
    BY <1>6, <1>7, <1>8, <1>9, <1>10, <1>11

-----------------------------------------------------------------------------
(* A merge that panics is one that was foreseen, or excused.               *)
LEMMA MergePanics ==
  ASSUME BuildInv, Owned, Foreseen, Merge, NEW m, m = Merged(Sources(job)[step]),
         run.bare \/ ~ m.ok
  PROVE  Panic(orig, job) \/ (Repeat(orig, job) /\ ~ Calm(orig, Jobs, job))
  <1>1. pc = "merge" /\ step \in 1 .. 3
    BY MergeDoes
  <1>2. Collected
    BY DEF Foreseen
  <1>3. /\ ~ Calm(orig, Jobs, job) => Repeat(orig, job) \/ m.ok
        /\ Calm(orig, Jobs, job) =>
             /\ step = 2 => m.ok = Second(orig, job).ok
             /\ step = 3 => Second(orig, job).ok /\ m.ok = Third(orig, job).ok
        /\ step = 1 => m.ok
    <2>1. PICK p : p = Sources(job)[step] /\ m = Merged(p)
      OBVIOUS
    <2> QED
      BY <2>1, MergeForeseen
  <1>4. step = 1 \/ step = 2 \/ step = 3
    BY <1>1
  <1>5. CASE run.bare
    BY <1>1, <1>2, <1>4, <1>5 DEF Collected, Panic
  <1>6. CASE ~ m.ok
    BY <1>3, <1>4, <1>6 DEF Panic
  <1> QED
    BY <1>5, <1>6

(* A pipeline that got through its merges is one that does.                *)
LEMMA MergedExcused ==
  ASSUME BuildInv, Owned, Foreseen, Merge, NEW m, m = Merged(Sources(job)[step]),
         ~ run.bare, m.ok, step = 3
  PROVE  Excused(orig, Jobs, job)
  <1>1. /\ pc = "merge" /\ Sources(job)[step] \in Parts
    BY MergeDoes
  <1>2. ~ orig[<<0, 0>>].bare /\ ~ orig[<<job[1], 0>>].bare
    BY <1>1 DEF Foreseen, Collected
  <1>3. CASE Calm(orig, Jobs, job)
    <2>1. PICK p : p = Sources(job)[step] /\ m = Merged(p)
      OBVIOUS
    <2>2. Second(orig, job).ok /\ m.ok = Third(orig, job).ok
      BY <1>3, <2>1, MergeForeseen
    <2> QED
      BY <1>2, <2>2 DEF Excused, Panic
  <1>4. CASE ~ Repeat(orig, job)
    <2>1. /\ Second(orig, job).items \in Seq(Item)
          /\ orig[<<0, 0>>].items \in Seq(Item) /\ orig[<<job[1], 0>>].items \in Seq(Item)
          /\ orig[job].items \in Seq(Item)
      BY MergedParts
    <2>2. PICK y \in Seq(Item) : y = orig[<<0, 0>>].items
      BY <2>1
    <2>3. PICK d \in Seq(Item) : d = orig[<<job[1], 0>>].items
      BY <2>1
    <2>4. PICK e \in Seq(Item) : e = orig[job].items
      BY <2>1
    <2>5. Distinct(d) /\ Distinct(e)
      BY <1>4, <2>3, <2>4 DEF Repeat
    <2>6. Second(orig, job).ok
      BY <2>2, <2>3, <2>5, IntoType DEF Second
    <2>7. Third(orig, job).ok
      BY <2>1, <2>4, <2>5, IntoType DEF Third
    <2> QED
      BY <1>2, <2>6, <2>7 DEF Excused, Panic
  <1> QED
    BY <1>3, <1>4 DEF Excused

(* A merge that does not panic keeps the record of what the run holds.     *)
LEMMA MergeCollects ==
  ASSUME BuildInv, Owned, Foreseen, Merge, NEW p, p = Sources(job)[step],
         NEW m, m = Merged(p), ~ run.bare, m.ok
  PROVE  Collected' /\ DistinctStays'
  <1>1. /\ pc = "merge" /\ step \in 1 .. 3 /\ p \in Parts /\ job # <<0, 0>>
        /\ MergesTo(p, m)
    BY MergeDoes
  <1>2. /\ Writes(p, m) /\ step' = step + 1 /\ UNCHANGED <<job, orig>>
        /\ pc' = IF step = 3 THEN "reconcile" ELSE "merge"
    BY <1>1 DEF MergesTo
  <1>3. Parts' = Parts /\ None \notin Parts
    BY <1>1, <1>2, NoneIsNoPart DEF Writes, Parts
  <1>4. /\ <<0, 0>> \in Parts /\ <<job[1], 0>> \in Parts
        /\ <<job[1], 0>> # <<0, 0>>
        /\ \A q \in Parts : orig[q].items \in Seq(Item) /\ mem[q].items \in Seq(Item)
    BY MergedParts
  <1>5. /\ Sources(job)[1] = <<0, 0>> /\ Sources(job)[2] = <<job[1], 0>>
        /\ Sources(job)[3] = job
    BY SourcesOf
  <1>6. /\ Collected /\ DistinctStays
        /\ \A q \in Parts : mem[q].bare = orig[q].bare
    BY DEF Foreseen, Owned
  <1>7. CASE run.items = <<>>
    <2>1. /\ run'.items = mem[p].items /\ run'.array = IF mem[p].items # <<>> THEN p ELSE None
          /\ \A q \in Parts : mem'[q].items = mem[q].items
      BY <1>1, <1>2, <1>7, FirstMerge
    <2>2. DistinctStays'
      BY <1>2, <1>3, <1>6, <2>1 DEF DistinctStays
    <2>3. run'.bare = orig[p].bare
      BY <1>1, <1>2, <1>6 DEF Writes
    <2>4. CASE step = 1
      BY <1>1, <1>2, <1>5, <2>1, <2>2, <2>3, <2>4 DEF Collected
    <2>5. CASE step = 2
      <3>1. step' = 3 /\ p = <<job[1], 0>> /\ ~ orig[<<0, 0>>].bare
        BY <1>1, <1>2, <1>5, <1>6, <2>5 DEF Collected
      <3>2. /\ run'.array \in {None, <<job[1], 0>>}
            /\ run'.array = <<job[1], 0>> => run'.items = mem'[<<job[1], 0>>].items
        BY <1>3, <1>4, <2>1, <3>1
      <3>3. run'.array = <<job[1], 0>> => run'.items = mem'[run'.array].items
        BY <3>2
      <3>4. Collected'
        BY <1>2, <2>3, <3>1, <3>2, <3>3 DEF Collected
      <3> QED
        BY <2>2, <3>4
    <2>6. CASE step = 3
      BY <1>2, <2>2, <2>6 DEF Collected
    <2> QED
      BY <1>1, <2>4, <2>5, <2>6
  <1>8. CASE run.items # <<>>
    <2>1. /\ m = Transformer(RunBegun, mem[p].items)
          /\ run'.array = IF m.shared THEN run.array ELSE None
          /\ \A q \in Parts : mem'[q].items = IF run.array = q THEN m.store ELSE mem[q].items
      BY <1>1, <1>2, <1>8, LaterMerge
    <2>2. run'.bare = orig[p].bare
      BY <1>1, <1>2, <1>6 DEF Writes
    <2>3. step # 1
      BY <1>1, <1>6, <1>8 DEF Collected
    <2>4. CASE step = 2
      <3>1. step' = 3 /\ p = <<job[1], 0>> /\ ~ orig[<<0, 0>>].bare /\ run.array \in {None, <<0, 0>>}
        BY <1>1, <1>2, <1>5, <1>6, <2>4 DEF Collected
      <3>2. run'.array \in {None, <<0, 0>>}
        BY <2>1, <3>1
      <3>3. \A q \in Parts : q # <<0, 0>> => mem'[q].items = mem[q].items
        BY <1>3, <2>1, <3>1
      <3>4. DistinctStays'
        BY <1>2, <1>3, <1>6, <3>3 DEF DistinctStays
      <3>5. <<job[1], 0>> \notin {None, <<0, 0>>}
        BY <1>3, <1>4
      <3> QED
        BY <1>2, <2>2, <3>1, <3>2, <3>4, <3>5 DEF Collected
    <2>5. CASE step = 3
      <3>1. /\ run.array \in {None, <<0, 0>>, <<job[1], 0>>} /\ pc' = "reconcile"
            /\ run.array = <<job[1], 0>> => run.items = mem[run.array].items
        BY <1>1, <1>2, <1>6, <2>5 DEF Collected
      <3>2. ASSUME run.array = <<job[1], 0>>, Distinct(mem[run.array].items)
            PROVE  Distinct(m.store)
        <4>1. /\ RunStore = run.items /\ Distinct(run.items) /\ run.array # None
          BY <1>3, <1>4, <3>1, <3>2 DEF RunStore
        <4>2. Prefix(RunStore, run.items)
          BY <4>1 DEF Owned, RunStore
        <4>3. PICK src \in Seq(Item) : src = mem[p].items
          BY <1>1, <1>4
        <4>4. Mergee(Item, run.items, run.array # None, run.room, RunStore)
          BY RunMergee
        <4>5. m = Transformer(Begun(run.items, run.array # None, run.room, RunStore), src)
          BY <2>1, <4>3 DEF RunBegun
        <4> QED
          BY <4>1, <4>2, <4>4, <4>5, StoreDistinct, Zenon
      <3>3. DistinctStays'
        <4>1. ASSUME NEW q \in Parts, q # <<0, 0>>, Distinct(orig[q].items)
              PROVE  Distinct(mem'[q].items)
          <5>1. Distinct(mem[q].items)
            BY <1>6, <4>1 DEF DistinctStays
          <5>2. CASE run.array = q
            BY <1>3, <2>1, <3>1, <3>2, <4>1, <5>1, <5>2
          <5>3. CASE run.array # q
            BY <2>1, <5>1, <5>3
          <5> QED
            BY <5>2, <5>3
        <4> QED
          BY <1>2, <1>3, <4>1 DEF DistinctStays
      <3> QED
        BY <3>1, <3>3 DEF Collected
    <2> QED
      BY <1>1, <2>3, <2>4, <2>5
  <1> QED
    BY <1>7, <1>8

-----------------------------------------------------------------------------
(* It changes no names unless the pipeline repeats one.                    *)
LEMMA MergeNamesStay ==
  ASSUME BuildInv, Owned, Foreseen, Merge, NEW p, p = Sources(job)[step],
         NEW m, m = Merged(p), ~ run.bare, m.ok, Jobs' = Jobs
  PROVE  NamesStay'
  <1>1. /\ pc = "merge" /\ step \in 1 .. 3 /\ p \in Parts /\ job # <<0, 0>>
        /\ MergesTo(p, m) /\ job \in Parts
    BY MergeDoes
  <1>2. /\ Writes(p, m) /\ step' = step + 1 /\ UNCHANGED <<job, orig>>
        /\ pc' = IF step = 3 THEN "reconcile" ELSE "merge"
    BY <1>1 DEF MergesTo
  <1>3. Parts' = Parts /\ run'.items = m.items
    BY <1>2 DEF Writes, Parts
  <1>4. Collected /\ NamesStay
    BY DEF Foreseen
  <1>5. /\ Calm(orig, Jobs, job) =>
             /\ step = 1 => SameNames(m.items, orig[<<0, 0>>].items)
             /\ step = 2 => m.ok = Second(orig, job).ok /\ SameNames(m.items, Second(orig, job).items)
        /\ ~ Repeat(orig, job) /\ step # 1 => Distinct(mem[p].items)
    BY MergeForeseen
  <1>6. ASSUME Calm(orig, Jobs, job), ~ Renames'
        PROVE  \A q \in Parts : SameNames(mem'[q].items, orig[q].items)
    <2>1. CASE step = 1
      <3>1. run.items = <<>> /\ ~ Renames
        BY <1>1, <1>4, <2>1 DEF Collected, Renames
      <3>2. \A q \in Parts : mem'[q].items = mem[q].items
        BY <1>1, <1>2, <3>1, FirstMerge
      <3> QED
        BY <1>1, <1>4, <1>6, <3>1, <3>2 DEF NamesStay
    <2>2. CASE step # 1
      <3>1. step' = 3 \/ pc' # "merge"
        BY <1>1, <1>2, <2>2
      <3>2. ~ Repeat(orig, job)
        BY <1>2, <1>6, <3>1 DEF Renames
      <3>3. \A q \in Parts : SameNames(mem'[q].items, mem[q].items)
        BY <1>1, <1>2, <1>5, <2>2, <3>2, MergedDistinct
      <3>4. \A q \in Parts : SameNames(mem[q].items, orig[q].items)
        BY <1>1, <1>4, <1>6, <3>2 DEF NamesStay, Renames
      <3> QED
        BY <3>3, <3>4, SameNamesTransitive
    <2> QED
      BY <2>1, <2>2
  <1>7. ASSUME Calm(orig, Jobs, job), pc' = "merge", step' = 2
        PROVE  SameNames(run'.items, orig[<<0, 0>>].items)
    BY <1>1, <1>2, <1>3, <1>5, <1>7
  <1>8. ASSUME Calm(orig, Jobs, job), pc' = "merge", step' = 3
        PROVE  Second(orig, job).ok /\ SameNames(run'.items, Second(orig, job).items)
    <2>1. step = 2
      BY <1>1, <1>2, <1>8
    <2> QED
      BY <1>3, <1>5, <1>8, <2>1
  <1> QED
    BY <1>2, <1>3, <1>6, <1>7, <1>8 DEF NamesStay

(* So a merge keeps the invariant.                                         *)
LEMMA MergeForesees ==
  ASSUME BuildInv, Owned, Foreseen, Merge, mode' = mode
  PROVE  Foreseen'
  <1>1. PICK p : p = Sources(job)[step]
    OBVIOUS
  <1>2. PICK m : m = Merged(p)
    OBVIOUS
  <1>3. /\ MergesTo(p, m) /\ Jobs' = Jobs /\ Parts' = Parts /\ pc = "merge"
        /\ outcome = "open" /\ step \in 1 .. 3
    BY <1>1, <1>2, MergeDoes, StepKeepsJobs DEF Build
  <1>4. UNCHANGED <<job, orig>>
    BY <1>3 DEF MergesTo
  <1>5. \A k \in Jobs : Before(k, job) => Excused(orig, Jobs, k)
    BY DEF Foreseen
  <1>6. CASE run.bare \/ ~ m.ok
    <2>1. pc' = "end" /\ mem' = mem
      BY <1>3, <1>6 DEF MergesTo
    <2>2. Panic(orig, job) \/ (Repeat(orig, job) /\ ~ Calm(orig, Jobs, job))
      BY <1>1, <1>2, <1>6, MergePanics
    <2>3. Collected' /\ DistinctStays' /\ NamesStay'
      BY <1>3, <1>4, <2>1 DEF Foreseen, Collected, DistinctStays, NamesStay
    <2> QED
      BY <1>3, <1>4, <1>5, <2>1, <2>2, <2>3 DEF Foreseen
  <1>7. CASE ~ run.bare /\ m.ok
    <2>1. outcome' = "open" /\ pc' = IF step = 3 THEN "reconcile" ELSE "merge"
      BY <1>3, <1>7 DEF MergesTo
    <2>2. step = 3 => Excused(orig, Jobs, job)
      BY <1>1, <1>2, <1>7, MergedExcused
    <2>3. Collected' /\ DistinctStays'
      BY <1>1, <1>2, <1>7, MergeCollects
    <2>4. NamesStay'
      BY <1>1, <1>2, <1>3, <1>7, MergeNamesStay
    <2> QED
      BY <1>3, <1>4, <1>5, <2>1, <2>2, <2>3, <2>4 DEF Foreseen
  <1> QED
    BY <1>6, <1>7

(* The steps between merges change no items, and what has become of a      *)
(* pipeline is known when the next begins.                                 *)
LEMMA BuildForesees ==
  ASSUME BuildInv, Owned, ProgressInv, Foreseen, Build, mode' = mode
  PROVE  Foreseen'
  <1>1. Parts' = Parts /\ orig' = orig /\ Jobs' = Jobs
    BY StepKeepsJobs
  <1>2. Collected /\ DistinctStays /\ NamesStay
    BY DEF Foreseen
  <1>3. ASSUME run' = EmptyRun, step' = 1 PROVE Collected'
    BY <1>3 DEF Collected, EmptyRun
  <1>4. CASE Match
    <2>1. \A k \in Jobs : Before(k, job') <=> Before(k, job)
      BY <1>4, MatchDone
    <2>2. Calm(orig, Jobs, job') <=> Calm(orig, Jobs, job)
      BY <2>1 DEF Calm
    <2>3. /\ mem' = mem /\ pc = "filter" /\ pc' # "reconcile" /\ outcome' # "panic"
          /\ pc' = "end" \/ (run' = EmptyRun /\ step' = 1)
      BY <1>4 DEF Match, Finish, BuildInv, Place
    <2>4. Collected' /\ DistinctStays'
      BY <1>1, <1>2, <1>3, <2>3 DEF Collected, DistinctStays
    <2>5. NamesStay'
      BY <1>1, <1>2, <2>2, <2>3 DEF NamesStay, Renames
    <2> QED
      BY <1>1, <2>1, <2>3, <2>4, <2>5 DEF Foreseen
  <1>5. CASE Merge
    BY <1>5, MergeForesees
  <1>6. CASE Reconcile
    <2>1. /\ pc = "reconcile" /\ outcome = "open"
          /\ IF Fails THEN pc' = "end" /\ outcome' = "error" /\ UNCHANGED <<mem, job>>
             ELSE WritesValues /\ Following /\ step' = 1 /\ run' = EmptyRun /\ outcome' = outcome
      BY <1>6, ReconcileDoes
    <2>2. CASE Fails
      BY <1>1, <1>2, <2>1, <2>2 DEF Foreseen, Collected, DistinctStays, NamesStay
    <2>3. CASE ~ Fails
      <3>1. job \in Jobs
        BY <2>1 DEF ProgressInv
      <3>2. \A k \in Jobs : Before(k, job') <=> Before(k, job) \/ k = job
        BY <1>6, <2>3, <3>1, ReconcileDone
      <3>3. Calm(orig, Jobs, job') <=> Calm(orig, Jobs, job) /\ ~ Repeat(orig, job)
        BY <3>1, <3>2 DEF Calm
      <3>4. /\ \A q \in Parts : mem'[q].items = mem[q].items
            /\ pc' \in {"merge", "filter"} /\ step' = 1 /\ run' = EmptyRun /\ outcome' = outcome
        BY <2>1, <2>3 DEF WritesValues, Following
      <3>5. Collected' /\ DistinctStays'
        BY <1>1, <1>2, <1>3, <3>4 DEF DistinctStays
      <3>6. NamesStay'
        BY <1>1, <1>2, <2>1, <3>3, <3>4 DEF NamesStay, Renames
      <3>7. \A k \in Jobs : Before(k, job') => Excused(orig, Jobs, k)
        BY <2>1, <3>2 DEF Foreseen
      <3> QED
        BY <1>1, <2>1, <3>4, <3>5, <3>6, <3>7 DEF Foreseen
    <2> QED
      BY <2>2, <2>3
  <1> QED
    BY <1>4, <1>5, <1>6 DEF Build

(* What the invariant says of the outcome.                                 *)
LEMMA ForeseenMeans ==
  ASSUME BuildInv, ProgressInv, Foreseen
  PROVE  PanicIsForeseen
  <1>1. outcome = "panic" => Panics(job) \/ Renamed(job)
    BY PanicMeans DEF Foreseen
  <1>2. ASSUME outcome = "OK", NEW j \in Jobs, Panics(j) PROVE Renamed(j)
    <2>1. job[1] > Len(filter)
      BY <1>2 DEF ProgressInv
    <2>2. job # <<0, 0>>
      <3>1. filter \in Seq(Verdicts)
        BY DEF BuildInv
      <3>2. Len(filter) \in Nat
        BY <3>1
      <3> QED
        BY <2>1, <3>2
    <2>3. Before(j, job)
      BY <2>1, <2>2, AllDone
    <2> QED
      BY <1>2, <2>3, PanicMeans DEF Foreseen, Excused
  <1> QED
    BY <1>1, <1>2 DEF PanicIsForeseen

-----------------------------------------------------------------------------
TimeoutsOf(o, j) == [i \in 1 .. 3 |-> o[Sources(j)[i]].timeouts]
ValuesOf(o, j, n) == [i \in 1 .. 3 |-> ValueIn(o[Sources(j)[i]].items, n)]

(* A tame pipeline, source by source.                                      *)
LEMMA TameMeans ==
  ASSUME NEW j, Tame(j)
  PROVE  /\ \A i, k \in 1 .. 3 : i < k =>
              TimeoutsOf(orig, j)[i] = None \/ TimeoutsOf(orig, j)[k] = None
         /\ \A i, k \in 1 .. 3 : i < k =>
              \A n \in NamesIn(orig[Sources(j)[i]].items) :
                ValueIn(orig[Sources(j)[k]].items, n) = None
         /\ \A i \in 1 .. 2 : \A k \in DOMAIN orig[Sources(j)[i]].params :
              orig[Sources(j)[i]].params[k].val \notin {"nested", "poison"}
  <1> DEFINE T == {i \in 1 .. 3 : orig[Sources(j)[i]].timeouts # None}
  <1>1. Cardinality(T) <= 1
    BY DEF Tame
  <1>2. IsFiniteSet(T) /\ Cardinality(T) \in Nat
    <2>1. IsFiniteSet(1 .. 3)
      <3>1. 1 \in Int /\ 3 \in Int
        OBVIOUS
      <3> QED
        BY <3>1, FS_Interval, Zenon
    <2>2. T \in SUBSET (1 .. 3)
      OBVIOUS
    <2> HIDE DEF T
    <2>3. IsFiniteSet(T)
      BY <2>1, <2>2, FS_Subset
    <2> QED
      BY <2>3, FS_CardinalityType
  <1>3. ASSUME NEW i \in T, NEW k \in T, i # k PROVE FALSE
    <2> HIDE DEF T
    <2>1. IsFiniteSet({i}) /\ Cardinality({i}) = 1
      BY FS_Singleton
    <2>2. /\ IsFiniteSet({i} \cup {k})
          /\ Cardinality({i} \cup {k}) = IF k \in {i} THEN Cardinality({i}) ELSE Cardinality({i}) + 1
      BY <2>1, FS_AddElement
    <2>3. Cardinality({i} \cup {k}) = 2
      BY <1>3, <2>1, <2>2
    <2>4. ({i} \cup {k}) \in SUBSET T
      OBVIOUS
    <2>5. Cardinality({i} \cup {k}) <= Cardinality(T)
      BY <1>2, <2>4, FS_Subset
    <2> QED
      BY <1>1, <1>2, <2>3, <2>5
  <1>4. ASSUME NEW i \in 1 .. 3, NEW k \in 1 .. 3, i < k
        PROVE  TimeoutsOf(orig, j)[i] = None \/ TimeoutsOf(orig, j)[k] = None
    <2>1. i # k
      BY <1>4
    <2> QED
      BY <1>3, <2>1 DEF TimeoutsOf
  <1>5. ASSUME NEW i \in 1 .. 3, NEW k \in 1 .. 3, i < k,
               NEW n \in NamesIn(orig[Sources(j)[i]].items)
        PROVE  ValueIn(orig[Sources(j)[k]].items, n) = None
    BY <1>5 DEF Tame
  <1>6. ASSUME NEW i \in 1 .. 2, NEW k \in DOMAIN orig[Sources(j)[i]].params
        PROVE  orig[Sources(j)[i]].params[k].val \notin {"nested", "poison"}
    BY DEF Tame
  <1> QED
    BY <1>4, <1>5, <1>6

-----------------------------------------------------------------------------
(* A merge that gives nothing to what is there writes nothing into the     *)
(* array it shares.                                                        *)
Quiet(dst, src) == \A n \in NamesIn(dst) : ValueIn(src, n) = None
StillQuiet(dst, src, i, store, s) ==
  /\ NamesKept(src, i, store, s) /\ s.store = store
  /\ DOMAIN s.refs \subseteq NamesIn(dst) \cup UpTo(src, i)

(* One element that gives nothing to what is there leaves the shared array *)
(* as it is.                                                               *)
LEMMA StillQuietStep ==
  ASSUME NEW dst, NEW src \in Seq(Item), Distinct(src), Quiet(dst, src), NEW store,
         NEW i \in Nat, NEW n, n = i + 1, n \in 1 .. Len(src),
         NEW s \in LoopState(Item), StillQuiet(dst, src, i, store, s)
  PROVE  StillQuiet(dst, src, n, store, mergeRefs(s, n, src[n]))
  <1> DEFINE el == src[n]
             t == mergeRefs(s, n, el)
  <1>1. el \in Item /\ el.name \notin UpTo(src, i) /\ n \in Nat \ {0}
    BY UpToIsNew
  <1>2. UpTo(src, n) = UpTo(src, i) \cup {el.name}
    BY UpToGrows
  <1>3. NamesKept(src, i, store, s) /\ s.store = store
        /\ DOMAIN s.refs \subseteq NamesIn(dst) \cup UpTo(src, i)
    BY DEF StillQuiet
  <1>4. NamesKept(src, n, store, t)
    BY <1>3, ItemsMerge, NamesKeptStep
  <1>5. el.name \in NamesIn(dst) => el.val = None
    <2>1. n \in DOMAIN src
      OBVIOUS
    <2>2. ValueIn(src, el.name) = el.val
      BY <2>1, ValueAt
    <2> QED
      BY <2>2 DEF Quiet
  <1> HIDE DEF el, t
  <1>6. /\ s.ok /\ Shares(s) /\ Addressed(src, i, s)
        /\ s.items \in Seq(Item) /\ s.store \in Seq(Item) /\ Len(s.store) \in Nat
        /\ \A m \in DOMAIN s.refs : s.refs[m] \in Nat \ {0}
    BY <1>3 DEF NamesKept, LoopState, Refs
  <1>7. CASE New(s, el)
    <2>1. t.store = s.store /\ Noted(s.refs, t.refs, el.name, n)
      BY <1>1, <1>7, MergeAppends DEF t
    <2>2. DOMAIN t.refs \subseteq NamesIn(dst) \cup UpTo(src, n)
      BY <1>2, <1>3, <2>1 DEF Noted
    <2> QED
      BY <1>3, <1>4, <2>1, <2>2 DEF StillQuiet, t, el
  <1>8. CASE el.name \in DOMAIN s.refs
    <2> DEFINE r == s.refs[el.name]
    <2>1. r <= Len(s.items) /\ s.items[r].name = el.name /\ r \in Nat \ {0}
      BY <1>1, <1>6, <1>8 DEF Addressed
    <2>2. Found(s, el)
      BY <1>6, <1>8, <2>1 DEF Found
    <2>3. /\ t.refs = s.refs /\ t.store \in Seq(Item)
          /\ IF s.shared /\ r <= Len(s.store)
               THEN Replaced(s.store, t.store, r, merge(s.store[r], el))
               ELSE t.store = s.store
      BY <1>1, <2>2, ItemsMerge, MergeFinds DEF t, LoopState
    <2>4. el.val = None
      BY <1>1, <1>3, <1>5, <1>8
    <2> HIDE DEF r
    <2>5. t.store = s.store
      <3>1. CASE s.shared /\ r <= Len(s.store)
        <4>1. r \in 1 .. Len(s.store) /\ s.store[r] = s.items[r]
          BY <1>6, <2>1, <3>1 DEF Shares, Prefix
        <4>2. s.store[r] \in Item /\ s.store[r].name = el.name
          BY <1>6, <2>1, <4>1
        <4>3. merge(s.store[r], el) = s.store[r]
          BY <1>1, <2>4, <4>2, ItemMerged
        <4>4. Replaced(s.store, t.store, r, s.store[r])
          BY <2>3, <3>1, <4>3
        <4>5. DOMAIN t.store = DOMAIN s.store /\ \A k \in DOMAIN s.store : t.store[k] = s.store[k]
          BY <4>4 DEF Replaced
        <4> QED
          BY <1>6, <2>3, <4>5
      <3>2. CASE ~ (s.shared /\ r <= Len(s.store))
        BY <2>3, <3>2
      <3> QED
        BY <3>1, <3>2
    <2> QED
      BY <1>2, <1>3, <1>4, <2>3, <2>5 DEF StillQuiet, t, el
  <1> QED
    BY <1>6, <1>7, <1>8 DEF New

(* So does the merge.                                                      *)
LEMMA QuietMerge ==
  ASSUME NEW items, NEW shared, NEW room, NEW store, Mergee(Item, items, shared, room, store),
         shared => Prefix(store, items),
         NEW src \in Seq(Item), Distinct(src), Quiet(items, src)
  PROVE  Transformer(Begun(items, shared, room, store), src).store = store
  <1> DEFINE s == Begun(items, shared, room, store)
             I == {x \in Nat \X LoopState(Item) : StillQuiet(items, src, x[1], store, x[2])}
  <1>1. /\ s \in LoopState(Item) /\ s.items = items /\ s.refs = refsFor(items) /\ s.ok
        /\ s.shared = shared /\ s.store = store
    BY BegunState
  <1>2. /\ DOMAIN refsFor(items) = NamesIn(items)
        /\ \A n \in NamesIn(items) : /\ refsFor(items)[n] \in 1 .. Len(items)
                                     /\ items[refsFor(items)[n]].name = n
    BY refsForType DEF Mergee
  <1>3. Len(items) \in Nat /\ Len(src) \in Nat
    BY DEF Mergee
  <1> HIDE DEF s
  <1>4. Addressed(src, 0, s) /\ Shares(s) /\ SameNames(s.store, store)
    <2>1. Addressed(src, 0, s)
      BY <1>1, <1>2, <1>3 DEF Addressed
    <2> QED
      BY <1>1, <2>1 DEF Shares, SameNames
  <1>5. StillQuiet(items, src, 0, store, s)
    BY <1>1, <1>2, <1>4 DEF StillQuiet, NamesKept
  <1>6. <<0, s>> \in I
    BY <1>1, <1>5
  <1>7. ASSUME NEW n \in Nat, NEW m \in 1 .. Len(src), NEW t, m = n + 1, <<n, t>> \in I
        PROVE  <<m, mergeRefs(t, m, src[m])>> \in I
    <2>1. t \in LoopState(Item) /\ StillQuiet(items, src, n, store, t)
      BY <1>7
    <2>2. StillQuiet(items, src, m, store, mergeRefs(t, m, src[m]))
      BY <1>7, <2>1, StillQuietStep
    <2>3. src[m] \in Item /\ m \in Nat \ {0}
      OBVIOUS
    <2>4. mergeRefs(t, m, src[m]) \in LoopState(Item)
      BY <2>1, <2>3, ItemsMerge, MergeRefsType
    <2> QED
      BY <2>2, <2>3, <2>4
  <1> HIDE DEF I
  <1>8. <<Len(src), Transformer(s, src)>> \in I
    BY <1>3, <1>6, <1>7, LoopInduction
  <1> QED
    BY <1>8 DEF I, StillQuiet, s

(* So a run that merges such a source writes nothing.                      *)
LEMMA RunStoreKept ==
  ASSUME BuildInv, Owned, NEW src \in Seq(Item), Distinct(src), Quiet(run.items, src)
  PROVE  Transformer(RunBegun, src).store = RunStore
  <1>1. (run.array # None) => Prefix(RunStore, run.items)
    BY DEF Owned, RunStore
  <1>2. Mergee(Item, run.items, run.array # None, run.room, RunStore)
    BY RunMergee
  <1>3. RunBegun = Begun(run.items, run.array # None, run.room, RunStore)
    BY DEF RunBegun
  <1>4. PICK b : b = (run.array # None)
    OBVIOUS
  <1>5. PICK store : store = RunStore
    OBVIOUS
  <1>6. Mergee(Item, run.items, b, run.room, store) /\ (b => Prefix(store, run.items))
    BY <1>1, <1>2, <1>4, <1>5
  <1>7. Transformer(Begun(run.items, b, run.room, store), src).store = store
    BY <1>6, QuietMerge
  <1> QED
    BY <1>3, <1>4, <1>5, <1>7

-----------------------------------------------------------------------------
(* A slice with each name once, as a set.                                  *)
LEMMA ItemsAsSet ==
  ASSUME NEW items \in Seq(Item), Distinct(items)
  PROVE  {items[i] : i \in DOMAIN items} =
           {[name |-> n, val |-> ValueIn(items, n)] : n \in NamesIn(items)}
  <1>1. ASSUME NEW i \in DOMAIN items
        PROVE  items[i] = [name |-> items[i].name, val |-> ValueIn(items, items[i].name)]
    <2>1. items[i] \in Item
      OBVIOUS
    <2>2. items[i] = [name |-> items[i].name, val |-> items[i].val]
      BY <2>1 DEF Item
    <2> QED
      BY <2>2, ValueAt
  <1>2. ASSUME NEW n \in NamesIn(items)
        PROVE  \E i \in DOMAIN items : items[i] = [name |-> n, val |-> ValueIn(items, n)]
    BY <1>1, NameAt
  <1>3. ASSUME NEW i \in DOMAIN items PROVE items[i].name \in NamesIn(items)
    BY DEF NamesIn
  <1> QED
    BY <1>1, <1>2, <1>3

-----------------------------------------------------------------------------
(* What is written while a pipeline is built is in the sources it has      *)
(* merged; the run has what they give.  A tame one writes nothing.         *)
Building == pc \in {"merge", "reconcile"}
Taken(q) == \E s \in 1 .. step - 1 : q = Sources(job)[s]
Kept(q) == mem[q].timeouts = orig[q].timeouts /\ mem[q].items = orig[q].items

Holding ==
  Building =>
    /\ run.timeouts = None \/ Taken(run.timeouts)
    /\ run.array = None \/ Taken(run.array)
Clean == \A q \in Parts : Kept(q) \/ (Building /\ Taken(q))
TimeoutsGiven ==
  LET given == Given(TimeoutsOf(orig, job), step)
  IN IF run.timeouts = None THEN given = None
     ELSE given # None /\ mem[run.timeouts].timeouts = given
ItemsGiven == \A n \in Names : ValueIn(run.items, n) = Given(ValuesOf(orig, job, n), step)
Gives ==
  Building =>
    /\ TimeoutsGiven /\ ItemsGiven
    /\ Tame(job) => \A q \in Parts : Kept(q)

(* The sources taken so far, one source on.                                *)
LEMMA TakenGrows ==
  ASSUME step \in 1 .. 3, step' = step + 1, job' = job, NEW q
  PROVE  Taken(q)' <=> Taken(q) \/ q = Sources(job)[step]
  <1>1. 1 .. step' - 1 = (1 .. step - 1) \cup {step}
    OBVIOUS
  <1> QED
    BY <1>1 DEF Taken, Sources

(* The three sources are different.                                        *)
LEMMA NotTaken ==
  ASSUME BuildInv, pc = "merge"
  PROVE  ~ Taken(Sources(job)[step])
  <1>1. job \in Nat \X Nat /\ job[1] > 0 /\ job[2] > 0 /\ step \in 1 .. 3
    BY DEF BuildInv, BuildTypeOK, Place
  <1>2. job = <<job[1], job[2]>>
    BY <1>1
  <1>3. <<0, 0>> # <<job[1], 0>> /\ <<0, 0>> # job /\ <<job[1], 0>> # job
    BY <1>1, <1>2
  <1>4. ASSUME NEW s \in 1 .. step - 1 PROVE Sources(job)[step] # Sources(job)[s]
    <2>1. s \in {1, 2} /\ step \in {2, 3} /\ s # step
      BY <1>1
    <2> QED
      BY <1>3, <2>1, SourcesOf
  <1> QED
    BY <1>4 DEF Taken

(* The run holds memory of the sources it has taken, and of no others.     *)
LEMMA MergeHolds ==
  ASSUME BuildInv, Holding, Merge
  PROVE  Holding'
  <1> DEFINE p == Sources(job)[step]
             m == Merged(p)
  <1>1. /\ pc = "merge" /\ step \in 1 .. 3 /\ p \in Parts /\ MergesTo(p, m)
    BY MergeDoes
  <1>2. job' = job /\ Building
    BY <1>1 DEF MergesTo, Building
  <1> HIDE DEF m
  <1>3. CASE run.bare \/ ~ m.ok
    BY <1>1, <1>3 DEF MergesTo, Holding, Building
  <1>4. CASE ~ (run.bare \/ ~ m.ok)
    <2>1. Writes(p, m) /\ step' = step + 1
      BY <1>1, <1>4 DEF MergesTo
    <2>2. \A q : Taken(q)' <=> Taken(q) \/ q = p
      BY <1>1, <1>2, <2>1, TakenGrows
    <2>3. run'.timeouts = p \/ run'.timeouts = run.timeouts
      BY <2>1 DEF Writes
    <2>4. run'.array = p \/ run'.array = run.array \/ run'.array = None
      BY <2>1 DEF Writes
    <2> HIDE DEF p
    <2> QED
      BY <1>2, <2>2, <2>3, <2>4 DEF Holding
  <1> QED
    BY <1>3, <1>4

(* The source that is merged is as it was loaded.                          *)
LEMMA SourceKept ==
  ASSUME BuildInv, Clean, Gathered, WellNamed, pc = "merge", NEW p, p = Sources(job)[step]
  PROVE  /\ p \in Parts /\ Kept(p) /\ Distinct(mem[p].items) /\ mem[p].items \in Seq(Item)
         /\ TimeoutsOf(orig, job)[step] = mem[p].timeouts
         /\ \A n : ValuesOf(orig, job, n)[step] = ValueIn(mem[p].items, n)
  <1>1. step \in 1 .. 3 /\ job \in Parts /\ job # <<0, 0>>
    BY DEF BuildInv, Place
  <1>2. p \in Parts
    BY <1>1, SourcesAreParts
  <1>3. Kept(p)
    BY <1>2, NotTaken DEF Clean
  <1>4. TimeoutsOf(orig, job)[step] = orig[p].timeouts
    BY <1>1 DEF TimeoutsOf
  <1>5. \A n : ValuesOf(orig, job, n)[step] = ValueIn(orig[p].items, n)
    BY <1>1 DEF ValuesOf
  <1> QED
    BY <1>2, <1>3, <1>4, <1>5, StillDistinct, PartTyped DEF Kept

(* A merge gives the run the timeouts of the last source that has them;    *)
(* that of a tame pipeline writes none.                                    *)
LEMMA MergeGivesTimeouts ==
  ASSUME BuildInv, Holding, Clean, Gathered, WellNamed, TimeoutsGiven, pc = "merge",
         NEW p, p = Sources(job)[step], NEW m, Writes(p, m), step' = step + 1,
         UNCHANGED <<orig, job>>
  PROVE  /\ TimeoutsGiven'
         /\ \A q \in Parts : Kept(q) /\ ~ Taken(q) => mem'[q].timeouts = orig[q].timeouts
         /\ Tame(job) /\ (\A q \in Parts : Kept(q)) =>
              \A q \in Parts : mem'[q].timeouts = orig[q].timeouts
  <1>1. step \in 1 .. 3 /\ job \in Parts /\ job # <<0, 0>> /\ run.timeouts \in Parts \cup {None}
    BY DEF BuildInv, BuildTypeOK, Place
  <1>2. p \in Parts /\ Kept(p) /\ None \notin Parts /\ ~ Taken(p)
    BY <1>1, SourceKept, NoneIsNoPart, NotTaken
  <1>3. TimeoutsOf(orig, job)[step] = mem[p].timeouts /\ mem[p].timeouts = orig[p].timeouts
    BY <1>2, SourceKept DEF Kept
  <1>4. PICK f : f = TimeoutsOf(orig, job)
    OBVIOUS
  <1>5. Given(f, step + 1) = Later(Given(f, step), mem[p].timeouts)
    BY <1>1, <1>3, <1>4, GivenGrows
  <1>6. TimeoutsOf(orig', job') = f
    BY <1>4
  <1>7. run.timeouts = None \/ Taken(run.timeouts)
    BY DEF Holding, Building
  <1>8. /\ run'.timeouts = IF run.timeouts = None /\ mem[p].timeouts # None
                             THEN p ELSE run.timeouts
        /\ \A q \in Parts :
             mem'[q].timeouts = IF run.timeouts = q /\ mem[p].timeouts # None
                                  THEN mem[p].timeouts ELSE mem[q].timeouts
    BY DEF Writes
  <1>9. IF run.timeouts = None THEN Given(f, step) = None
        ELSE Given(f, step) # None /\ mem[run.timeouts].timeouts = Given(f, step)
    BY <1>4 DEF TimeoutsGiven
  <1>10. TimeoutsGiven'
    <2>1. IF run'.timeouts = None THEN Given(f, step + 1) = None
          ELSE Given(f, step + 1) # None /\ mem'[run'.timeouts].timeouts = Given(f, step + 1)
      <3>1. CASE run.timeouts = None /\ mem[p].timeouts = None
        BY <1>5, <1>8, <1>9, <3>1 DEF Later
      <3>2. CASE run.timeouts = None /\ mem[p].timeouts # None
        BY <1>2, <1>5, <1>8, <1>9, <3>2 DEF Later
      <3>3. CASE run.timeouts # None
        BY <1>1, <1>5, <1>8, <1>9, <3>3 DEF Later
      <3> QED
        BY <3>1, <3>2, <3>3
    <2> QED
      BY <1>6, <2>1 DEF TimeoutsGiven
  <1>11. ASSUME Tame(job), \A q \in Parts : Kept(q), NEW q \in Parts
         PROVE  mem'[q].timeouts = orig[q].timeouts
    <2>1. ASSUME run.timeouts # None, mem[p].timeouts # None PROVE FALSE
      <3>1. Given(f, step) # None
        BY <1>9, <2>1
      <3>2. PICK i \in 1 .. step - 1 : f[i] # None
        BY <1>1, <3>1, GivenGrows
      <3>3. i \in 1 .. 3 /\ i < step
        BY <1>1
      <3>4. f[i] = None \/ f[step] = None
        BY <1>1, <1>4, <1>11, <3>3, TameMeans
      <3> QED
        BY <1>3, <1>4, <2>1, <3>2, <3>4
    <2>2. mem'[q].timeouts = mem[q].timeouts
      BY <1>2, <1>8, <2>1
    <2> QED
      BY <1>11, <2>2 DEF Kept
  <1>12. ASSUME NEW q \in Parts, Kept(q), ~ Taken(q) PROVE mem'[q].timeouts = orig[q].timeouts
    <2>1. q # run.timeouts
      BY <1>2, <1>7, <1>12
    <2> QED
      BY <1>8, <1>12, <2>1 DEF Kept
  <1> QED
    BY <1>2, <1>10, <1>11, <1>12

-----------------------------------------------------------------------------
(* The same of items.                                                      *)
LEMMA MergeGivesItems ==
  ASSUME BuildInv, Owned, Holding, Clean, Gathered, WellNamed, ItemsGiven, pc = "merge",
         NEW p, p = Sources(job)[step], NEW m, m = Merged(p), Writes(p, m), step' = step + 1,
         UNCHANGED <<orig, job>>
  PROVE  /\ ItemsGiven'
         /\ \A q \in Parts : Kept(q) /\ ~ Taken(q) => mem'[q].items = orig[q].items
         /\ Tame(job) /\ (\A q \in Parts : Kept(q)) =>
              \A q \in Parts : mem'[q].items = orig[q].items
  <1>1. step \in 1 .. 3 /\ job \in Parts /\ job # <<0, 0>>
    BY DEF BuildInv, Place
  <1>2. /\ p \in Parts /\ Kept(p) /\ None \notin Parts
        /\ Distinct(mem[p].items) /\ mem[p].items \in Seq(Item)
    BY <1>1, SourceKept, NoneIsNoPart
  <1>3. run.items \in Seq(Item) /\ Distinct(run.items)
        /\ NamesIn(run.items) = NamesUpTo(orig, job, step)
    BY DEF BuildInv, BuildTypeOK, Gathered
  <1>4. run.array = None \/ Taken(run.array)
    BY DEF Holding, Building
  <1>5. ASSUME NEW n \in Names,
               ValueIn(run'.items, n) = Later(ValueIn(run.items, n), ValueIn(mem[p].items, n))
        PROVE  ValueIn(run'.items, n) = Given(ValuesOf(orig', job', n), step')
    <2>1. PICK f : f = ValuesOf(orig, job, n)
      OBVIOUS
    <2>2. f[step] = ValueIn(mem[p].items, n)
      BY <2>1, SourceKept
    <2>3. Given(f, step + 1) = Later(Given(f, step), f[step])
      BY <1>1, GivenGrows
    <2>4. ValueIn(run.items, n) = Given(f, step)
      BY <2>1 DEF ItemsGiven
    <2>5. ValuesOf(orig', job', n) = f
      BY <2>1
    <2> QED
      BY <1>5, <2>2, <2>3, <2>4, <2>5
  <1>6. CASE run.items = <<>>
    <2>1. /\ run'.items = mem[p].items
          /\ \A q \in Parts : mem'[q].items = mem[q].items
      BY <1>1, <1>2, <1>6, FirstMerge
    <2>2. ASSUME NEW n PROVE ValueIn(<<>>, n) = None
      BY NoValue, EmptyNames
    <2>3. \A n \in Names :
            ValueIn(run'.items, n) = Later(ValueIn(run.items, n), ValueIn(mem[p].items, n))
      BY <1>6, <2>1, <2>2 DEF Later
    <2> QED
      BY <1>5, <2>1, <2>3 DEF ItemsGiven, Kept
  <1>7. CASE run.items # <<>>
    <2>1. /\ m = Transformer(RunBegun, mem[p].items)
          /\ m.items \in Seq(Item) /\ run'.items = m.items
          /\ \A q \in Parts : mem'[q].items = IF run.array = q THEN m.store ELSE mem[q].items
      BY <1>2, <1>7, LaterMerge
    <2>2. IsMerge(run.items, mem[p].items, m.items)
      BY <1>2, <1>3, <2>1, RunMergee, ItemsMerge, TransformerMerges DEF RunBegun
    <2>3. \A n \in Names :
            ValueIn(run'.items, n) = Later(ValueIn(run.items, n), ValueIn(mem[p].items, n))
      BY <1>2, <1>3, <2>1, <2>2, MergedValues
    <2>4. ASSUME Tame(job), \A q \in Parts : Kept(q), NEW q \in Parts
          PROVE  mem'[q].items = orig[q].items
      <3>1. ASSUME NEW n \in NamesIn(run.items) PROVE ValueIn(mem[p].items, n) = None
        <4>1. PICK s \in 1 .. step - 1 : n \in NamesIn(orig[Sources(job)[s]].items)
          BY <1>3 DEF NamesUpTo
        <4>2. s \in 1 .. 3 /\ s < step
          BY <1>1
        <4>3. ValueIn(orig[Sources(job)[step]].items, n) = None
          BY <1>1, <2>4, <4>1, <4>2, TameMeans
        <4> QED
          BY <1>2, <4>3 DEF Kept
      <3>2. Quiet(run.items, mem[p].items)
        BY <3>1 DEF Quiet
      <3>3. m.store = RunStore
        <4>1. PICK src \in Seq(Item) : src = mem[p].items
          BY <1>2
        <4>2. Transformer(RunBegun, src).store = RunStore
          BY <1>2, <3>2, <4>1, RunStoreKept
        <4> QED
          BY <2>1, <4>1, <4>2
      <3>4. mem'[q].items = mem[q].items
        BY <1>2, <2>1, <3>3 DEF RunStore
      <3> QED
        BY <2>4, <3>4 DEF Kept
    <2>5. ASSUME NEW q \in Parts, Kept(q), ~ Taken(q) PROVE mem'[q].items = orig[q].items
      <3>1. q # run.array
        BY <1>2, <1>4, <2>5
      <3> QED
        BY <2>1, <2>5, <3>1 DEF Kept
    <2> QED
      BY <1>5, <2>3, <2>4, <2>5 DEF ItemsGiven
  <1> QED
    BY <1>6, <1>7

(* A merge writes to the sources it has taken only, and what the run has   *)
(* is what they give.                                                      *)
LEMMA MergeGives ==
  ASSUME BuildInv, Owned, Holding, Gathered, WellNamed, Clean, Gives, Merge, pc' # "end"
  PROVE  Clean' /\ Gives'
  <1>1. PICK p : p = Sources(job)[step]
    OBVIOUS
  <1>2. PICK m : m = Merged(p)
    OBVIOUS
  <1>3. /\ pc = "merge" /\ step \in 1 .. 3 /\ MergesTo(p, m)
    BY <1>1, <1>2, MergeDoes
  <1>4. /\ Writes(p, m) /\ step' = step + 1 /\ UNCHANGED <<orig, job>> /\ Building /\ Building'
    BY <1>3 DEF MergesTo, Building
  <1>5. Parts' = Parts
    BY <1>4 DEF Writes, Parts
  <1>6. TimeoutsGiven /\ ItemsGiven /\ (Tame(job) => \A q \in Parts : Kept(q))
    BY <1>4 DEF Gives
  <1>7. /\ TimeoutsGiven'
        /\ \A q \in Parts : Kept(q) /\ ~ Taken(q) => mem'[q].timeouts = orig[q].timeouts
        /\ Tame(job) /\ (\A q \in Parts : Kept(q)) =>
              \A q \in Parts : mem'[q].timeouts = orig[q].timeouts
    BY <1>1, <1>3, <1>4, <1>6, MergeGivesTimeouts
  <1>8. /\ ItemsGiven'
        /\ \A q \in Parts : Kept(q) /\ ~ Taken(q) => mem'[q].items = orig[q].items
        /\ Tame(job) /\ (\A q \in Parts : Kept(q)) =>
              \A q \in Parts : mem'[q].items = orig[q].items
    BY <1>1, <1>2, <1>3, <1>4, <1>6, MergeGivesItems
  <1>9. \A q \in Parts : Taken(q) => Taken(q)'
    BY <1>3, <1>4, TakenGrows
  <1>10. Clean'
    BY <1>4, <1>5, <1>7, <1>8, <1>9 DEF Clean, Kept
  <1>11. Tame(job)' <=> Tame(job)
    BY <1>4 DEF Tame, Sources
  <1>12. Tame(job) => \A q \in Parts : Kept(q)'
    BY <1>4, <1>6, <1>7, <1>8 DEF Kept
  <1> QED
    BY <1>5, <1>7, <1>8, <1>10, <1>11, <1>12 DEF Gives

-----------------------------------------------------------------------------
(* What has become of the parameters that are still to be evaluated: the   *)
(* values of tame pipelines do not change when evaluated once more.        *)
Stale(p) == p \in Jobs /\ Before(p, job)
ParamsKept ==
  \A p \in Parts : \A i \in DOMAIN orig[p].params :
    LET was == orig[p].params[i].val
        now == mem[p].params[i].val
    IN \/ Stale(p)
       \/ now = was
       \/ mode = "trigger" /\ was \in {"text", "expr"} /\ now = "text"

(* The sources of the current pipeline are not pipelines built before.     *)
LEMMA SourcesNotStale ==
  ASSUME BuildInv, job \in Jobs, job # <<0, 0>>, NEW p, IsSource(p, job)
  PROVE  ~ Stale(p)
  <1>1. job \in Nat \X Nat
    BY JobsTyped
  <1>2. CASE p = job
    BY <1>1, <1>2 DEF Stale, Before
  <1>3. CASE p # job
    BY <1>3 DEF IsSource, Stale, Jobs
  <1> QED
    BY <1>2, <1>3

(* A parameter of the run evaluates to what it would have, had nothing     *)
(* been built before.                                                      *)
LEMMA ValueKept ==
  ASSUME BuildInv, ProgressInv, ParamsKept, pc = "reconcile",
         NEW k \in DOMAIN run.params
  PROVE  /\ run.params[k] \in Parts \X Nat
         /\ Resolved(Value(run.params[k])) =
              Resolved(orig[run.params[k][1]].params[run.params[k][2]])
  <1>1. /\ SameParams /\ RunPoints /\ job \in Jobs /\ job # <<0, 0>>
        /\ mode \in {"trigger", "validator"}
    BY DEF ProgressInv, BuildInv, BuildTypeOK, Place
  <1>2. PICK p \in Parts, i \in Nat : run.params[k] = <<p, i>>
    <2>1. run.params[k] \in Parts \X Nat
      BY PointedValue
    <2> HIDE DEF Parts
    <2> QED
      BY <2>1
  <1>3. i \in DOMAIN mem[p].params /\ i \in DOMAIN orig[p].params
    BY <1>1, <1>2 DEF BuildInv, PointersValid, SameParams
  <1>4. IsSource(p, job)
    <2>1. Pointed(<<p, i>>)
      BY <1>2 DEF Pointed
    <2> QED
      BY <1>1, <1>3, <2>1, PointedAll
  <1>5. ~ Stale(p)
    BY <1>1, <1>4, SourcesNotStale
  <1> DEFINE was == orig[p].params[i]
             now == mem[p].params[i]
  <1>6. now.val = was.val \/ (mode = "trigger" /\ was.val \in {"text", "expr"} /\ now.val = "text")
    BY <1>3, <1>5 DEF ParamsKept
  <1>7. now.name = was.name
    BY <1>1, <1>2, <1>3 DEF SameParams
  <1>8. Evaluated(now.val) = Evaluated(was.val)
    <2>1. CASE now.val = was.val
      BY <2>1
    <2>2. CASE mode = "trigger" /\ was.val \in {"text", "expr"} /\ now.val = "text"
      BY <2>2 DEF Evaluated, SafeValueOf
    <2> QED
      BY <1>6, <2>1, <2>2
  <1>9. now \in Param /\ was \in Param
    <2>1. mem[p].params \in Seq(Param) /\ orig[p].params \in Seq(Param)
      BY <1>2, PartTyped
    <2> QED
      BY <1>3, <2>1
  <1>10. Value(run.params[k]) = now
    BY <1>2 DEF Value
  <1> HIDE DEF now, was
  <1>11. Resolved(now) = Resolved(was)
    BY <1>1, <1>7, <1>8, <1>9, ResolvedType
  <1> QED
    BY <1>2, <1>10, <1>11 DEF was

-----------------------------------------------------------------------------
(* What three lists give by name is in one of them; if no name is twice,   *)
(* all they have is given.                                                 *)
LEMMA ChosenAt ==
  ASSUME NEW items, NEW n \in NamesIn(items)
  PROVE  \E k \in DOMAIN items : items[k].name = n /\ ValueIn(items, n) = items[k].val
  <1> DEFINE at == {i \in DOMAIN items : items[i].name = n}
  <1>1. at # {}
    BY DEF NamesIn
  <1>2. PICK k \in at : k = CHOOSE i \in at : TRUE
    BY <1>1
  <1> QED
    BY <1>1, <1>2 DEF ValueIn

(* The last value that is given is one of those given.                     *)
LEMMA LastIsOne ==
  ASSUME NEW f, DOMAIN f = 1 .. 3
  PROVE  /\ LastGiven(f) # None => \E i \in 1 .. 3 : f[i] = LastGiven(f)
         /\ LastGiven(f) = None => \A i \in 1 .. 3 : f[i] = None
         /\ \A i \in 1 .. 3 : (\A k \in 1 .. 3 : k # i => f[k] = None) => LastGiven(f) = f[i]
  <1>1. LastGiven(f) = Later(Later(f[1], f[2]), f[3])
    BY LastOfThree DEF Given
  <1>2. 1 .. 3 = {1, 2, 3}
    OBVIOUS
  <1> QED
    BY <1>1, <1>2 DEF Later

Among(lists, e) == \E i \in 1 .. 3 : \E k \in DOMAIN lists[i] : lists[i][k] = e
AllApart(lists) ==
  \A i, k \in 1 .. 3 : \A a \in DOMAIN lists[i], b \in DOMAIN lists[k] :
    lists[i][a].name = lists[k][b].name => i = k /\ a = b
ValuesIn(lists, n) == [i \in 1 .. 3 |-> ValueIn(lists[i], n)]
PairApart(s, t, i, k) ==
  \A a \in DOMAIN s, b \in DOMAIN t : s[a].name = t[b].name => i = k /\ a = b

(* The sources of a pipeline are apart when their parameters are.          *)
LEMMA ApartLists ==
  ASSUME NEW j, NEW lists, \A i \in 1 .. 3 : lists[i] = orig[Sources(j)[i]].params
  PROVE  ParamsApart(j) <=> AllApart(lists)
  <1>1. AllApart(lists) <=> \A i, k \in 1 .. 3 : PairApart(lists[i], lists[k], i, k)
    BY DEF AllApart, PairApart
  <1>2. ParamsApart(j) <=>
          \A i, k \in 1 .. 3 :
            PairApart(orig[Sources(j)[i]].params, orig[Sources(j)[k]].params, i, k)
    BY DEF ParamsApart, PairApart
  <1> QED
    BY <1>1, <1>2

(* A parameter by name has the last value that a source gives to the name. *)
LEMMA ByNameMeans ==
  ASSUME NEW lists, NEW e
  PROVE  e \in ByName(lists) <=>
           \E i \in 1 .. 3 : \E n \in NamesIn(lists[i]) :
             e = [name |-> n, val |-> LastGiven(ValuesIn(lists, n))]
  BY DEF ByName, ValuesIn

(* Every name that a source has is there.                                  *)
LEMMA ByNameThere ==
  ASSUME NEW lists, \A i \in 1 .. 3 : lists[i] \in Seq(Param), NEW e \in ByName(lists)
  PROVE  Among(lists, e)
  <1>1. PICK s \in 1 .. 3 : \E n \in NamesIn(lists[s]) :
          e = [name |-> n, val |-> LastGiven(ValuesIn(lists, n))]
    BY ByNameMeans
  <1>2. PICK n \in NamesIn(lists[s]) : e = [name |-> n, val |-> LastGiven(ValuesIn(lists, n))]
    BY <1>1
  <1>3. PICK f : f = ValuesIn(lists, n)
    OBVIOUS
  <1>4. DOMAIN f = 1 .. 3 /\ \A i \in 1 .. 3 : f[i] = ValueIn(lists[i], n)
    BY <1>3 DEF ValuesIn
  <1>5. PICK v : v = LastGiven(f)
    OBVIOUS
  <1>6. \E i \in 1 .. 3 : n \in NamesIn(lists[i]) /\ ValueIn(lists[i], n) = v
    <2>1. CASE v # None
      <3>1. PICK i \in 1 .. 3 : f[i] = v
        BY <1>4, <1>5, <2>1, LastIsOne
      <3>2. ValueIn(lists[i], n) # None
        BY <1>4, <2>1, <3>1
      <3>3. n \in NamesIn(lists[i])
        BY <3>2, NoValue
      <3> QED
        BY <1>4, <3>1, <3>3
    <2>2. CASE v = None
      <3>1. f[s] = None
        BY <1>4, <1>5, <2>2, LastIsOne
      <3> QED
        BY <1>2, <1>4, <2>2, <3>1
    <2> QED
      BY <2>1, <2>2
  <1>7. PICK i \in 1 .. 3 : n \in NamesIn(lists[i]) /\ ValueIn(lists[i], n) = v
    BY <1>6
  <1>8. PICK k \in DOMAIN lists[i] : lists[i][k].name = n /\ lists[i][k].val = v
    BY <1>7, ChosenAt
  <1>9. lists[i][k] = [name |-> n, val |-> v]
    <2>1. lists[i][k] \in Param
      BY <1>8
    <2> QED
      BY <1>8, <2>1 DEF Param
  <1> QED
    BY <1>2, <1>3, <1>5, <1>8, <1>9 DEF Among

(* When no name occurs twice, every parameter is there by its name.        *)
LEMMA ApartByName ==
  ASSUME NEW lists, \A i \in 1 .. 3 : lists[i] \in Seq(Param), AllApart(lists),
         NEW i \in 1 .. 3, NEW k \in DOMAIN lists[i]
  PROVE  lists[i][k] \in ByName(lists)
  <1> DEFINE n == lists[i][k].name
  <1>1. lists[i][k] = [name |-> n, val |-> lists[i][k].val] /\ n \in NamesIn(lists[i])
    <2>1. lists[i][k] \in Param
      OBVIOUS
    <2> QED
      BY <2>1 DEF Param, NamesIn
  <1>2. PICK f : f = ValuesIn(lists, n)
    OBVIOUS
  <1>3. DOMAIN f = 1 .. 3 /\ \A s \in 1 .. 3 : f[s] = ValueIn(lists[s], n)
    BY <1>2 DEF ValuesIn
  <1>4. f[i] = lists[i][k].val
    <2>1. Distinct(lists[i])
      BY DEF AllApart, Distinct
    <2> QED
      BY <1>3, <2>1, ValueAt
  <1>5. ASSUME NEW s \in 1 .. 3, s # i PROVE f[s] = None
    <2>1. n \notin NamesIn(lists[s])
      BY <1>5 DEF AllApart, NamesIn
    <2> QED
      BY <1>3, <2>1, NoValue
  <1>6. LastGiven(f) = f[i]
    BY <1>3, <1>5, LastIsOne
  <1> QED
    BY <1>1, <1>2, <1>4, <1>6, ByNameMeans

-----------------------------------------------------------------------------
(* A run points to no parameter twice.                                     *)
Once(s) == \A i, k \in DOMAIN s : s[i] = s[k] => i = k

(* Two lists of different elements, put together, hold none twice.         *)
LEMMA ConcatOnce ==
  ASSUME NEW S, NEW a \in Seq(S), NEW b \in Seq(S), Once(a), Once(b),
         \A e : ~ (Holds(a, e) /\ Holds(b, e))
  PROVE  Once(a \o b)
  <1>1. PICK k \in Nat : DOMAIN a = 1 .. k /\ Len(a) = k
    OBVIOUS
  <1>2. PICK l \in Nat : DOMAIN b = 1 .. l /\ Len(b) = l
    OBVIOUS
  <1>3. PICK c \in Seq(S) : c = a \o b
    <2>1. a \o b \in Seq(S)
      OBVIOUS
    <2> QED
      BY <2>1
  <1>4. DOMAIN c = 1 .. k + l /\ \A i \in 1 .. k + l : c[i] = IF i <= k THEN a[i] ELSE b[i - k]
    BY <1>1, <1>2, <1>3
  <1>5. ASSUME NEW i \in 1 .. k + l, i <= k PROVE i \in DOMAIN a /\ c[i] = a[i]
    BY <1>1, <1>4, <1>5
  <1>6. ASSUME NEW i \in 1 .. k + l, ~ (i <= k) PROVE i - k \in DOMAIN b /\ c[i] = b[i - k]
    BY <1>2, <1>4, <1>6
  <1>7. ASSUME NEW i \in 1 .. k + l, NEW j \in 1 .. k + l, c[i] = c[j] PROVE i = j
    <2>1. CASE i <= k /\ j <= k
      BY <1>5, <1>7, <2>1 DEF Once
    <2>2. CASE ~ (i <= k) /\ ~ (j <= k)
      <3>1. i - k = j - k
        BY <1>6, <1>7, <2>2 DEF Once
      <3> QED
        BY <3>1
    <2>3. CASE i <= k /\ ~ (j <= k)
      <3>1. Holds(a, c[i]) /\ Holds(b, c[i])
        BY <1>5, <1>6, <1>7, <2>3 DEF Holds
      <3> QED
        BY <3>1
    <2>4. CASE ~ (i <= k) /\ j <= k
      <3>1. Holds(a, c[i]) /\ Holds(b, c[i])
        BY <1>5, <1>6, <1>7, <2>4 DEF Holds
      <3> QED
        BY <3>1
    <2> QED
      BY <2>1, <2>2, <2>3, <2>4
  <1> QED
    BY <1>3, <1>4, <1>7 DEF Once

(* The pointers to a slice are different.                                  *)
LEMMA PtrOnce ==
  ASSUME NEW p
  PROVE  Once(Ptr(orig, p)) /\ \A e : Holds(Ptr(orig, p), e) => e[1] = p
  <1>1. PICK s : s = Ptr(orig, p)
    OBVIOUS
  <1>2. \A i \in DOMAIN s : s[i] = <<p, i>>
    BY <1>1 DEF Ptr
  <1>3. \A i \in DOMAIN s : s[i][1] = p /\ s[i][2] = i
    BY <1>2
  <1> QED
    BY <1>1, <1>3 DEF Once, Holds

(* So the run of a pipeline points to no parameter twice.                  *)
LEMMA RunPointsOnce ==
  ASSUME BuildInv, ProgressInv, pc = "reconcile"
  PROVE  Once(run.params)
  <1>1. /\ RunPoints /\ job \in Parts /\ job # <<0, 0>> /\ step = 4
        /\ job \in Nat \X Nat /\ job[1] > 0 /\ job[2] > 0
    BY DEF ProgressInv, BuildInv, BuildTypeOK, Place
  <1>2. <<0, 0>> \in Parts /\ <<job[1], 0>> \in Parts
    <2>1. Sources(job)[1] \in Parts /\ Sources(job)[2] \in Parts
      BY <1>1, SourcesAreParts
    <2> QED
      BY <2>1, SourcesOf
  <1> DEFINE a == Ptr(orig, <<0, 0>>)
             b == Ptr(orig, <<job[1], 0>>)
             c == Ptr(orig, job)
  <1>3. run.params = (a \o b) \o c
    <2>1. run.params = PtrsUpTo(orig, job, 4)
      BY <1>1 DEF RunPoints
    <2>2. PtrsUpTo(orig, job, 4) = (a \o b) \o c
      BY DEF PtrsUpTo
    <2> QED
      BY <2>1, <2>2
  <1>4. a \in Seq(Parts \X Nat) /\ b \in Seq(Parts \X Nat) /\ c \in Seq(Parts \X Nat)
    BY <1>1, <1>2, PtrType
  <1>5. Once(a) /\ Once(b) /\ Once(c)
    BY PtrOnce
  <1>6. \A e : /\ Holds(a, e) => e[1] = <<0, 0>>
               /\ Holds(b, e) => e[1] = <<job[1], 0>>
               /\ Holds(c, e) => e[1] = job
    BY PtrOnce
  <1>7. <<0, 0>> # <<job[1], 0>> /\ <<0, 0>> # job /\ <<job[1], 0>> # job
    BY <1>1
  <1> HIDE DEF a, b, c
  <1>8. PICK d \in Seq(Parts \X Nat) : d = a \o b
    <2>1. a \o b \in Seq(Parts \X Nat)
      BY <1>4
    <2> QED
      BY <2>1
  <1>9. Once(d)
    BY <1>4, <1>5, <1>6, <1>7, <1>8, ConcatOnce
  <1>10. \A e : Holds(d, e) <=> Holds(a, e) \/ Holds(b, e)
    BY <1>4, <1>8, Concatenated
  <1>11. \A e : ~ (Holds(d, e) /\ Holds(c, e))
    BY <1>6, <1>7, <1>10
  <1>12. Once(d \o c)
    BY <1>4, <1>5, <1>8, <1>9, <1>11, ConcatOnce
  <1> QED
    BY <1>3, <1>8, <1>12

-----------------------------------------------------------------------------
(* The parameters of the finished PipelineRun.                             *)
ParamsOf(o, j) == [i \in 1 .. 3 |-> o[Sources(j)[i]].params]

(* A parameter of what is built comes from a source.                       *)
LEMMA FinishedFrom ==
  ASSUME BuildInv, ProgressInv, ParamsKept, pc = "reconcile",
         NEW k \in DOMAIN Finished.params
  PROVE  \E p \in Parts : \E i \in DOMAIN orig[p].params :
           /\ IsSource(p, job) /\ run.params[k] = <<p, i>>
           /\ Finished.params[k] = Resolved(orig[p].params[i])
  <1>1. k \in DOMAIN run.params /\ Finished.params[k] = Resolved(Value(run.params[k]))
    BY DEF Finished
  <1>2. PICK p \in Parts, i \in Nat : run.params[k] = <<p, i>>
    BY <1>1, PointedValue
  <1>3. i \in DOMAIN mem[p].params /\ i \in DOMAIN orig[p].params
    BY <1>1, <1>2 DEF BuildInv, PointersValid, ProgressInv, SameParams
  <1>4. IsSource(p, job)
    <2>1. Pointed(<<p, i>>)
      BY <1>1, <1>2 DEF Pointed
    <2> QED
      BY <1>3, <2>1, PointedAll DEF ProgressInv
  <1>5. Resolved(Value(run.params[k])) = Resolved(orig[p].params[i])
    <2>1. Resolved(Value(run.params[k])) =
            Resolved(orig[run.params[k][1]].params[run.params[k][2]])
      BY <1>1, ValueKept
    <2>2. run.params[k][1] = p /\ run.params[k][2] = i
      BY <1>2
    <2> QED
      BY <2>1, <2>2
  <1> QED
    BY <1>1, <1>2, <1>3, <1>4, <1>5

(* Every parameter of a source is in what is built.                        *)
LEMMA FinishedHas ==
  ASSUME BuildInv, ProgressInv, ParamsKept, pc = "reconcile",
         NEW p \in Parts, IsSource(p, job), NEW i \in DOMAIN orig[p].params
  PROVE  \E k \in DOMAIN Finished.params : Finished.params[k] = Resolved(orig[p].params[i])
  <1>1. i \in DOMAIN mem[p].params
    BY DEF ProgressInv, SameParams
  <1>2. Pointed(<<p, i>>)
    BY <1>1, PointedAll DEF ProgressInv
  <1>3. PICK k \in DOMAIN run.params : run.params[k] = <<p, i>>
    BY <1>2 DEF Pointed
  <1>4. k \in DOMAIN Finished.params /\ Finished.params[k] = Resolved(Value(run.params[k]))
    BY <1>3 DEF Finished
  <1>5. Resolved(Value(run.params[k])) = Resolved(orig[p].params[i])
    <2>1. Resolved(Value(run.params[k])) =
            Resolved(orig[run.params[k][1]].params[run.params[k][2]])
      BY <1>3, ValueKept
    <2>2. run.params[k][1] = p /\ run.params[k][2] = i
      BY <1>3
    <2> QED
      BY <2>1, <2>2
  <1> QED
    BY <1>4, <1>5

(* What the sources give by name is there; if no name is twice, each once  *)
(* and nothing else.                                                       *)
LEMMA ParamsAsExpected ==
  ASSUME BuildInv, ProgressInv, ParamsKept, pc = "reconcile"
  PROVE  /\ ExpectedParams(job) \subseteq {Finished.params[k] : k \in DOMAIN Finished.params}
         /\ ParamsApart(job) =>
              /\ Distinct(Finished.params)
              /\ {Finished.params[k] : k \in DOMAIN Finished.params} = ExpectedParams(job)
  <1>1. PICK lists : lists = ParamsOf(orig, job)
    OBVIOUS
  <1>2. job \in Parts /\ job # <<0, 0>>
    BY DEF BuildInv, Place
  <1>3. \A i \in 1 .. 3 : lists[i] = orig[Sources(job)[i]].params
    BY <1>1 DEF ParamsOf
  <1>4. \A i \in 1 .. 3 : Sources(job)[i] \in Parts /\ IsSource(Sources(job)[i], job)
    BY <1>2, SourcesAreParts, IsSourceOf
  <1>5. \A i \in 1 .. 3 : lists[i] \in Seq(Param)
    BY <1>3, <1>4, PartTyped
  <1>6. ExpectedParams(job) = {Resolved(e) : e \in ByName(lists)}
    BY <1>1 DEF ExpectedParams, ParamsOf
  <1>7. ASSUME NEW i \in 1 .. 3, NEW a \in DOMAIN lists[i]
        PROVE  \E k \in DOMAIN Finished.params : Finished.params[k] = Resolved(lists[i][a])
    BY <1>3, <1>4, FinishedHas
  <1>8. ASSUME NEW k \in DOMAIN Finished.params
        PROVE  \E i \in 1 .. 3 : \E a \in DOMAIN lists[i] :
                 /\ run.params[k] = <<Sources(job)[i], a>>
                 /\ Finished.params[k] = Resolved(lists[i][a])
    <2>1. PICK p \in Parts : \E a \in DOMAIN orig[p].params :
            /\ IsSource(p, job) /\ run.params[k] = <<p, a>>
            /\ Finished.params[k] = Resolved(orig[p].params[a])
      BY FinishedFrom
    <2>2. PICK i \in 1 .. 3 : p = Sources(job)[i]
      BY <2>1, IsSourceOf
    <2> QED
      BY <1>3, <2>1, <2>2
  <1>9. ExpectedParams(job) \subseteq {Finished.params[k] : k \in DOMAIN Finished.params}
    <2>1. ASSUME NEW e \in ByName(lists)
          PROVE  Resolved(e) \in {Finished.params[k] : k \in DOMAIN Finished.params}
      <3>1. Among(lists, e)
        BY <1>5, ByNameThere
      <3> QED
        BY <1>7, <3>1 DEF Among
    <2> QED
      BY <1>6, <2>1
  <1>10. ASSUME ParamsApart(job)
         PROVE  /\ Distinct(Finished.params)
                /\ {Finished.params[k] : k \in DOMAIN Finished.params} \subseteq ExpectedParams(job)
    <2>1. AllApart(lists)
      BY <1>3, <1>10, ApartLists
    <2>2. ASSUME NEW k \in DOMAIN Finished.params
          PROVE  Finished.params[k] \in ExpectedParams(job)
      <3>1. PICK i \in 1 .. 3 : \E a \in DOMAIN lists[i] :
              Finished.params[k] = Resolved(lists[i][a])
        BY <1>8
      <3>2. PICK a \in DOMAIN lists[i] : Finished.params[k] = Resolved(lists[i][a])
        BY <3>1
      <3>3. lists[i][a] \in ByName(lists)
        BY <1>5, <2>1, ApartByName
      <3> QED
        BY <1>6, <3>2, <3>3
    <2>3. \A q \in Param : Resolved(q).name = q.name
      <3>1. mode \in {"trigger", "validator"}
        BY DEF BuildInv, BuildTypeOK
      <3> QED
        BY <3>1, ResolvedType
    <2>4. ASSUME NEW k \in DOMAIN Finished.params, NEW l \in DOMAIN Finished.params,
                 Finished.params[k].name = Finished.params[l].name
          PROVE  k = l
      <3>1. PICK i \in 1 .. 3 : \E a \in DOMAIN lists[i] :
              /\ run.params[k] = <<Sources(job)[i], a>>
              /\ Finished.params[k] = Resolved(lists[i][a])
        BY <1>8
      <3>2. PICK a \in DOMAIN lists[i] :
              /\ run.params[k] = <<Sources(job)[i], a>>
              /\ Finished.params[k] = Resolved(lists[i][a])
        BY <3>1
      <3>3. PICK j \in 1 .. 3 : \E b \in DOMAIN lists[j] :
              /\ run.params[l] = <<Sources(job)[j], b>>
              /\ Finished.params[l] = Resolved(lists[j][b])
        BY <1>8
      <3>4. PICK b \in DOMAIN lists[j] :
              /\ run.params[l] = <<Sources(job)[j], b>>
              /\ Finished.params[l] = Resolved(lists[j][b])
        BY <3>3
      <3>5. lists[i][a] \in Param /\ lists[j][b] \in Param
        BY <1>5
      <3>6. lists[i][a].name = lists[j][b].name
        BY <2>3, <2>4, <3>2, <3>4, <3>5
      <3>7. i = j /\ a = b
        BY <2>1, <3>6 DEF AllApart
      <3>8. run.params[k] = run.params[l]
        BY <3>2, <3>4, <3>7
      <3>9. k \in DOMAIN run.params /\ l \in DOMAIN run.params
        BY DEF Finished
      <3> QED
        BY <3>8, <3>9, RunPointsOnce DEF Once
    <2> QED
      BY <2>2, <2>4 DEF Distinct
  <1> QED
    BY <1>9, <1>10

(* The finished PipelineRun is what its three parts say.                   *)
LEMMA FinishedAsExpected ==
  ASSUME BuildInv, ProgressInv, Gathered, WellNamed, Gives, ParamsKept, pc = "reconcile"
  PROVE  AsExpected(Finished)
  <1>1. step = 4 /\ Building /\ TimeoutsGiven /\ ItemsGiven /\ Distinct(run.items)
        /\ NamesIn(run.items) = NamesUpTo(orig, job, 4) /\ run.items \in Seq(Item)
    BY DEF BuildInv, BuildTypeOK, Place, Building, Gives, Gathered
  <1>2. /\ Finished.job = job /\ Finished.items = run.items
        /\ Finished.timeouts = IF run.timeouts = None THEN None ELSE mem[run.timeouts].timeouts
    BY DEF Finished
  <1>3. Finished.timeouts = ExpectedTimeouts(job)
    <2>1. PICK f : f = TimeoutsOf(orig, job)
      OBVIOUS
    <2>2. ExpectedTimeouts(job) = LastGiven(f) /\ DOMAIN f = 1 .. 3
      BY <2>1 DEF ExpectedTimeouts, TimeoutsOf
    <2>3. LastGiven(f) = Given(f, 4)
      BY <2>2, LastOfThree
    <2>4. IF run.timeouts = None THEN Given(f, 4) = None
          ELSE mem[run.timeouts].timeouts = Given(f, 4)
      BY <1>1, <2>1 DEF TimeoutsGiven
    <2> QED
      BY <1>2, <2>2, <2>3, <2>4
  <1>4. {run.items[i] : i \in DOMAIN run.items} = ExpectedItems(job)
    <2> DEFINE lists == [i \in 1 .. 3 |-> orig[Sources(job)[i]].items]
               names == UNION {NamesIn(lists[i]) : i \in 1 .. 3}
               value(n) == LastGiven([i \in 1 .. 3 |-> ValueIn(lists[i], n)])
    <2>1. ExpectedItems(job) = {[name |-> n, val |-> value(n)] : n \in names}
      BY DEF ExpectedItems, ByName
    <2>2. NamesIn(run.items) = names
      BY <1>1 DEF NamesUpTo
    <2>3. NamesIn(run.items) \subseteq Names
      <3>1. \A i \in DOMAIN run.items : run.items[i] \in Item
        BY <1>1
      <3>2. \A i \in DOMAIN run.items : run.items[i].name \in Names
        BY <3>1 DEF Item
      <3> QED
        BY <3>2 DEF NamesIn
    <2>4. ASSUME NEW n \in Names PROVE ValueIn(run.items, n) = value(n)
      <3>1. PICK f : f = ValuesOf(orig, job, n)
        OBVIOUS
      <3>2. value(n) = LastGiven(f) /\ DOMAIN f = 1 .. 3
        BY <3>1 DEF ValuesOf
      <3>3. LastGiven(f) = Given(f, 4)
        BY <3>2, LastOfThree
      <3>4. ValueIn(run.items, n) = Given(f, 4)
        BY <1>1, <3>1 DEF ItemsGiven
      <3> QED
        BY <3>2, <3>3, <3>4
    <2>5. {run.items[i] : i \in DOMAIN run.items} =
            {[name |-> n, val |-> ValueIn(run.items, n)] : n \in NamesIn(run.items)}
      BY <1>1, ItemsAsSet
    <2> HIDE DEF names, value
    <2> QED
      BY <2>1, <2>2, <2>3, <2>4, <2>5
  <1>5. /\ ExpectedParams(job) \subseteq {Finished.params[i] : i \in DOMAIN Finished.params}
        /\ ParamsApart(job) =>
             /\ Distinct(Finished.params)
             /\ {Finished.params[i] : i \in DOMAIN Finished.params} = ExpectedParams(job)
    BY ParamsAsExpected
  <1>6. Finished.label = ExpectedLabel(job)
    <2>1. run.label = GivenLabel(job)
      BY LabelMeans DEF ProgressInv
    <2> QED
      BY <2>1 DEF Finished, ExpectedLabel
  <1> QED
    BY <1>1, <1>2, <1>3, <1>4, <1>5, <1>6 DEF AsExpected

-----------------------------------------------------------------------------
(* The expectations, of a configuration o in mode m.                       *)
TameIn(o, j) ==
  LET source(i) == o[Sources(j)[i]]
  IN /\ Cardinality({i \in 1 .. 3 : source(i).timeouts # None}) <= 1
     /\ \A i, k \in 1 .. 3 : i < k =>
          \A n \in NamesIn(source(i).items) : ValueIn(source(k).items, n) = None
     /\ \A i \in 1 .. 2, v \in {"nested", "poison"} :
          \A k \in DOMAIN source(i).params : source(i).params[k].val # v
ItemsIn(o, j) == ByName([i \in 1 .. 3 |-> o[Sources(j)[i]].items])
ValueBy(m, v) == IF m = "validator" THEN v ELSE SafeValueOf(v)
ParamsIn(o, m, j) ==
  {[q EXCEPT !.val = ValueBy(m, @)] : q \in ByName([i \in 1 .. 3 |-> o[Sources(j)[i]].params])}
LabelIn(o, m, j) ==
  LET given == LastGiven([i \in 1 .. 3 |-> o[Sources(j)[i]].label])
  IN IF given = None THEN None ELSE ValueBy(m, given)
ApartIn(o, j) == AllApart([i \in 1 .. 3 |-> o[Sources(j)[i]].params])
ElementsOf(s) == {s[i] : i \in DOMAIN s}
RightIn(o, m, b) ==
  /\ b.timeouts = LastGiven([i \in 1 .. 3 |-> o[Sources(b.job)[i]].timeouts])
  /\ b.label = LabelIn(o, m, b.job)
  /\ Distinct(b.items)
  /\ ElementsOf(b.items) = ItemsIn(o, b.job)
  /\ ParamsIn(o, m, b.job) \subseteq ElementsOf(b.params)
  /\ ApartIn(o, b.job) =>
       /\ Distinct(b.params)
       /\ ElementsOf(b.params) = ParamsIn(o, m, b.job)

(* Tame depends on what was loaded.                                        *)
LEMMA TameSame == \A j : Tame(j) <=> TameIn(orig, j)
  BY DEF Tame, TameIn

(* So does what is expected.                                               *)
LEMMA RightSame == \A b : AsExpected(b) <=> RightIn(orig, mode, b)
  <1>1. \A j : ExpectedItems(j) = ItemsIn(orig, j)
    BY DEF ExpectedItems, ItemsIn
  <1>2. \A j : ExpectedParams(j) = ParamsIn(orig, mode, j)
    BY DEF ExpectedParams, ParamsIn, Resolved, Evaluated, ValueBy
  <1>3. \A j : ExpectedTimeouts(j) = LastGiven([i \in 1 .. 3 |-> orig[Sources(j)[i]].timeouts])
    BY DEF ExpectedTimeouts
  <1>4. \A j : ExpectedLabel(j) = LabelIn(orig, mode, j)
    BY DEF ExpectedLabel, GivenLabel, LabelIn, Evaluated, ValueBy
  <1>5. \A j : ParamsApart(j) <=> ApartIn(orig, j)
    <2>1. ASSUME NEW j PROVE ParamsApart(j) <=> ApartIn(orig, j)
      <3>1. PICK lists : lists = [i \in 1 .. 3 |-> orig[Sources(j)[i]].params]
        OBVIOUS
      <3>2. \A i \in 1 .. 3 : lists[i] = orig[Sources(j)[i]].params
        BY <3>1
      <3>3. ApartIn(orig, j) <=> AllApart(lists)
        BY <3>1 DEF ApartIn
      <3>4. ParamsApart(j) <=> AllApart(lists)
        BY <3>2, ApartLists
      <3> QED
        BY <3>3, <3>4
    <2> QED
      BY <2>1
  <1> QED
    BY <1>1, <1>2, <1>3, <1>4, <1>5 DEF AsExpected, RightIn, ElementsOf

Tames == \A i \in DOMAIN built : TameIn(orig, built[i].job)
BuiltRight ==
  \A i \in DOMAIN built :
    (\A k \in 1 .. i - 1 : TameIn(orig, built[k].job)) => RightIn(orig, mode, built[i])
Untouched == Clean /\ Gives /\ ParamsKept

(* The invariant of tame pipelines.                                        *)
TameInv ==
  WellNamed =>
    /\ BuiltRight /\ Holding
    /\ Tames /\ pc # "end" => Untouched

(* The invariant implies the property.                                     *)
LEMMA TameInvMeans ==
  ASSUME TameInv
  PROVE  RunAfterTameOnes
  <1>1. ASSUME WellNamed, NEW i \in DOMAIN built, \A k \in 1 .. i - 1 : Tame(built[k].job)
        PROVE  AsExpected(built[i])
    <2>1. \A k \in 1 .. i - 1 : TameIn(orig, built[k].job)
      BY <1>1, TameSame
    <2>2. RightIn(orig, mode, built[i])
      BY <1>1, <2>1 DEF TameInv, BuiltRight
    <2>3. PICK b : b = built[i]
      OBVIOUS
    <2>4. AsExpected(b)
      BY <2>2, <2>3, RightSame
    <2> QED
      BY <2>3, <2>4
  <1> QED
    BY <1>1 DEF RunAfterTameOnes

-----------------------------------------------------------------------------
(* The parameters that are still to be evaluated.                          *)
LEMMA ParamsWritten ==
  ASSUME BuildInv, ProgressInv, ParamsKept, Reconcile, ~ Fails, Tame(job), mode' = mode
  PROVE  ParamsKept'
  <1>1. /\ Parts' = Parts /\ orig' = orig /\ Jobs' = Jobs
    BY StepKeepsJobs DEF Build
  <1>2. /\ pc = "reconcile" /\ WritesValues /\ job \in Jobs /\ job # <<0, 0>> /\ job \in Parts
        /\ SameParams /\ RunPoints /\ mode \in {"trigger", "validator"}
    BY ReconcileDoes DEF ProgressInv, BuildInv, BuildTypeOK
  <1>3. \A k \in Jobs : Before(k, job') <=> Before(k, job) \/ k = job
    BY <1>2, ReconcileDone
  <1>4. \A p : Stale(p)' <=> Stale(p) \/ p = job
    BY <1>1, <1>2, <1>3 DEF Stale
  <1>5. ASSUME NEW p \in Parts, NEW i \in DOMAIN orig[p].params, ~ Stale(p)'
        PROVE  LET was == orig[p].params[i].val
                   now == mem'[p].params[i].val
               IN now = was \/ (mode = "trigger" /\ was \in {"text", "expr"} /\ now = "text")
    <2> DEFINE was == orig[p].params[i].val
               old == mem[p].params[i].val
               now == mem'[p].params[i].val
    <2>1. ~ Stale(p) /\ p # job
      BY <1>4, <1>5
    <2>2. old = was \/ (mode = "trigger" /\ was \in {"text", "expr"} /\ old = "text")
      BY <2>1 DEF ParamsKept
    <2>3. i \in DOMAIN mem[p].params
      BY <1>2 DEF SameParams
    <2>4. now = IF Pointed(<<p, i>>) THEN Evaluated(old) ELSE old
      <3>1. mem'[p].params[i] = IF Pointed(<<p, i>>) THEN Resolved(mem[p].params[i])
                                ELSE mem[p].params[i]
        BY <1>2, <2>3 DEF WritesValues
      <3>2. mem[p].params \in Seq(Param)
        BY PartTyped
      <3>3. Resolved(mem[p].params[i]) = [name |-> mem[p].params[i].name, val |-> Evaluated(old)]
        BY <1>2, <2>3, <3>2, ResolvedType
      <3> QED
        BY <3>1, <3>3
    <2>5. Pointed(<<p, i>>) <=> IsSource(p, job)
      BY <1>2, <2>3, PointedAll
    <2>6. IsSource(p, job) => was \notin {"nested", "poison"}
      <3>1. ASSUME IsSource(p, job) PROVE p = Sources(job)[1] \/ p = Sources(job)[2]
        BY <2>1, <3>1, SourcesOf DEF IsSource
      <3>2. 1 \in 1 .. 2 /\ 2 \in 1 .. 2
        OBVIOUS
      <3> QED
        BY <3>1, <3>2, TameMeans
    <2>7. Pointed(<<p, i>>) /\ mode = "trigger" => old # "undefined"
      BY PointedEvaluates
    <2>8. was \in ParamValue
      <3>1. orig[p].params \in Seq(Param)
        BY PartTyped
      <3>2. orig[p].params[i] \in Param
        BY <3>1
      <3> QED
        BY <3>2 DEF Param
    <2> HIDE DEF was, old, now
    <2>9. CASE Pointed(<<p, i>>) /\ mode = "trigger"
      <3>1. was \in {"text", "expr"} /\ old \in {"text", "expr"}
        BY <2>2, <2>5, <2>6, <2>7, <2>8, <2>9 DEF ParamValue
      <3>2. now = "text"
        BY <2>4, <2>9, <3>1 DEF Evaluated, SafeValueOf
      <3> QED
        BY <2>9, <3>1, <3>2 DEF was, now
    <2>10. CASE ~ (Pointed(<<p, i>>) /\ mode = "trigger")
      <3>1. now = old
        BY <1>2, <2>4, <2>10 DEF Evaluated
      <3> QED
        BY <2>2, <3>1 DEF was, now
    <2> QED
      BY <2>9, <2>10
  <1> QED
    BY <1>1, <1>5 DEF ParamsKept

(* A step that writes no parameters keeps the invariant about them.        *)
LEMMA ParamsUnwritten ==
  ASSUME ParamsKept, UNCHANGED <<orig, mode>>, Parts' = Parts, Jobs' = Jobs,
         \A p \in Parts : mem'[p].params = mem[p].params,
         \A k \in Jobs : Before(k, job') <=> Before(k, job)
  PROVE  ParamsKept'
  <1>1. \A p : Stale(p)' <=> Stale(p)
    BY DEF Stale
  <1> QED
    BY <1>1 DEF ParamsKept

-----------------------------------------------------------------------------
(* A pipeline is begun: nothing is taken yet.                              *)
LEMMA BegunUntouched ==
  ASSUME \A q \in Parts' : Kept(q)', ParamsKept', run' = EmptyRun, step' = 1
  PROVE  Holding' /\ Untouched'
  <1>1. run'.timeouts = None /\ run'.array = None /\ run'.items = <<>>
    BY DEF EmptyRun
  <1>2. \A f : Given(f, 1) = None
    BY DEF Given
  <1>3. \A n : ValueIn(<<>>, n) = None
    <2>1. \A n : n \notin NamesIn(<<>>)
      BY EmptyNames
    <2> QED
      BY <2>1, NoValue
  <1>4. TimeoutsGiven'
    BY <1>1, <1>2 DEF TimeoutsGiven
  <1>5. ItemsGiven'
    BY <1>1, <1>2, <1>3 DEF ItemsGiven
  <1> QED
    BY <1>1, <1>4, <1>5 DEF Holding, Untouched, Clean, Gives

(* A filter keeps the invariant.                                           *)
LEMMA MatchTame ==
  ASSUME BuildInv, ProgressInv, TameInv, WellNamed, Match, mode' = mode
  PROVE  TameInv'
  <1>1. /\ mem' = mem /\ orig' = orig /\ built' = built /\ Parts' = Parts /\ pc = "filter"
        /\ pc' \in {"end", "filter", "merge"}
        /\ pc' = "end" \/ (run' = EmptyRun /\ step' = 1)
    BY DEF Match, Finish, Parts
  <1>2. BuiltRight' /\ (Tames' <=> Tames)
    BY <1>1 DEF TameInv, BuiltRight, Tames
  <1>3. CASE pc' = "end"
    BY <1>2, <1>3 DEF TameInv, Holding, Building
  <1>4. CASE pc' # "end" /\ ~ Tames
    <2>1. run'.timeouts = None /\ run'.array = None
      BY <1>1, <1>4 DEF EmptyRun
    <2> QED
      BY <1>2, <1>4, <2>1 DEF TameInv, Holding
  <1>5. CASE pc' # "end" /\ Tames
    <2>1. ParamsKept /\ \A q \in Parts : Kept(q)
      BY <1>1, <1>5 DEF TameInv, Untouched, Clean, Building
    <2>2. ParamsKept'
      <3>1. Jobs' = Jobs
        BY StepKeepsJobs DEF Build
      <3>2. \A k \in Jobs : Before(k, job') <=> Before(k, job)
        BY MatchDone
      <3> QED
        BY <1>1, <2>1, <3>1, <3>2, ParamsUnwritten
    <2>3. \A q \in Parts' : Kept(q)'
      BY <1>1, <2>1 DEF Kept
    <2>4. Holding' /\ Untouched'
      BY <1>1, <1>5, <2>2, <2>3, BegunUntouched
    <2> QED
      BY <1>2, <2>4 DEF TameInv
  <1> QED
    BY <1>3, <1>4, <1>5

(* A merge keeps it.                                                       *)
LEMMA MergeTame ==
  ASSUME BuildInv, Owned, Gathered, ProgressInv, TameInv, WellNamed, Merge, mode' = mode
  PROVE  TameInv'
  <1>1. /\ pc = "merge" /\ step \in 1 .. 3 /\ Sources(job)[step] \in Parts
        /\ MergesTo(Sources(job)[step], Merged(Sources(job)[step]))
    BY MergeDoes
  <1>2. UNCHANGED <<orig, job, built>>
    BY <1>1 DEF MergesTo
  <1>3. BuiltRight' /\ (Tames' <=> Tames)
    BY <1>2 DEF TameInv, BuiltRight, Tames
  <1>4. Holding'
    BY MergeHolds DEF TameInv
  <1>5. ASSUME Tames, pc' # "end" PROVE Untouched'
    <2>1. Clean /\ Gives /\ ParamsKept /\ Holding
      BY <1>1, <1>5 DEF TameInv, Untouched
    <2>2. Clean' /\ Gives'
      BY <1>5, <2>1, MergeGives
    <2>3. Parts' = Parts /\ Jobs' = Jobs
      BY StepKeepsJobs DEF Build
    <2>4. \A p \in Parts : mem'[p].params = mem[p].params
      BY <1>1, <1>5 DEF MergesTo, Writes
    <2>5. ParamsKept'
      BY <1>2, <2>1, <2>3, <2>4, ParamsUnwritten
    <2> QED
      BY <2>2, <2>5 DEF Untouched
  <1> QED
    BY <1>3, <1>4, <1>5 DEF TameInv

(* A reconciliation keeps it; a tame pipeline leaves the next one nothing  *)
(* that it has written.                                                    *)
LEMMA ReconcileTame ==
  ASSUME BuildInv, Gathered, ProgressInv, TameInv, WellNamed, Reconcile, mode' = mode
  PROVE  TameInv'
  <1>1. /\ pc = "reconcile" /\ step = 4 /\ job \in Parts /\ orig' = orig
        /\ IF Fails THEN pc' = "end" /\ UNCHANGED <<mem, run, built>>
           ELSE /\ WritesValues /\ run' = EmptyRun /\ step' = 1 /\ Following
                /\ built' = Append(built, Finished)
    BY ReconcileDoes
  <1>2. CASE Fails
    <2>1. BuiltRight' /\ Holding'
      BY <1>1, <1>2 DEF TameInv, BuiltRight, Holding, Building
    <2> QED
      BY <1>1, <1>2, <2>1 DEF TameInv
  <1>3. CASE ~ Fails
    <2>1. /\ WritesValues /\ run' = EmptyRun /\ step' = 1
          /\ built' = Append(built, Finished)
      BY <1>1, <1>3
    <2>2. /\ Parts' = Parts
          /\ \A q \in Parts : mem'[q].items = mem[q].items /\ mem'[q].timeouts = mem[q].timeouts
      BY <2>1 DEF WritesValues, Parts
    <2>3. built \in Seq([job : Parts, timeouts : Source \cup {None}, label : Label,
                         items : Seq(Item), params : Seq(Param)])
      BY DEF BuildInv, BuildTypeOK
    <2>4. PICK f : f = Finished
      OBVIOUS
    <2>5. f.job = job
      BY <2>4 DEF Finished
    <2>6. PICK n \in Nat : n = Len(built) /\ DOMAIN built = 1 .. n
      BY <2>3
    <2>7. /\ DOMAIN built' = 1 .. n + 1 /\ built'[n + 1] = f
          /\ \A i \in 1 .. n : built'[i] = built[i]
      BY <2>1, <2>3, <2>4, <2>6
    <2>8. Tames => RightIn(orig, mode, f) /\ \A q \in Parts : TameIn(orig, job) => Kept(q)
      <3>1. ASSUME Tames PROVE Gives /\ ParamsKept
        BY <1>1, <3>1 DEF TameInv, Untouched
      <3>2. ASSUME Gives, ParamsKept PROVE RightIn(orig, mode, f)
        <4>1. AsExpected(f)
          BY <1>1, <2>4, <3>2, FinishedAsExpected
        <4> QED
          BY <4>1, RightSame
      <3>3. ASSUME Gives, TameIn(orig, job), NEW q \in Parts PROVE Kept(q)
        BY <1>1, <3>3, TameSame DEF Gives, Building
      <3> QED
        BY <3>1, <3>2, <3>3
    <2>9. BuiltRight'
      <3>1. ASSUME NEW i \in DOMAIN built', \A k \in 1 .. i - 1 : TameIn(orig, built'[k].job)
            PROVE  RightIn(orig, mode, built'[i])
        <4>1. CASE i = n + 1
          <5>1. \A k \in 1 .. n : TameIn(orig, built[k].job)
            BY <2>6, <2>7, <3>1, <4>1
          <5> QED
            BY <2>6, <2>7, <2>8, <4>1, <5>1 DEF Tames
        <4>2. CASE i \in 1 .. n
          <5>1. \A k \in 1 .. i - 1 : k \in 1 .. n /\ TameIn(orig, built[k].job)
            BY <2>6, <2>7, <3>1, <4>2
          <5> QED
            BY <2>6, <2>7, <4>2, <5>1 DEF TameInv, BuiltRight
        <4> QED
          BY <2>6, <2>7, <4>1, <4>2
      <3> QED
        BY <1>1, <3>1 DEF BuiltRight
    <2>10. Tames' => Tames /\ TameIn(orig, job)
      <3>1. n + 1 \in DOMAIN built' /\ \A i \in DOMAIN built : i \in DOMAIN built' /\ built'[i] = built[i]
        BY <2>6, <2>7
      <3> QED
        BY <1>1, <2>5, <2>7, <3>1 DEF Tames
    <2>11. ASSUME Tames' PROVE Untouched'
      <3>1. Tames /\ TameIn(orig, job) /\ \A q \in Parts : Kept(q)
        BY <2>8, <2>10, <2>11
      <3>2. ParamsKept /\ Tame(job)
        BY <1>1, <3>1, TameSame DEF TameInv, Untouched
      <3>3. ParamsKept'
        BY <1>3, <3>2, ParamsWritten
      <3>4. \A q \in Parts' : Kept(q)'
        BY <1>1, <2>2, <3>1 DEF Kept
      <3> QED
        BY <2>1, <3>3, <3>4, BegunUntouched
    <2>12. Holding'
      <3>1. run'.timeouts = None /\ run'.array = None
        BY <2>1 DEF EmptyRun
      <3> QED
        BY <3>1 DEF Holding
    <2> QED
      BY <2>9, <2>11, <2>12 DEF TameInv
  <1> QED
    BY <1>2, <1>3

(* So does every step of a build.                                          *)
LEMMA BuildTame ==
  ASSUME BuildInv, Owned, WellNamed => Gathered, ProgressInv, TameInv, Build, mode' = mode
  PROVE  TameInv'
  <1>1. WellNamed' => WellNamed
    BY StepKeepsJobs DEF WellNamed
  <1>2. CASE ~ WellNamed
    BY <1>1, <1>2 DEF TameInv
  <1>3. CASE WellNamed
    BY <1>3, MatchTame, MergeTame, ReconcileTame DEF Build
  <1> QED
    BY <1>2, <1>3
=============================================================================
