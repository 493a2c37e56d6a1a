----------------------- MODULE KubePipelineConfigProofs -----------------------
(***************************************************************************)
(* Theorems about KubePipelineConfig, for any ConfigMaps, labels, number   *)
(* of handlers and bounds.                                                 *)
(***************************************************************************)
EXTENDS KubePipelineConfig, TLAPS

IsValid(n, v) == v \in 1 .. Len(log[n]) /\ log[n][v] = "valid"

(* The cache, and every handler that holds a version to store or to        *)
(* return, hold a well-formed version of the right ConfigMap.              *)
HoldsValid ==
  /\ \A n \in Names : cache[n] # 0 => IsValid(n, cache[n])
  /\ \A h \in Handlers :
       /\ pc[h] \notin {"idle", "answer"} => arg[h] \in Names
       /\ \/ pc[h] \in {"store", "merge"}
          \/ pc[h] = "answer" /\ code[h] = "OK"
          => arg[h] \in Names /\ IsValid(arg[h], got[h])
       /\ pc[h] = "idle" => code[h] = "OK"

(* A process that is down keeps nothing.                                   *)
DownIsEmpty ==
  proc = "down" =>
    /\ \A n \in Names : cache[n] = 0 /\ shadow[n] = 0
    /\ \A h \in Handlers : pc[h] = "idle"

(* What the watch alone has made of an entry is, once it has caught up,    *)
(* what the ConfigMap contains.                                            *)
ShadowFollows ==
  /\ Running /\ fresh => \A n \in Names : shadow[n] = 0
  /\ \A n \in Labelled : Running /\ pos[n] = Len(log[n]) =>
       /\ Latest(n) = "valid" => shadow[n] = Len(log[n])
       /\ Latest(n) = "absent" => shadow[n] = 0

(* An entry no late fetch has touched is the watch's work, or a version    *)
(* the watch still has to come to.                                         *)
EntryExplained ==
  \A n \in Labelled \ outdated :
    Running => cache[n] = shadow[n] \/ cache[n] > pos[n]

Inv == TypeOK /\ HoldsValid /\ DownIsEmpty /\ ShadowFollows /\ EntryExplained

(* A new version leaves the earlier ones as they are.                      *)
LEMMA WriteKeepsVersions ==
  ASSUME TypeOK, NEW n \in Names, NEW content \in Content, Write(n, content)
  PROVE  /\ log' \in [Names -> Seq(Content)]
         /\ \A m \in Names : \A v \in 1 .. Len(log[m]) : log'[m][v] = log[m][v]
         /\ \A m \in Names : Len(log'[m]) \in Nat /\ Len(log[m]) \in Nat
         /\ \A m \in Names : m # n => log'[m] = log[m]
         /\ Len(log'[n]) = Len(log[n]) + 1
  BY DEF TypeOK, Write

LEMMA InitInv == Init => Inv
  <1> SUFFICES ASSUME Init PROVE Inv
    OBVIOUS
  <1>1. log \in [Names -> Seq(Content)]
    <2>1. <<>> \in Seq(Content) /\ <<"valid">> \in Seq(Content)
      BY DEF Content
    <2>2. {<<>>, <<"valid">>} \subseteq Seq(Content)
      BY <2>1
    <2> QED
      BY <2>2, Zenon DEF Init
  <1>2. TypeOK
    BY <1>1 DEF Init, TypeOK, PC, Code
  <1>3. HoldsValid /\ DownIsEmpty /\ EntryExplained
    BY DEF Init, HoldsValid, DownIsEmpty, EntryExplained
  <1>4. ShadowFollows
    <2>1. \A n \in Names : pos[n] = Len(log[n]) => log[n] = <<>>
      BY DEF Init
    <2> QED
      BY <2>1, ConstantsAssumption DEF Init, ShadowFollows, Latest
  <1> QED
    BY <1>2, <1>3, <1>4 DEF Inv

LEMMA WriteInv ==
  ASSUME Inv, NEW n \in Names, NEW content \in Content, Write(n, content)
  PROVE  Inv'
  <1> USE DEF Inv
  <1>0. /\ log' \in [Names -> Seq(Content)]
        /\ \A m \in Names : \A v \in 1 .. Len(log[m]) : log'[m][v] = log[m][v]
        /\ \A m \in Names : Len(log'[m]) \in Nat /\ Len(log[m]) \in Nat
        /\ \A m \in Names : m # n => log'[m] = log[m]
        /\ Len(log'[n]) = Len(log[n]) + 1
    BY WriteKeepsVersions
  <1>1. \A m \in Names : Len(log[m]) <= Len(log'[m])
    BY <1>0
  <1>2. UNCHANGED <<pos, fresh, cache, proc, boots, handlers, history>>
    BY DEF Write
  <1>3. TypeOK'
    <2>1. \A m \in Names : pos[m] <= Len(log'[m]) /\ cache[m] <= Len(log'[m])
      BY <1>0, <1>1 DEF TypeOK
    <2>2. \A h \in Handlers : pc[h] = "store" => got[h] \in 1 .. Len(log'[arg[h]])
      BY <1>0, <1>1 DEF TypeOK, HoldsValid, IsValid
    <2> QED
      BY <1>0, <1>2, <2>1, <2>2 DEF TypeOK, handlers, history
  <1>4. \A m \in Names, v \in Nat : IsValid(m, v) => IsValid(m, v)'
    BY <1>0, <1>1 DEF IsValid
  <1>5. HoldsValid'
    BY <1>2, <1>4 DEF HoldsValid, TypeOK, handlers
  <1>6. DownIsEmpty' /\ EntryExplained'
    BY <1>2 DEF DownIsEmpty, EntryExplained, Running, handlers, history
  <1>7. ShadowFollows'
    <2>1. pos'[n] # Len(log'[n])
      BY <1>0, <1>2 DEF TypeOK
    <2>2. \A m \in Names : m # n => Latest(m)' = Latest(m)
      BY <1>0 DEF Latest
    <2> QED
      BY <1>0, <1>2, <2>1, <2>2, ConstantsAssumption
         DEF ShadowFollows, Running, history
  <1> QED
    BY <1>3, <1>5, <1>6, <1>7

LEMMA WatchEventInv ==
  ASSUME Inv, NEW n \in Names, WatchEvent(n)
  PROVE  Inv'
  <1> USE DEF Inv
  <1> DEFINE v == pos[n] + 1
  <1>1. /\ n \in Labelled /\ Running /\ proc # "down"
        /\ v \in 1 .. Len(log[n])
        /\ UNCHANGED <<log, proc, boots, pc, arg, got, code>>
        /\ pos' = [pos EXCEPT ![n] = v] /\ fresh' = FALSE
        /\ cache' = [cache EXCEPT ![n] = Applied(n)]
    BY DEF WatchEvent, TypeOK, Running, handlers
  <1>2. log[n][v] \in Content
    BY <1>1 DEF TypeOK
  <1>3. /\ log[n][v] = "valid" => Applied(n) = v
        /\ log[n][v] = "invalid" => Applied(n) = cache[n]
        /\ log[n][v] = "absent" => Applied(n) = 0
    BY DEF Applied
  <1>4. /\ log[n][v] = "invalid" => shadow' = shadow /\ outdated' = outdated
        /\ log[n][v] # "invalid" =>
             /\ outdated' = outdated \ {n}
             /\ shadow' = [shadow EXCEPT ![n] =
                             IF log[n][v] = "valid" THEN v ELSE 0]
    BY DEF WatchEvent, history
  <1>5. Applied(n) \in Nat /\ Applied(n) <= Len(log[n])
    BY <1>1, <1>2, <1>3 DEF Content, TypeOK
  <1>6. shadow' \in [Names -> Nat] /\ outdated' \subseteq Names
    <2>1. (IF log[n][v] = "valid" THEN v ELSE 0) \in Nat
      BY <1>1 DEF TypeOK
    <2>2. CASE log[n][v] = "invalid"
      BY <1>4, <2>2 DEF TypeOK
    <2>3. CASE log[n][v] # "invalid"
      BY <1>4, <2>1, <2>3 DEF TypeOK
    <2> QED
      BY <2>2, <2>3
  <1> HIDE DEF v
  <1>7. TypeOK'
    <2>1. v \in Nat /\ v <= Len(log[n])
      BY <1>1 DEF TypeOK
    <2>2. pos' \in [Names -> Nat] /\ \A m \in Names : pos'[m] <= Len(log'[m])
      BY <1>1, <2>1 DEF TypeOK
    <2>3. cache' \in [Names -> Nat] /\ \A m \in Names : cache'[m] <= Len(log'[m])
      BY <1>1, <1>5 DEF TypeOK
    <2> QED
      BY <1>1, <1>6, <2>2, <2>3 DEF TypeOK
  <1>8. HoldsValid'
    <2>1. Applied(n) # 0 => IsValid(n, Applied(n))
      BY <1>1, <1>2, <1>3 DEF Content, HoldsValid, IsValid
    <2>2. ASSUME NEW m \in Names, cache'[m] # 0 PROVE IsValid(m, cache'[m])
      <3>1. CASE m = n
        BY <1>1, <2>1, <2>2, <3>1 DEF TypeOK
      <3>2. CASE m # n
        BY <1>1, <2>2, <3>2 DEF HoldsValid, TypeOK
      <3> QED
        BY <3>1, <3>2
    <2>3. \A m, w : IsValid(m, w)' <=> IsValid(m, w)
      BY <1>1 DEF IsValid
    <2>4. \A m \in Names : (cache[m] # 0 => IsValid(m, cache[m]))'
      BY <1>1, <2>2 DEF IsValid
    <2> QED
      BY <1>1, <2>4 DEF HoldsValid, IsValid
  <1>9. DownIsEmpty'
    BY <1>1 DEF DownIsEmpty
  <1>10. ShadowFollows'
    <2>1. \A m \in Names : Latest(m)' = Latest(m)
      BY <1>1 DEF Latest
    <2>2. Latest(n) = log[n][Len(log[n])]
      BY <1>1 DEF Latest, TypeOK
    <2>3. v = Len(log[n]) =>
            /\ Latest(n) = "valid" => shadow'[n] = Len(log[n])
            /\ Latest(n) = "absent" => shadow'[n] = 0
      BY <1>1, <1>4, <2>2 DEF TypeOK
    <2>4. \A m \in Names : m # n => shadow'[m] = shadow[m] /\ pos'[m] = pos[m]
      BY <1>1, <1>4 DEF TypeOK
    <2>5. pos'[n] = v
      BY <1>1 DEF TypeOK
    <2> QED
      BY <1>1, <2>1, <2>3, <2>4, <2>5, ConstantsAssumption
         DEF ShadowFollows, Running
  <1>11. EntryExplained'
    <2>1. ASSUME NEW m \in Labelled \ outdated', m # n
          PROVE  cache'[m] = shadow'[m] \/ cache'[m] > pos'[m]
      BY <1>1, <1>4, <2>1, ConstantsAssumption DEF EntryExplained, TypeOK
    <2>2. ASSUME n \notin outdated'
          PROVE  cache'[n] = shadow'[n] \/ cache'[n] > pos'[n]
      <3>1. cache'[n] = Applied(n) /\ pos'[n] = v
        BY <1>1 DEF TypeOK
      <3>2. CASE log[n][v] = "invalid"
        <4>1. cache[n] = shadow[n] \/ cache[n] > pos[n]
          BY <1>1, <1>4, <2>2, <3>2 DEF EntryExplained
        <4>2. cache[n] # v
          BY <1>1, <3>2 DEF HoldsValid, IsValid, TypeOK
        <4> QED
          BY <1>3, <1>4, <3>1, <3>2, <4>1, <4>2 DEF TypeOK, v
      <3>3. CASE log[n][v] # "invalid"
        BY <1>2, <1>3, <1>4, <3>1, <3>3 DEF Content, TypeOK
      <3> QED
        BY <3>2, <3>3
    <2> QED
      BY <1>1, <2>1, <2>2 DEF EntryExplained
  <1> QED
    BY <1>7, <1>8, <1>9, <1>10, <1>11

(* Where a watch starts: before the version there is, or past the end.     *)
LEMMA StartPosType ==
  ASSUME TypeOK, NEW n \in Names
  PROVE  /\ StartPos(n) \in Nat /\ StartPos(n) <= Len(log[n])
         /\ StartPos(n) = Len(log[n]) => Latest(n) = "absent"
  BY DEF TypeOK, StartPos, Latest

LEMMA ReconnectInv ==
  ASSUME Inv, Reconnect
  PROVE  Inv'
  <1> USE DEF Inv
  <1>1. /\ Running /\ fresh /\ pos' = [n \in Names |-> StartPos(n)]
        /\ outdated' = outdated \cup
             {n \in Labelled : cache[n] # shadow[n] /\ cache[n] <= StartPos(n)}
        /\ UNCHANGED <<log, fresh, cache, proc, boots, pc, arg, got, code, shadow>>
    BY DEF Reconnect, handlers
  <1>2. TypeOK'
    BY <1>1, StartPosType, ConstantsAssumption DEF TypeOK
  <1>3. HoldsValid' /\ DownIsEmpty'
    BY <1>1 DEF HoldsValid, IsValid, DownIsEmpty
  <1>4. ShadowFollows'
    <2>1. \A n \in Names : shadow[n] = 0
      BY <1>1 DEF ShadowFollows
    <2>2. \A n \in Names : Latest(n)' = Latest(n)
      BY <1>1 DEF Latest
    <2>3. \A n \in Names : pos'[n] = Len(log[n]) => Latest(n) = "absent"
      BY <1>1, StartPosType
    <2> QED
      BY <1>1, <2>1, <2>2, <2>3, ConstantsAssumption DEF ShadowFollows
  <1>5. EntryExplained'
    BY <1>1, StartPosType, ConstantsAssumption DEF EntryExplained, TypeOK
  <1> QED
    BY <1>2, <1>3, <1>4, <1>5

LEMMA ProcessInv ==
  ASSUME Inv, WatchGone \/ Close \/ WatchClosed \/ Boot
  PROVE  Inv'
  <1> USE DEF Inv
  <1>1. CASE Exit
    <2>1. TypeOK'
      BY <1>1 DEF Exit, TypeOK, PC, Code
    <2>2. HoldsValid'
      BY <1>1 DEF Exit, HoldsValid
    <2> QED
      BY <1>1, <2>1, <2>2
         DEF Exit, DownIsEmpty, ShadowFollows, EntryExplained, Running
  <1>2. CASE Close
    <2>1. HoldsValid'
      BY <1>2 DEF Close, HoldsValid, IsValid, handlers
    <2>2. TypeOK'
      BY <1>2 DEF Close, TypeOK, handlers, history
    <2>3. ShadowFollows' /\ EntryExplained' /\ DownIsEmpty'
      BY <1>2 DEF Close, ShadowFollows, EntryExplained, DownIsEmpty, Running,
         Latest, history
    <2> QED
      BY <2>1, <2>2, <2>3
  <1>3. CASE Boot
    <2>1. /\ proc = "down" /\ proc' = "up"
          /\ pos' = [n \in Names |-> StartPos(n)] /\ fresh' = TRUE
          /\ boots' \in Nat
          /\ UNCHANGED <<log, cache, pc, arg, got, code, shadow, outdated>>
      BY <1>3 DEF Boot, handlers, history, TypeOK
    <2>2. TypeOK'
      BY <2>1, StartPosType DEF TypeOK
    <2>3. HoldsValid' /\ DownIsEmpty'
      BY <2>1 DEF HoldsValid, IsValid, DownIsEmpty
    <2>4. \A n \in Names : shadow'[n] = 0 /\ cache'[n] = 0
      BY <2>1 DEF DownIsEmpty
    <2>5. \A n \in Names : Latest(n)' = Latest(n)
      BY <2>1 DEF Latest
    <2>6. \A n \in Names : pos'[n] = Len(log[n]) => Latest(n) = "absent"
      BY <2>1, StartPosType
    <2>7. ShadowFollows' /\ EntryExplained'
      BY <2>1, <2>4, <2>5, <2>6, ConstantsAssumption
         DEF ShadowFollows, EntryExplained
    <2> QED
      BY <2>2, <2>3, <2>7
  <1> QED
    BY <1>1, <1>2, <1>3 DEF WatchGone, WatchClosed

(* A handler's step that leaves the cache alone leaves the books alone.    *)
LEMMA HandlerFrame ==
  ASSUME Inv, UNCHANGED <<log, pos, fresh, cache, proc, boots, history>>
  PROVE  ShadowFollows' /\ EntryExplained'
  BY DEF Inv, ShadowFollows, EntryExplained, Running, Latest, history

LEMMA ReceiveInv ==
  ASSUME Inv, NEW h \in Handlers, Receive(h) \/ ReceiveBad(h)
  PROVE  Inv'
  <1> USE DEF Inv
  <1>1. UNCHANGED <<log, pos, fresh, cache, proc, boots, got, history>>
    BY DEF Receive, ReceiveBad
  <1>2. TypeOK'
    BY <1>1 DEF TypeOK, Receive, ReceiveBad, Goto, PC, Code, history
  <1>3. HoldsValid'
    BY <1>1 DEF TypeOK, HoldsValid, IsValid, Receive, ReceiveBad, Goto
  <1>4. DownIsEmpty'
    BY <1>1 DEF DownIsEmpty, Receive, ReceiveBad
  <1> QED
    BY <1>1, <1>2, <1>3, <1>4, HandlerFrame

LEMMA HandlerStepInv ==
  ASSUME Inv, NEW h \in Handlers, HandlerStep(h)
  PROVE  Inv'
  <1> USE DEF Inv
  <1>0. proc # "down"
    BY DEF HandlerStep, Load, Fetch, Store, Merge, Answer, DownIsEmpty
  <1>1. CASE Load(h)
    <2>1. /\ UNCHANGED <<log, pos, fresh, cache, proc, boots, arg, code, history>>
          /\ arg[h] \in Names
      BY <1>1 DEF Load, HoldsValid
    <2>2. CASE cache[arg[h]] # 0
      <3>1. /\ got' = [got EXCEPT ![h] = cache[arg[h]]]
            /\ pc' = [pc EXCEPT ![h] = "merge"]
            /\ IsValid(arg[h], cache[arg[h]])
        BY <1>1, <2>1, <2>2 DEF Load, Goto, HoldsValid
      <3>2. TypeOK'
        BY <2>1, <3>1 DEF TypeOK, PC, history
      <3>3. HoldsValid' /\ DownIsEmpty'
        BY <1>0, <2>1, <3>1 DEF TypeOK, HoldsValid, IsValid, DownIsEmpty
      <3> QED
        BY <2>1, <3>2, <3>3, HandlerFrame
    <2>3. CASE cache[arg[h]] = 0
      <3>1. /\ got' = got
            /\ \E l \in {"reload", "fetch"} : pc' = [pc EXCEPT ![h] = l]
        BY <1>1, <2>3 DEF Load, Goto
      <3>2. TypeOK'
        BY <2>1, <3>1 DEF TypeOK, PC, history
      <3>3. HoldsValid' /\ DownIsEmpty'
        BY <1>0, <2>1, <3>1 DEF TypeOK, HoldsValid, IsValid, DownIsEmpty
      <3> QED
        BY <2>1, <3>2, <3>3, HandlerFrame
    <2> QED
      BY <2>2, <2>3
  <1>2. CASE Fetch(h)
    <2>1. /\ UNCHANGED <<log, pos, fresh, cache, proc, boots, arg, history>>
          /\ arg[h] \in Names
      BY <1>2 DEF Fetch, HoldsValid
    <2>2. CASE /\ Latest(arg[h]) = "valid"
               /\ got' = [got EXCEPT ![h] = Len(log[arg[h]])]
               /\ Goto(h, "store") /\ code' = code
      <3>1. IsValid(arg[h], Len(log[arg[h]]))
        BY <2>1, <2>2 DEF Latest, IsValid, TypeOK
      <3>2. Len(log[arg[h]]) \in Nat
        BY <2>1 DEF TypeOK
      <3>3. TypeOK'
        BY <2>1, <2>2, <3>1, <3>2 DEF Goto, TypeOK, IsValid, PC, history
      <3>4. HoldsValid' /\ DownIsEmpty'
        BY <1>0, <2>1, <2>2, <3>1
           DEF Goto, TypeOK, HoldsValid, IsValid, DownIsEmpty
      <3> QED
        BY <2>1, <3>3, <3>4, HandlerFrame
    <2>3. CASE /\ code' = [code EXCEPT ![h] = "Internal"]
               /\ Goto(h, "answer") /\ got' = got
      <3>1. TypeOK'
        BY <2>1, <2>3 DEF Goto, TypeOK, PC, Code, history
      <3>2. HoldsValid' /\ DownIsEmpty'
        BY <1>0, <2>1, <2>3 DEF Goto, TypeOK, HoldsValid, IsValid, DownIsEmpty
      <3> QED
        BY <2>1, <3>1, <3>2, HandlerFrame
    <2> QED
      BY <1>2, <2>2, <2>3 DEF Fetch
  <1>3. CASE Store(h)
    <2> DEFINE n == arg[h]
    <2>1. /\ UNCHANGED <<log, pos, fresh, proc, boots, arg, got, shadow>>
          /\ n \in Names /\ IsValid(n, got[h]) /\ got[h] \in Nat
          /\ cache' = [cache EXCEPT ![n] = got[h]]
          /\ code' = [code EXCEPT ![h] = "Panic"]
          /\ pc' = [pc EXCEPT ![h] = "answer"]
      BY <1>3 DEF Store, HoldsValid, TypeOK, Goto
    <2>2. outdated' = IF n \in Labelled /\ got[h] <= pos[n] /\ got[h] # shadow[n]
                        THEN outdated \cup {n} ELSE outdated \ {n}
      BY <1>3 DEF Store
    <2> HIDE DEF n
    <2>3. TypeOK'
      BY <2>1, <2>2 DEF TypeOK, IsValid, PC, Code
    <2>4. HoldsValid'
      <3>1. \A m \in Names : cache'[m] # 0 => IsValid(m, cache'[m])
        BY <2>1 DEF HoldsValid, TypeOK
      <3>2. \A m \in Names : (cache[m] # 0 => IsValid(m, cache[m]))'
        BY <2>1, <3>1 DEF IsValid
      <3> QED
        BY <2>1, <3>2 DEF HoldsValid, IsValid, TypeOK
    <2>5. ShadowFollows'
      BY <2>1 DEF ShadowFollows, Running, Latest
    <2>6. EntryExplained'
      <3>1. ASSUME NEW m \in Labelled \ outdated', m # n, Running
            PROVE  cache'[m] = shadow'[m] \/ cache'[m] > pos'[m]
        BY <2>1, <2>2, <3>1, ConstantsAssumption DEF EntryExplained, TypeOK
      <3>2. ASSUME n \in Labelled \ outdated'
            PROVE  cache'[n] = shadow'[n] \/ cache'[n] > pos'[n]
        BY <2>1, <2>2, <3>2 DEF TypeOK
      <3> QED
        BY <2>1, <3>1, <3>2 DEF EntryExplained, Running
    <2> QED
      BY <1>0, <2>1, <2>3, <2>4, <2>5, <2>6 DEF DownIsEmpty
  <1>4. CASE Merge(h)
    <2>1. /\ UNCHANGED <<log, pos, fresh, cache, proc, boots, arg, got, history>>
          /\ pc[h] = "merge" /\ pc' = [pc EXCEPT ![h] = "answer"]
          /\ \E c \in {"OK", "Internal", "MergePanic"} : code' = [code EXCEPT ![h] = c]
      BY <1>4 DEF Merge, Goto
    <2>2. TypeOK'
      BY <2>1 DEF TypeOK, PC, Code, history
    <2>3. HoldsValid' /\ DownIsEmpty'
      BY <1>0, <2>1 DEF TypeOK, HoldsValid, IsValid, DownIsEmpty
    <2> QED
      BY <2>1, <2>2, <2>3, HandlerFrame
  <1>5. CASE Answer(h)
    <2>1. /\ UNCHANGED <<log, pos, fresh, cache, proc, boots, history>>
          /\ pc' = [pc EXCEPT ![h] = "idle"]
          /\ arg' = [arg EXCEPT ![h] = None]
          /\ got' = [got EXCEPT ![h] = 0]
          /\ code' = [code EXCEPT ![h] = "OK"]
      BY <1>5 DEF Answer, Goto
    <2>2. TypeOK'
      BY <2>1 DEF TypeOK, PC, Code, history
    <2>3. HoldsValid' /\ DownIsEmpty'
      BY <1>0, <2>1 DEF TypeOK, HoldsValid, IsValid, DownIsEmpty
    <2> QED
      BY <2>1, <2>2, <2>3, HandlerFrame
  <1> QED
    BY <1>1, <1>2, <1>3, <1>4, <1>5 DEF HandlerStep

LEMMA InvAlways == Spec => []Inv
  <1>1. Inv /\ [Next]_vars => Inv'
    <2> SUFFICES ASSUME Inv, [Next]_vars PROVE Inv'
      OBVIOUS
    <2>1. CASE UNCHANGED vars
      <3>1. UNCHANGED <<log, pos, fresh, cache, proc, boots, pc, arg, got, code,
                        shadow, outdated, history>>
        BY <2>1 DEF vars, handlers, history
      <3>2. TypeOK'
        BY <3>1 DEF Inv, TypeOK
      <3>3. HoldsValid' /\ DownIsEmpty'
        BY <3>1 DEF Inv, HoldsValid, IsValid, DownIsEmpty
      <3> QED
        BY <3>1, <3>2, <3>3, HandlerFrame DEF Inv
    <2>2. CASE Next
      BY <2>2, WriteInv, WatchEventInv, ReconnectInv, ProcessInv, ReceiveInv,
         HandlerStepInv DEF Next
    <2> QED
      BY <2>1, <2>2
  <1> QED
    BY <1>1, InitInv, PTL DEF Spec

(* Type correctness, with every version in the cache one that exists.      *)
THEOREM TypeCorrect == Spec => []TypeOK
  <1>1. Inv => TypeOK
    BY DEF Inv
  <1> QED
    BY <1>1, InvAlways, PTL

(* No answer and no cache entry holds what was never the ConfigMap's       *)
(* well-formed content.                                                    *)
THEOREM ReturnsContent == Spec => []ReturnedWasContent
  <1>1. Inv => ReturnedWasContent
    BY DEF Inv, HoldsValid, IsValid, ReturnedWasContent
  <1> QED
    BY <1>1, InvAlways, PTL

(* A late fetch (or a deletion lost with the first connection) is the only *)
(* way for an entry to stay stale once the watch has caught up.            *)
THEOREM StaleOnlyLate == Spec => []StaleOnlyByLateFetch
  <1>1. Inv => StaleOnlyByLateFetch
    <2> SUFFICES ASSUME Inv, NEW n \in Labelled \ outdated, Running,
                        pos[n] = Len(log[n])
                 PROVE  Current(n)
      BY DEF StaleOnlyByLateFetch
    <2>1. n \in Names
      BY ConstantsAssumption
    <2>2. cache[n] = shadow[n]
      BY <2>1 DEF Inv, EntryExplained, TypeOK
    <2> QED
      BY <2>2 DEF Inv, ShadowFollows, Current
  <1> QED
    BY <1>1, InvAlways, PTL
=============================================================================
