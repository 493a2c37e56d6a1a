---------------------- MODULE CloudEventSyncSerialProofs ----------------------
(***************************************************************************)
(* Theorems about CloudEventSync when the sender waits for the answer to   *)
(* each event of a TaskRun before it sends the next, for any TaskRuns,     *)
(* Handlers and bounds.                                                    *)
(***************************************************************************)
EXTENDS CloudEventSyncProofs

(* Messages are those that were sent, each with its number.                *)
Sent(m) == m.n \in 1 .. Len(emitted[m.tr]) /\ emitted[m.tr][m.n] = m
Newest(m) == \A k \in received : k.tr = m.tr => k.n <= m.n

(* One handler at a time serves a TaskRun, and no message comes that is    *)
(* older than one it has served.                                           *)
OneByOne ==
  /\ \A t \in TaskRuns : \A i \in 1 .. Len(emitted[t]) :
       emitted[t][i].tr = t /\ emitted[t][i].n = i
  /\ \A m \in inflight \cup received : Sent(m)
  /\ acked \subseteq received
  /\ \A m \in inflight : Newest(m)
  /\ \A h \in Handlers : req[h] # None => req[h] \in received /\ Newest(req[h])
  /\ \A g, h \in Handlers :
       req[g] # None /\ req[h] # None /\ req[g].tr = req[h].tr => g = h

LEMMA EmitOneByOne ==
  ASSUME TypeInv, OneByOne, NEW t \in TaskRuns, Emit(t)
  PROVE  OneByOne'
  <1> DEFINE M(type, reason) == [tr |-> t, n |-> Len(emitted[t]) + 1,
                                 type |-> type, reason |-> reason]
             Sends(m) == /\ emitted' = [emitted EXCEPT ![t] = Append(@, m)]
                         /\ inflight' = inflight \cup {m}
  <1>0. PICK type \in NextTypes(t) :
          \E reason \in Reasons \cup {None} : Sends(M(type, reason))
    BY DEF Emit
  <1>1. PICK reason \in Reasons \cup {None} : Sends(M(type, reason))
    BY <1>0
  <1>2. PICK m : m = M(type, reason)
    OBVIOUS
  <1>3. Sends(m) /\ m.tr = t /\ m.n = Len(emitted[t]) + 1
    BY <1>1, <1>2
  <1>4. m \in Message
    <2>1. Len(emitted[t]) + 1 \in 1 .. MaxEvents
      BY ConstantsAssumption DEF Emit, TypeInv, TypeOK
    <2>2. type \in EventType
      BY DEF NextTypes, EventType, Terminal, LastType
    <2> QED
      BY <1>2, <2>1, <2>2 DEF Message
  <1> HIDE DEF M
  <1>5. emitted[t] \in Seq(Message) /\ emitted'[t] = Append(emitted[t], m)
    BY <1>3 DEF TypeInv, TypeOK
  <1>6. \A u \in TaskRuns \ {t} : emitted'[u] = emitted[u]
    BY <1>3 DEF TypeInv, TypeOK
  <1>7. /\ Len(emitted'[t]) = Len(emitted[t]) + 1
        /\ emitted'[t][Len(emitted[t]) + 1] = m
        /\ \A i \in 1 .. Len(emitted[t]) : emitted'[t][i] = emitted[t][i]
        /\ Len(emitted[t]) \in Nat
    BY <1>4, <1>5
  <1>8. \A u \in TaskRuns : \A i \in 1 .. Len(emitted'[u]) :
          emitted'[u][i].tr = u /\ emitted'[u][i].n = i
    BY <1>3, <1>6, <1>7 DEF OneByOne
  <1>9. UNCHANGED <<received, acked, req>>
    BY DEF Emit, process, history
  <1>10. ASSUME NEW k \in inflight \cup received PROVE Sent(k)'
    <2>1. Sent(k) /\ k.tr \in TaskRuns
      BY DEF OneByOne, TypeInv, TypeOK, Message
    <2> QED
      BY <1>6, <1>7, <2>1 DEF Sent
  <1>11. Sent(m)'
    BY <1>3, <1>7 DEF Sent
  <1>12. \A k \in received : k.tr = t => k.n <= m.n
    <2>1. \A k \in received : Sent(k) /\ k.n \in Nat
      BY DEF OneByOne, TypeInv, TypeOK, Message
    <2> QED
      BY <1>3, <1>7, <2>1 DEF Sent
  <1>13. \A k \in inflight' : Newest(k)'
    BY <1>3, <1>9, <1>12 DEF OneByOne, Newest
  <1> QED
    BY <1>3, <1>8, <1>9, <1>10, <1>11, <1>13 DEF OneByOne, Newest

LEMMA ReceiveOneByOne ==
  ASSUME Delivery = "serial", TypeInv, OneByOne, NEW h \in Handlers, Receive(h)
  PROVE  OneByOne'
  <1>1. PICK m \in inflight : /\ Deliverable(m)
                              /\ req' = [req EXCEPT ![h] = m]
                              /\ inflight' = inflight \ {m}
                              /\ received' = received \cup {m}
    BY DEF Receive
  <1>2. /\ \A k \in inflight : k.tr = m.tr => m.n <= k.n
        /\ \A g \in Handlers : req[g] # None => req[g].tr # m.tr
    BY <1>1 DEF Deliverable
  <1>3. m \in Message /\ m.n \in Nat /\ Newest(m)
    BY DEF TypeInv, TypeOK, Message, OneByOne
  <1>4. UNCHANGED <<emitted, acked>>
    BY DEF Receive, history
  <1>5. \A k \in inflight' : Newest(k)'
    BY <1>1, <1>2 DEF OneByOne, Newest
  <1>6. Newest(m)'
    BY <1>1, <1>3 DEF Newest
  <1>7. req'[h] = m /\ \A g \in Handlers \ {h} : req'[g] = req[g]
    BY <1>1 DEF TypeInv, TypeOK
  <1>8. ASSUME NEW g \in Handlers, req'[g] # None
        PROVE  req'[g] \in received' /\ Newest(req[g])'
    BY <1>1, <1>2, <1>6, <1>7, <1>8 DEF OneByOne, Newest
  <1>9. \A f, g \in Handlers :
          req'[f] # None /\ req'[g] # None /\ req'[f].tr = req'[g].tr => f = g
    BY <1>2, <1>7 DEF OneByOne
  <1>10. \A k \in inflight' \cup received' : Sent(k)'
    BY <1>1, <1>4 DEF OneByOne, Sent
  <1> QED
    BY <1>1, <1>4, <1>5, <1>8, <1>9, <1>10 DEF OneByOne

LEMMA OneByOneStep ==
  ASSUME Delivery = "serial", TypeInv, OneByOne, [Next]_vars
  PROVE  OneByOne'
  <1>1. ASSUME UNCHANGED <<emitted, inflight, received>>, acked' \subseteq received,
               \A g \in Handlers : req'[g] \in {req[g], None}
        PROVE  OneByOne'
    BY <1>1 DEF OneByOne, Sent, Newest
  <1>2. ASSUME NEW m \in received, Redeliver(m) PROVE OneByOne'
    BY <1>2 DEF Redeliver, OneByOne, Sent, Newest, process, history
  <1>3. ASSUME NEW h \in Handlers, HandlerStep(h) PROVE OneByOne'
    <2>1. CASE Answer(h)
      <3>1. acked' \subseteq received
        BY <2>1 DEF Answer, OneByOne
      <3>2. \A g \in Handlers : req'[g] \in {req[g], None}
        BY <2>1 DEF Answer, TypeInv, TypeOK
      <3> QED
        BY <1>1, <2>1, <3>1, <3>2 DEF Answer, sender
    <2>2. CASE ~ Answer(h)
      <3>1. UNCHANGED <<emitted, inflight, received, acked, req>>
        BY <1>3, <2>2 DEF HandlerStep, Lookup, Store, CountRead, CountWrite,
           Sync, CreateCheckRun, CallSucceeds, CallFails, sender, history
      <3> QED
        BY <1>1, <3>1 DEF OneByOne
    <2> QED
      BY <2>1, <2>2
  <1>4. ASSUME NEW h \in Handlers, ReceiveOther(h) PROVE OneByOne'
    BY <1>1, <1>4 DEF ReceiveOther, sender, history, OneByOne, TypeInv, TypeOK
  <1>5. CASE Crash \/ MapRace
    BY <1>1, <1>5 DEF Crash, MapRace, Restart, sender, OneByOne
  <1>6. CASE UNCHANGED vars
    BY <1>1, <1>6 DEF vars, sender, process, history, OneByOne
  <1> QED
    BY <1>2, <1>3, <1>4, <1>5, <1>6, EmitOneByOne, ReceiveOneByOne DEF Next

-----------------------------------------------------------------------------
OnBoard(t, type) == board[t] # None /\ board[t].msg.type = type
Shown(t, type) == <<t, type>> \in dropped \/ OnBoard(t, type)
Clean == dropped = {} /\ faults["crashes"] = 0
Working(t) == \E h \in Handlers : pc[h] \in {"sync", "post"} /\ req[h].tr = t

(* A handler that skips, or is through, does so for a status that is shown;*)
(* one that is about to post has recorded it and posts something new.      *)
HandlerOK(h) ==
  /\ \/ pc[h] \in {"count", "counted", "posted"}
     \/ pc[h] = "answer" /\ code[h] = "OK" /\ req[h] # None
     => Shown(req[h].tr, req[h].type)
  /\ pc[h] \in {"sync", "post"} => trss[req[h].tr] = req[h].type
  /\ Clean /\ pc[h] \in {"store", "sync", "post"} => ~ OnBoard(req[h].tr, req[h].type)

(* Unless a handler is working on a TaskRun the store and GitHub agree.    *)
EntryOK(t) ==
  /\ trss[t] # None => Shown(t, trss[t]) \/ Working(t)
  /\ Clean /\ board[t] # None => OnBoard(t, trss[t]) \/ Working(t)
  /\ emitted[t] # <<>> =>
       LET m == emitted[t][Len(emitted[t])]
       IN m \in acked => Shown(t, m.type)

Agree ==
  /\ \A h \in Handlers : HandlerOK(h)
  /\ \A t \in TaskRuns : EntryOK(t)

(* The last message of a TaskRun is the one being served, once it is       *)
(* answered: nothing newer was sent, and nothing older comes.              *)
LEMMA AnsweredIsLast ==
  ASSUME TypeInv, OneByOne, NEW h \in Handlers, req[h] # None,
         NEW t \in TaskRuns, emitted[t] # <<>>,
         emitted[t][Len(emitted[t])] \in acked, req[h].tr = t
  PROVE  req[h] = emitted[t][Len(emitted[t])]
  <1>1. emitted[t] \in Seq(Message) /\ Len(emitted[t]) \in Nat
    BY DEF TypeInv, TypeOK
  <1>2. Len(emitted[t]) \in 1 .. Len(emitted[t])
    <2>1. Len(emitted[t]) # 0
      BY <1>1
    <2> QED
      BY <1>1, <2>1
  <1>3. PICK m : m = emitted[t][Len(emitted[t])]
    OBVIOUS
  <1>4. m.tr = t /\ m.n = Len(emitted[t]) /\ m \in received
    BY <1>2, <1>3 DEF OneByOne
  <1>5. /\ Sent(req[h]) /\ m.n <= req[h].n
        /\ req[h].n \in Nat
    <2>1. req[h] \in received /\ Newest(req[h])
      BY DEF OneByOne
    <2>2. m.n <= req[h].n
      BY <1>4, <2>1 DEF Newest
    <2>3. Sent(req[h])
      BY <2>1 DEF OneByOne
    <2>4. req[h].n \in Nat
      BY <2>1, ConstantsAssumption DEF TypeInv, TypeOK, Message
    <2> QED
      BY <2>2, <2>3, <2>4
  <1>6. req[h].n = m.n
    BY <1>1, <1>4, <1>5 DEF Sent
  <1> QED
    BY <1>3, <1>4, <1>5, <1>6 DEF Sent

(* Who serves another TaskRun is not disturbed, nor is its entry.          *)
LEMMA OthersAgree ==
  ASSUME TypeInv, OneByOne, Agree, NEW h \in Handlers, req[h] # None,
         HandlerStep(h)
  PROVE  /\ \A g \in Handlers \ {h} : HandlerOK(g)'
         /\ \A t \in TaskRuns \ {req[h].tr} : EntryOK(t)'
         /\ Clean' => Clean
         /\ dropped \subseteq dropped'
  <1>1. /\ emitted' = emitted
        /\ dropped \subseteq dropped'
        /\ dropped' \subseteq dropped \cup {Entry(h)}
        /\ acked' \subseteq acked \cup {req[h]}
        /\ \A t \in TaskRuns \ {req[h].tr} : trss'[t] = trss[t] /\ board'[t] = board[t]
    BY DEF HandlerStep, Lookup, Store, CountRead, CountWrite, Sync,
       CreateCheckRun, CallSucceeds, CallFails, Answer, sender, history,
       TypeInv, TypeOK
  <1>2. \A g \in Handlers \ {h} :
          pc'[g] = pc[g] /\ req'[g] = req[g] /\ code'[g] = code[g]
    BY DEF HandlerStep, Lookup, Store, CountRead, CountWrite, Sync,
       CreateCheckRun, CallSucceeds, CallFails, Answer, Goto, TypeInv, TypeOK
  <1>3. Clean' => Clean
    <2>1. faults'["crashes"] = faults["crashes"]
      BY DEF HandlerStep, Lookup, Store, CountRead, CountWrite, Sync,
         CreateCheckRun, CallSucceeds, CallFails, Answer, TypeInv, TypeOK, Fault
    <2> QED
      BY <1>1, <2>1 DEF Clean
  <1>4. ASSUME NEW g \in Handlers \ {h} PROVE HandlerOK(g)'
    <2>1. CASE req[g] = None
      <3>1. pc[g] \in {"idle", "answer"}
        BY <2>1, NoneAssumption DEF TypeInv, ServesMessage
      <3> QED
        BY <1>2, <2>1, <3>1 DEF HandlerOK
    <2>2. CASE req[g] # None
      <3>1. req[g].tr # req[h].tr /\ req[g].tr \in TaskRuns
        BY <2>2 DEF OneByOne, TypeInv, TypeOK, Message
      <3>2. /\ board'[req[g].tr] = board[req[g].tr]
            /\ trss'[req[g].tr] = trss[req[g].tr]
        BY <1>1, <3>1
      <3>3. HandlerOK(g)
        BY DEF Agree
      <3> QED
        BY <1>1, <1>2, <1>3, <3>2, <3>3 DEF HandlerOK, Shown, OnBoard
    <2> QED
      BY <2>1, <2>2
  <1>5. ASSUME NEW t \in TaskRuns \ {req[h].tr} PROVE EntryOK(t)'
    <2>1. Working(t) => Working(t)'
      BY <1>2 DEF Working
    <2>2. trss'[t] = trss[t] /\ board'[t] = board[t] /\ emitted' = emitted
      BY <1>1
    <2>3. \A type : Shown(t, type) => Shown(t, type)'
      BY <1>1, <2>2 DEF Shown, OnBoard
    <2>4. emitted[t] # <<>> =>
            LET m == emitted[t][Len(emitted[t])] IN m \in acked' => m \in acked
      <3> SUFFICES ASSUME emitted[t] # <<>>
                   PROVE  emitted[t][Len(emitted[t])] # req[h]
        BY <1>1
      <3>1. Len(emitted[t]) \in 1 .. Len(emitted[t])
        BY DEF TypeInv, TypeOK
      <3> QED
        BY <3>1 DEF OneByOne
    <2>5. EntryOK(t)
      BY DEF Agree
    <2> QED
      BY <1>3, <2>1, <2>2, <2>3, <2>4, <2>5 DEF EntryOK, OnBoard
  <1> QED
    BY <1>1, <1>3, <1>4, <1>5

LEMMA HandlerAgree ==
  ASSUME TypeInv, OneByOne, Agree, NEW h \in Handlers, HandlerStep(h)
  PROVE  Agree'
  <1>1. CASE req[h] = None
    <2>1. Answer(h)
      BY <1>1, NoneAssumption DEF TypeInv, ServesMessage, HandlerStep, Lookup,
         Store, CountRead, CountWrite, Sync, CreateCheckRun, CallSucceeds, CallFails
    <2>2. /\ UNCHANGED <<trss, board, dropped, acked, emitted, faults>>
          /\ \A g \in Handlers \ {h} :
               pc'[g] = pc[g] /\ req'[g] = req[g] /\ code'[g] = code[g]
          /\ pc[h] = "answer" /\ pc'[h] = "idle"
      BY <1>1, <2>1 DEF Answer, Goto, sender, TypeInv, TypeOK
    <2>3. \A g \in Handlers : HandlerOK(g)'
      BY <2>2 DEF Agree, HandlerOK, Shown, OnBoard, Clean
    <2>4. \A t \in TaskRuns : Working(t) => Working(t)'
      BY <2>2 DEF Working
    <2>5. \A t \in TaskRuns : EntryOK(t)'
      BY <2>2, <2>4 DEF Agree, EntryOK, Shown, OnBoard, Clean
    <2> QED
      BY <2>3, <2>5 DEF Agree
  <1>2. CASE req[h] # None
    <2> DEFINE m == req[h]
    <2>0. PICK t \in TaskRuns : t = req[h].tr
      BY <1>2 DEF TypeInv, TypeOK, Message
    <2>1. PICK type \in EventType : type = req[h].type
      BY <1>2 DEF TypeInv, TypeOK, Message
    <2>2. /\ \A g \in Handlers \ {h} : HandlerOK(g)'
          /\ \A u \in TaskRuns \ {t} : EntryOK(u)'
          /\ Clean' => Clean
          /\ dropped \subseteq dropped'
      BY <1>2, <2>0, OthersAgree
    <2>3. HandlerOK(h) /\ EntryOK(t)
      BY DEF Agree
    <2>4. ASSUME HandlerOK(h)', EntryOK(t)' PROVE Agree'
      BY <2>2, <2>4 DEF Agree
    <2>5. type # None
      BY NoneAssumption
    <2>6. emitted' = emitted
      BY DEF HandlerStep, Lookup, Store, CountRead, CountWrite, Sync,
         CreateCheckRun, CallSucceeds, CallFails, Answer, sender
    <2>7. ASSUME board'[t] = board[t], trss'[t] = trss[t], acked' = acked,
                 pc[h] \notin {"sync", "post"}
          PROVE  EntryOK(t)' /\ \A ty : Shown(t, ty) => Shown(t, ty)'
      <3>1. \A ty : Shown(t, ty) => Shown(t, ty)'
        BY <2>2, <2>7 DEF Shown, OnBoard
      <3>2. Working(t) => Working(t)'
        <4>1. \A g \in Handlers \ {h} : pc'[g] = pc[g] /\ req'[g] = req[g]
          BY DEF HandlerStep, Lookup, Store, CountRead, CountWrite, Sync,
             CreateCheckRun, CallSucceeds, CallFails, Answer, Goto, TypeInv, TypeOK
        <4> QED
          BY <2>7, <4>1 DEF Working
      <3> QED
        BY <2>2, <2>3, <2>6, <2>7, <3>1, <3>2 DEF EntryOK, OnBoard
    <2>8. ASSUME Entry(h) \in dropped', board'[t] = board[t], trss'[t] = trss[t],
                 acked' = acked, pc[h] \in {"sync", "post"}, pc'[h] = "answer",
                 req'[h] = req[h]
          PROVE  Agree'
      <3>1. Shown(t, type)' /\ ~ Clean'
        BY <2>0, <2>1, <2>8 DEF Shown, Clean, Entry
      <3>2. HandlerOK(h)'
        BY <2>0, <2>1, <2>8, <3>1 DEF HandlerOK
      <3>3. trss'[t] = type
        BY <2>0, <2>1, <2>3, <2>8 DEF HandlerOK
      <3>4. \A ty : Shown(t, ty) => Shown(t, ty)'
        BY <2>2, <2>8 DEF Shown, OnBoard
      <3>5. EntryOK(t)'
        BY <2>3, <2>6, <2>8, <3>1, <3>3, <3>4 DEF EntryOK
      <3> QED
        BY <2>4, <3>2, <3>5
    <2>9. CASE Lookup(h)
      <3>1. /\ UNCHANGED <<board, trss, acked, req>>
            /\ pc[h] = "lookup"
            /\ pc'[h] = IF trss[t] = type THEN "count" ELSE "store"
        BY <2>0, <2>1, <2>9 DEF Lookup, Goto, history, TypeInv, TypeOK
      <3>2. EntryOK(t)' /\ \A ty : Shown(t, ty) => Shown(t, ty)'
        BY <2>7, <3>1
      <3>3. ~ Working(t)
        <4>1. ASSUME NEW g \in Handlers, pc[g] \in {"sync", "post"}, req[g].tr = t
              PROVE  FALSE
          <5>1. req[g] # None
            BY <4>1, NoneAssumption DEF TypeInv, ServesMessage
          <5> QED
            BY <1>2, <2>0, <3>1, <4>1, <5>1 DEF OneByOne
        <4> QED
          BY <4>1 DEF Working
      <3>4. HandlerOK(h)'
        BY <2>0, <2>1, <2>2, <2>3, <2>5, <3>1, <3>2, <3>3
           DEF HandlerOK, EntryOK, OnBoard
      <3> QED
        BY <2>4, <3>2, <3>4
    <2>10. CASE Store(h)
      <3>1. /\ UNCHANGED <<board, dropped, faults, acked, req>>
            /\ pc[h] = "store" /\ pc'[h] = "sync" /\ trss'[t] = type
        BY <2>0, <2>1, <2>10 DEF Store, Goto, history, TypeInv, TypeOK
      <3>2. HandlerOK(h)'
        BY <2>0, <2>1, <2>3, <3>1 DEF HandlerOK, OnBoard, Clean
      <3>3. Working(t)'
        BY <2>0, <3>1 DEF Working
      <3>4. EntryOK(t)'
        BY <2>3, <2>6, <3>1, <3>3 DEF EntryOK, Shown, OnBoard
      <3> QED
        BY <2>4, <3>2, <3>4
    <2>11. CASE CountRead(h) \/ CountWrite(h)
      <3>1. /\ UNCHANGED <<board, trss, acked, req>>
            /\ pc[h] \in {"count", "counted"} /\ pc'[h] \in {"counted", "answer"}
        BY <2>11 DEF CountRead, CountWrite, Goto, history, TypeInv, TypeOK
      <3>2. EntryOK(t)' /\ \A ty : Shown(t, ty) => Shown(t, ty)'
        BY <2>7, <3>1
      <3>3. HandlerOK(h)'
        BY <2>0, <2>1, <2>3, <3>1, <3>2 DEF HandlerOK
      <3> QED
        BY <2>4, <3>2, <3>3
    <2>12. CASE Sync(h)
      <3>1. /\ UNCHANGED <<board, trss, acked, req, faults>> /\ pc[h] = "sync"
            /\ \/ pc'[h] = "answer" /\ Entry(h) \in dropped'
               \/ pc'[h] = "post" /\ dropped' = dropped
        BY <2>12 DEF Sync, Goto, TypeInv, TypeOK
      <3>2. CASE pc'[h] = "answer" /\ Entry(h) \in dropped'
        BY <2>8, <3>1, <3>2
      <3>3. CASE pc'[h] = "post" /\ dropped' = dropped
        <4>1. HandlerOK(h)'
          BY <2>3, <3>1, <3>3 DEF HandlerOK, OnBoard, Clean
        <4>2. Working(t)'
          BY <2>0, <3>1, <3>3 DEF Working
        <4>3. EntryOK(t)'
          BY <2>3, <2>6, <3>1, <3>3, <4>2 DEF EntryOK, Shown, OnBoard
        <4> QED
          BY <2>4, <4>1, <4>3
      <3> QED
        BY <3>1, <3>2, <3>3
    <2>13. CASE CreateCheckRun(h)
      <3>1. /\ UNCHANGED <<trss, acked, req, dropped>>
            /\ pc[h] = "post" /\ pc'[h] = "posted"
            /\ board'[t] = checkRun(req[h])
        BY <2>0, <2>13 DEF CreateCheckRun, Goto, TypeInv, TypeOK
      <3>2. board'[t].msg = req[h]
        BY <3>1 DEF checkRun
      <3>3. board'[t] # None
        <4>1. req[h] \in Message
          BY <2>13 DEF CreateCheckRun, TypeInv, ServesMessage
        <4>2. checkRun(req[h]) \in Check
          BY <4>1 DEF checkRun, Check, getStatus, Status, resolveConclusion,
             getFailureConclusion, Conclusion
        <4> QED
          BY <3>1, <4>2, NoCheckAssumption
      <3>4. OnBoard(t, type)'
        BY <2>1, <3>2, <3>3 DEF OnBoard
      <3>5. HandlerOK(h)'
        BY <2>0, <2>1, <3>1, <3>4 DEF HandlerOK, Shown
      <3>6. trss'[t] = type
        BY <2>0, <2>1, <2>3, <3>1 DEF HandlerOK
      <3>7. ASSUME emitted[t] # <<>>, emitted[t][Len(emitted[t])] \in acked
            PROVE  emitted[t][Len(emitted[t])].type = type
        BY <1>2, <2>0, <2>1, <3>7, AnsweredIsLast
      <3>8. EntryOK(t)'
        BY <2>6, <3>1, <3>4, <3>6, <3>7 DEF EntryOK, Shown
      <3> QED
        BY <2>4, <3>5, <3>8
    <2>14. CASE CallSucceeds(h)
      <3>1. /\ UNCHANGED <<board, trss, acked, req>>
            /\ pc[h] = "posted" /\ pc'[h] = "answer"
        BY <2>14 DEF CallSucceeds, Goto, history, TypeInv, TypeOK
      <3>2. EntryOK(t)' /\ \A ty : Shown(t, ty) => Shown(t, ty)'
        BY <2>7, <3>1
      <3>3. HandlerOK(h)'
        BY <2>0, <2>1, <2>3, <3>1, <3>2 DEF HandlerOK
      <3> QED
        BY <2>4, <3>2, <3>3
    <2>15. CASE CallFails(h)
      <3>1. /\ UNCHANGED <<board, trss, acked, req>>
            /\ pc[h] \in {"post", "posted"} /\ pc'[h] = "answer"
            /\ code'[h] = "Internal"
            /\ pc[h] = "post" => Entry(h) \in dropped'
        BY <2>15 DEF CallFails, Goto, TypeInv, TypeOK
      <3>2. CASE pc[h] = "post"
        BY <2>8, <3>1, <3>2
      <3>3. CASE pc[h] = "posted"
        <4>1. EntryOK(t)'
          BY <2>7, <3>1, <3>3
        <4>2. HandlerOK(h)'
          BY <3>1 DEF HandlerOK
        <4> QED
          BY <2>4, <4>1, <4>2
      <3> QED
        BY <3>1, <3>2, <3>3
    <2>16. CASE Answer(h)
      <3>1. /\ UNCHANGED <<board, trss, dropped>>
            /\ pc[h] = "answer" /\ pc'[h] = "idle"
            /\ acked' = IF code[h] = "OK" THEN acked \cup {req[h]} ELSE acked
        BY <1>2, <2>16 DEF Answer, Goto, TypeInv, TypeOK
      <3>2. HandlerOK(h)'
        BY <3>1 DEF HandlerOK
      <3>3. Working(t) => Working(t)'
        BY <2>16 DEF Answer, Goto, Working, TypeInv, TypeOK
      <3>4. code[h] = "OK" => Shown(t, type)
        BY <1>2, <2>0, <2>1, <2>3, <3>1 DEF HandlerOK
      <3>5. EntryOK(t)'
        BY <2>1, <2>2, <2>3, <2>6, <3>1, <3>3, <3>4 DEF EntryOK, Shown, OnBoard
      <3> QED
        BY <2>4, <3>2, <3>5
    <2> QED
      BY <2>9, <2>10, <2>11, <2>12, <2>13, <2>14, <2>15, <2>16 DEF HandlerStep
  <1> QED
    BY <1>1, <1>2

LEMMA AgreeStep ==
  ASSUME Delivery = "serial", TypeInv, OneByOne, Agree, [Next]_vars
  PROVE  Agree'
  <1>1. ASSUME UNCHANGED <<process, board, faults, history>>,
               \A t \in TaskRuns : emitted[t] # <<>> \/ emitted'[t] # <<>> =>
                  \/ emitted'[t] = emitted[t]
                  \/ emitted'[t][Len(emitted'[t])] \notin acked
        PROVE  Agree'
    <2>1. \A h \in Handlers : HandlerOK(h)'
      BY <1>1 DEF Agree, HandlerOK, Shown, OnBoard, Clean, process, history
    <2>2. \A t \in TaskRuns : EntryOK(t)'
      BY <1>1 DEF Agree, EntryOK, Working, Shown, OnBoard, Clean, process, history
    <2> QED
      BY <2>1, <2>2 DEF Agree
  <1>2. ASSUME NEW t \in TaskRuns, Emit(t) PROVE Agree'
    <2> DEFINE M(type, reason) == [tr |-> t, n |-> Len(emitted[t]) + 1,
                                   type |-> type, reason |-> reason]
               Sends(k) == emitted' = [emitted EXCEPT ![t] = Append(@, k)]
    <2>0. PICK type \in NextTypes(t) :
            \E reason \in Reasons \cup {None} : Sends(M(type, reason))
      BY <1>2 DEF Emit
    <2>5. PICK reason \in Reasons \cup {None} : Sends(M(type, reason))
      BY <2>0
    <2>6. PICK m : m = M(type, reason)
      OBVIOUS
    <2>1. Sends(m) /\ m.tr = t /\ m.n = Len(emitted[t]) + 1
      BY <2>5, <2>6
    <2>7. m \in Message
      <3>1. Len(emitted[t]) + 1 \in 1 .. MaxEvents
        BY <1>2, ConstantsAssumption DEF Emit, TypeInv, TypeOK
      <3>2. type \in EventType
        BY DEF NextTypes, EventType, Terminal, LastType
      <3> QED
        BY <2>6, <3>1, <3>2 DEF Message
    <2> HIDE DEF M
    <2>2. m \notin acked
      <3>1. \A k \in acked : k.tr = t => k.n <= Len(emitted[t]) /\ k.n \in Nat
        BY DEF OneByOne, Sent, TypeInv, TypeOK, Message
      <3>2. Len(emitted[t]) \in Nat
        BY DEF TypeInv, TypeOK
      <3> QED
        BY <2>1, <3>1, <3>2
    <2>3. emitted'[t][Len(emitted'[t])] = m
      <3>1. emitted[t] \in Seq(Message) /\ emitted'[t] = Append(emitted[t], m)
        BY <2>1 DEF TypeInv, TypeOK
      <3>2. /\ Len(emitted'[t]) = Len(emitted[t]) + 1
            /\ emitted'[t][Len(emitted[t]) + 1] = m
        BY <2>7, <3>1
      <3> QED
        BY <3>2
    <2>4. \A u \in TaskRuns \ {t} : emitted'[u] = emitted[u]
      BY <2>1 DEF TypeInv, TypeOK
    <2> QED
      BY <1>1, <1>2, <2>2, <2>3, <2>4 DEF Emit
  <1>3. ASSUME NEW m \in received, Redeliver(m) PROVE Agree'
    <2>1. \A h \in Handlers : HandlerOK(h)'
      BY <1>3 DEF Redeliver, Agree, HandlerOK, Shown, OnBoard, Clean, process,
         history, TypeInv, TypeOK, Fault
    <2>2. \A t \in TaskRuns : EntryOK(t)'
      BY <1>3 DEF Redeliver, Agree, EntryOK, Working, Shown, OnBoard, Clean,
         process, history, TypeInv, TypeOK, Fault
    <2> QED
      BY <2>1, <2>2 DEF Agree
  <1>4. ASSUME NEW h \in Handlers, Receive(h) \/ ReceiveOther(h) PROVE Agree'
    <2>1. /\ UNCHANGED <<trss, board, dropped, faults, acked, emitted>>
          /\ \A g \in Handlers \ {h} :
               pc'[g] = pc[g] /\ req'[g] = req[g] /\ code'[g] = code[g]
          /\ pc[h] = "idle"
          /\ pc'[h] = "lookup" \/ (pc'[h] = "answer" /\ req'[h] = None)
      BY <1>4 DEF Receive, ReceiveOther, Busy, Goto, sender, history, TypeInv, TypeOK
    <2>2. \A g \in Handlers : HandlerOK(g)'
      BY <2>1 DEF Agree, HandlerOK, Shown, OnBoard, Clean
    <2>3. \A t \in TaskRuns : Working(t) => Working(t)'
      BY <2>1 DEF Working
    <2>4. \A t \in TaskRuns : EntryOK(t)'
      BY <2>1, <2>3 DEF Agree, EntryOK, Shown, OnBoard, Clean
    <2> QED
      BY <2>2, <2>4 DEF Agree
  <1>5. CASE Crash \/ MapRace
    <2>1. Restart
      BY <1>5 DEF Crash, MapRace
    <2>2. ~ Clean'
      <3>1. faults'["crashes"] = faults["crashes"] + 1 /\ faults["crashes"] \in Nat
        BY <2>1 DEF Restart, TypeInv, TypeOK, Fault
      <3> QED
        BY <3>1 DEF Clean
    <2>3. \A h \in Handlers : HandlerOK(h)'
      BY <2>1, <2>2 DEF Restart, HandlerOK
    <2>4. \A t \in TaskRuns : EntryOK(t)'
      BY <2>1, <2>2 DEF Restart, Agree, EntryOK, Shown, OnBoard, sender
    <2> QED
      BY <2>3, <2>4 DEF Agree
  <1>6. CASE UNCHANGED vars
    BY <1>1, <1>6 DEF vars, sender
  <1> QED
    BY <1>2, <1>3, <1>4, <1>5, <1>6, HandlerAgree DEF Next

LEMMA SerialAlways ==
  ASSUME Delivery = "serial"
  PROVE  Spec => [](TypeInv /\ OneByOne /\ Agree)
  <1>1. Init => TypeInv
    BY DEF Init, TypeInv, TypeOK, ServesMessage, PC, Code, Fault
  <1>2. Init => OneByOne /\ Agree
    BY DEF Init, OneByOne, Agree, HandlerOK, EntryOK
  <1>3. TypeInv /\ OneByOne /\ Agree /\ [Next]_vars => (TypeInv /\ OneByOne /\ Agree)'
    BY TypeStep, OneByOneStep, AgreeStep
  <1> QED
    BY <1>1, <1>2, <1>3, PTL DEF Spec

(* When each event of a TaskRun waits for the answer to the one before,    *)
(* the last event that was answered OK is what GitHub shows, unless its    *)
(* sync was given up.                                                      *)
THEOREM AckedShown ==
  ASSUME Delivery = "serial"
  PROVE  Spec => []AckedIsShown
  <1>1. Agree => AckedIsShown
    BY DEF Agree, EntryOK, AckedIsShown, Shown, OnBoard
  <1> QED
    BY <1>1, SerialAlways, PTL

(* Nor is anything posted that GitHub already shows, as long as nothing was*)
(* given up and the process lives.                                         *)
THEOREM NothingRepeated ==
  ASSUME Delivery = "serial"
  PROVE  Spec => NoCheckRepeated
  <1>1. ASSUME Agree, [Next]_vars, NEW h \in Handlers, pc[h] = "post",
               dropped = {}, faults["crashes"] = 0, board[req[h].tr] # None
        PROVE  board[req[h].tr].msg.type # req[h].type
    BY <1>1 DEF Agree, HandlerOK, Clean, OnBoard
  <1> DEFINE A == \A h \in Handlers :
                     /\ pc[h] = "post" /\ pc'[h] = "posted"
                     /\ dropped = {} /\ faults["crashes"] = 0
                     => LET check == board[req[h].tr]
                        IN check # None => check.msg.type # req[h].type
  <1>2. TypeInv /\ OneByOne /\ Agree /\ [Next]_vars => [A]_vars
    BY <1>1
  <1>3. Spec => [][A]_vars
    <2> HIDE DEF A
    <2> QED
      BY <1>2, SerialAlways, PTL DEF Spec
  <1> QED
    BY <1>3 DEF NoCheckRepeated
=============================================================================
