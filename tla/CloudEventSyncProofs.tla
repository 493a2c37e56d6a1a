------------------------ MODULE CloudEventSyncProofs ------------------------
(***************************************************************************)
(* Theorems about CloudEventSync, for any TaskRuns, Handlers, order of     *)
(* delivery and bounds.                                                    *)
(***************************************************************************)
EXTENDS CloudEventSync, TLAPS

(* A handler past Receive serves a message of a TaskRun; only requests     *)
(* without one go straight to the answer.                                  *)
ServesMessage ==
  \A h \in Handlers : pc[h] \notin {"idle", "answer"} => req[h] \in Message

TypeInv == TypeOK /\ ServesMessage

(* Restart leaves every variable typed.                                    *)
LEMMA RestartType == TypeInv /\ Restart => TypeInv'
  <1> SUFFICES ASSUME TypeInv, Restart PROVE TypeInv'
    OBVIOUS
  <1> USE DEF TypeInv, TypeOK, ServesMessage
  <1>1. dropped' \subseteq TaskRuns \X EventType
    <2>1. ASSUME NEW h \in Handlers, pc[h] \in {"sync", "post"}
          PROVE  <<req[h].tr, req[h].type>> \in TaskRuns \X EventType
      BY <2>1 DEF Message
    <2> QED
      BY <2>1 DEF Restart
  <1>2. faults' \in [Fault -> Nat]
    BY DEF Restart, Fault
  <1>3. /\ pc' \in [Handlers -> PC] /\ code' \in [Handlers -> Code]
        /\ \A h \in Handlers : pc'[h] = "idle"
    BY DEF Restart, PC, Code
  <1> QED
    BY <1>1, <1>2, <1>3 DEF Restart, sender

(* Every step leaves every variable typed.                                 *)
LEMMA TypeStep == TypeInv /\ [Next]_vars => TypeInv'
  <1> SUFFICES ASSUME TypeInv, [Next]_vars PROVE TypeInv'
    OBVIOUS
  <1> USE DEF TypeInv, TypeOK, ServesMessage
  <1>1. ASSUME NEW t \in TaskRuns, Emit(t) PROVE TypeInv'
    <2> DEFINE M(type, reason) == [tr |-> t, n |-> Len(emitted[t]) + 1,
                                   type |-> type, reason |-> reason]
               Sent(m) == /\ emitted' = [emitted EXCEPT ![t] = Append(@, m)]
                          /\ inflight' = inflight \cup {m}
    <2>0. PICK type \in NextTypes(t) :
            \E reason \in Reasons \cup {None} : Sent(M(type, reason))
      BY <1>1 DEF Emit
    <2>1. PICK reason \in Reasons \cup {None} : Sent(M(type, reason))
      BY <2>0
    <2> DEFINE m == M(type, reason)
    <2>2. type \in EventType
      BY DEF EventType, NextTypes, Terminal, LastType
    <2>3. Len(emitted[t]) + 1 \in 1 .. MaxEvents
      BY <1>1, ConstantsAssumption DEF Emit
    <2>4. m \in Message
      BY <2>2, <2>3 DEF Message
    <2> QED
      <3>1. emitted' \in [TaskRuns -> Seq(Message)]
        BY <2>1, <2>4
      <3>2. inflight' \subseteq Message
        BY <2>1, <2>4
      <3> QED
        BY <1>1, <3>1, <3>2 DEF Emit, process, history
  <1>2. ASSUME NEW m \in received, Redeliver(m) PROVE TypeInv'
    BY <1>2 DEF Redeliver, Fault, process, history
  <1>3. ASSUME NEW h \in Handlers, Receive(h) PROVE TypeInv'
    BY <1>3 DEF Receive, Goto, PC, history
  <1>4. ASSUME NEW h \in Handlers, ReceiveOther(h) PROVE TypeInv'
    BY <1>4 DEF ReceiveOther, Goto, PC, Code, history, sender
  <1>5. ASSUME NEW h \in Handlers, Lookup(h) PROVE TypeInv'
    BY <1>5 DEF Lookup, Goto, PC, history, sender
  <1>6. ASSUME NEW h \in Handlers, Store(h) PROVE TypeInv'
    BY <1>6 DEF Store, Goto, PC, history, sender, Message
  <1>7. ASSUME NEW h \in Handlers, CountRead(h) PROVE TypeInv'
    BY <1>7 DEF CountRead, Goto, PC, sender
  <1>8. ASSUME NEW h \in Handlers, CountWrite(h) PROVE TypeInv'
    BY <1>8 DEF CountWrite, Goto, PC, Code, history, sender
  <1>9. ASSUME NEW h \in Handlers, Sync(h) PROVE TypeInv'
    <2>1. Entry(h) \in TaskRuns \X EventType
      BY <1>9 DEF Sync, Entry, Message
    <2> QED
      BY <1>9, <2>1 DEF Sync, Goto, PC, Code, sender
  <1>10. ASSUME NEW h \in Handlers, CreateCheckRun(h) PROVE TypeInv'
    <2>1. Entry(h) \in TaskRuns \X EventType
      BY <1>10 DEF CreateCheckRun, Entry, Message
    <2>2. checkRun(req[h]) \in Check
      <3>1. req[h] \in Message
        BY <1>10 DEF CreateCheckRun
      <3>2. getStatus(req[h].type) \in Status
        BY DEF getStatus, Status
      <3>3. resolveConclusion(req[h]) \in Conclusion
        BY DEF resolveConclusion, getFailureConclusion, Conclusion
      <3> QED
        BY <3>1, <3>2, <3>3 DEF checkRun, Check
    <2> QED
      BY <1>10, <2>1, <2>2 DEF CreateCheckRun, Goto, PC, sender
  <1>11. ASSUME NEW h \in Handlers, CallSucceeds(h) PROVE TypeInv'
    BY <1>11 DEF CallSucceeds, Goto, PC, Code, history, sender
  <1>12. ASSUME NEW h \in Handlers, CallFails(h) PROVE TypeInv'
    <2>1. Entry(h) \in TaskRuns \X EventType
      BY <1>12 DEF CallFails, Entry, Message
    <2> QED
      BY <1>12, <2>1 DEF CallFails, Fault, Goto, PC, Code, sender
  <1>13. ASSUME NEW h \in Handlers, Answer(h) PROVE TypeInv'
    BY <1>13 DEF Answer, Goto, PC, Code, sender
  <1>14. CASE Crash
    BY <1>14, RestartType DEF Crash
  <1>15. CASE MapRace
    BY <1>15, RestartType DEF MapRace
  <1>16. CASE UNCHANGED vars
    BY <1>16 DEF vars, sender, process, history
  <1> QED
    BY <1>1, <1>2, <1>3, <1>4, <1>5, <1>6, <1>7, <1>8, <1>9, <1>10, <1>11,
       <1>12, <1>13, <1>14, <1>15, <1>16 DEF Next, HandlerStep

(* Type correctness of the whole program (CloudEventSync!TypeOK).          *)
THEOREM TypeCorrect == Spec => []TypeOK
  <1>1. Init => TypeInv
    BY DEF Init, TypeInv, TypeOK, ServesMessage, PC, Code
  <1>2. TypeInv => TypeOK
    BY DEF TypeInv
  <1> QED
    BY <1>1, <1>2, TypeStep, PTL DEF Spec

-----------------------------------------------------------------------------
(* A handler that decided to skip, or that is going to answer OK, does so  *)
(* for a status that is accounted for; one that counts a skip holds a      *)
(* value of es below the number of skips.                                  *)
HandlersJustified ==
  \A h \in Handlers :
    /\ pc[h] \in {"count", "counted"} => AccountedFor(Entry(h))
    /\ pc[h] = "posted" => Entry(h) \in posted
    /\ pc[h] = "answer" /\ code[h] = "OK" /\ req[h] # None =>
         AccountedFor(Entry(h))
    /\ pc[h] = "counted" => seen[h] < skips

Accountable ==
  /\ RecordedIsAccountedFor
  /\ AckedIsAccountedFor
  /\ CounterNeverExceedsSkips
  /\ HandlersJustified

(* What is accounted for stays so: a pending status is posted or given up, *)
(* also when the process ends before the call.                             *)
LEMMA AccountedForStable ==
  ASSUME TypeInv, [Next]_vars, NEW e, AccountedFor(e)
  PROVE  AccountedFor(e)'
  <1>1. CASE e \in posted \cup dropped
    <2>1. posted \subseteq posted' /\ dropped \subseteq dropped'
      <3>1. ASSUME NEW h \in Handlers, HandlerStep(h)
            PROVE  posted \subseteq posted' /\ dropped \subseteq dropped'
        BY <3>1 DEF HandlerStep, Lookup, Store, CountRead, CountWrite, Sync,
             CreateCheckRun, CallSucceeds, CallFails, Answer, history
      <3> QED
        BY <3>1 DEF Next, vars, history, Emit, Redeliver, Receive,
             ReceiveOther, Crash, MapRace, Restart
    <2> QED
      BY <1>1, <2>1 DEF AccountedFor
  <1>2. CASE Pending(e)
    <2>1. PICK h \in Handlers : pc[h] \in {"sync", "post"} /\ Entry(h) = e
      BY <1>2 DEF Pending
    <2>2. CASE Sync(h)
      <3>1. CASE e \in dropped'
        BY <3>1 DEF AccountedFor
      <3>2. CASE e \notin dropped'
        <4>1. pc'[h] = "post" /\ req' = req
          BY <2>1, <2>2, <3>2 DEF Sync, Goto, TypeInv, TypeOK
        <4> QED
          BY <2>1, <4>1 DEF AccountedFor, Pending, Entry
      <3> QED
        BY <3>1, <3>2
    <2>3. CASE CreateCheckRun(h)
      BY <2>1, <2>3 DEF CreateCheckRun, AccountedFor
    <2>4. CASE CallFails(h)
      BY <2>1, <2>4 DEF CallFails, AccountedFor
    <2>5. CASE Restart
      BY <2>1, <2>5 DEF Restart, AccountedFor, Entry
    <2>6. ASSUME pc'[h] = pc[h], req'[h] = req[h] PROVE AccountedFor(e)'
      BY <2>1, <2>6 DEF AccountedFor, Pending, Entry
    <2>7. ASSUME NEW g \in Handlers, g # h,
                 HandlerStep(g) \/ Receive(g) \/ ReceiveOther(g)
          PROVE  pc'[h] = pc[h] /\ req'[h] = req[h]
      BY <2>7 DEF TypeInv, TypeOK, HandlerStep, Lookup, Store, CountRead,
           CountWrite, Sync, CreateCheckRun, CallSucceeds, CallFails, Answer,
           Receive, ReceiveOther, Goto
    <2>8. CASE HandlerStep(h) \/ Receive(h) \/ ReceiveOther(h)
      BY <2>1, <2>2, <2>3, <2>4, <2>8 DEF HandlerStep, Lookup, Store,
         CountRead, CountWrite, CallSucceeds, Answer, Receive, ReceiveOther,
         Busy
    <2>9. CASE \/ \E t \in TaskRuns : Emit(t)
               \/ \E m \in received : Redeliver(m)
               \/ UNCHANGED vars
      BY <2>6, <2>9 DEF Emit, Redeliver, vars, process
    <2> QED
      BY <2>5, <2>6, <2>7, <2>8, <2>9 DEF Next, Crash, MapRace
  <1> QED
    BY <1>1, <1>2 DEF AccountedFor

(* The end of the process: the store is empty, nobody serves anything.     *)
LEMMA RestartAccountable ==
  ASSUME TypeInv, Accountable, [Next]_vars, Restart
  PROVE  Accountable'
  <1>1. AckedIsAccountedFor'
    BY AccountedForStable
       DEF Accountable, AckedIsAccountedFor, Restart
  <1>2. RecordedIsAccountedFor'
    BY DEF Restart, RecordedIsAccountedFor
  <1>3. CounterNeverExceedsSkips'
    BY DEF Restart, CounterNeverExceedsSkips
  <1>4. HandlersJustified'
    BY DEF Restart, HandlersJustified
  <1> QED
    BY <1>1, <1>2, <1>3, <1>4 DEF Accountable

(* Every step keeps the books.                                             *)
LEMMA AccountableStep ==
  ASSUME TypeInv, Accountable, [Next]_vars
  PROVE  Accountable'
  <1> USE DEF Accountable
  <1>0. \A e : AccountedFor(e) => AccountedFor(e)'
    BY AccountedForStable
  <1> DEFINE Others(h) ==
        \A g \in Handlers \ {h} : /\ pc'[g] = pc[g] /\ req'[g] = req[g]
                                /\ code'[g] = code[g] /\ seen'[g] = seen[g]
             Justified(h) ==
        /\ pc[h] \in {"count", "counted"} => AccountedFor(Entry(h))
        /\ pc[h] = "posted" => Entry(h) \in posted
        /\ pc[h] = "answer" /\ code[h] = "OK" /\ req[h] # None =>
             AccountedFor(Entry(h))
        /\ pc[h] = "counted" => seen[h] < skips
  <1>1. ASSUME trss' = trss PROVE RecordedIsAccountedFor'
    BY <1>0, <1>1 DEF RecordedIsAccountedFor
  <1>2. ASSUME acked' = acked PROVE AckedIsAccountedFor'
    BY <1>0, <1>2 DEF AckedIsAccountedFor
  <1>3. ASSUME es' = es, skips' = skips PROVE CounterNeverExceedsSkips'
    BY <1>3 DEF CounterNeverExceedsSkips
  <1>4. ASSUME NEW h \in Handlers, Others(h), Justified(h)',
               posted \subseteq posted', skips \in Nat, skips' \in Nat,
               skips <= skips'
        PROVE  HandlersJustified'
    <2>1. ASSUME NEW g \in Handlers, g # h PROVE Justified(g)'
      <3>1. Justified(g)
        BY DEF HandlersJustified
      <3>2. Entry(g)' = Entry(g)
        BY <1>4, <2>1 DEF Entry
      <3>3. seen[g] \in Nat
        BY DEF TypeInv, TypeOK
      <3> QED
        BY <1>0, <1>4, <2>1, <3>1, <3>2, <3>3
    <2> QED
      BY <1>4, <2>1 DEF HandlersJustified
  <1> HIDE DEF Others, Justified
  <1>5. ASSUME NEW h \in Handlers, Lookup(h) PROVE Accountable'
    <2>1. Others(h)
      BY <1>5 DEF Lookup, Goto, TypeInv, TypeOK, Others
    <2>2. Justified(h)'
      <3>1. CASE trss[req[h].tr] = req[h].type
        <4>1. AccountedFor(Entry(h))
          <5>1. req[h].tr \in TaskRuns /\ req[h].type # None
            BY <1>5, NoneAssumption
               DEF Lookup, TypeInv, ServesMessage, Message
          <5> QED
            BY <3>1, <5>1 DEF RecordedIsAccountedFor, Entry
        <4>2. AccountedFor(Entry(h))'
          <5>1. Entry(h)' = Entry(h)
            BY <1>5 DEF Lookup, Entry
          <5> QED
            BY <1>0, <4>1, <5>1
        <4> QED
          BY <1>5, <3>1, <4>2 DEF Lookup, Goto, Justified, TypeInv, TypeOK
      <3>2. CASE trss[req[h].tr] # req[h].type
        BY <1>5, <3>2 DEF Lookup, Goto, Justified, TypeInv, TypeOK
      <3> QED
        BY <3>1, <3>2
    <2> QED
      BY <1>1, <1>2, <1>3, <1>4, <1>5, <2>1, <2>2
         DEF Lookup, history, TypeInv, TypeOK
  <1>6. ASSUME NEW h \in Handlers, Store(h) PROVE Accountable'
    <2>1. Others(h) /\ Justified(h)'
      BY <1>6 DEF Store, Goto, TypeInv, TypeOK, Others, Justified
    <2>2. RecordedIsAccountedFor'
      <3>1. /\ req[h].tr \in TaskRuns
            /\ Entry(h)' = Entry(h)
            /\ pc'[h] = "sync"
        BY <1>6 DEF Store, Goto, Entry, TypeInv, TypeOK, ServesMessage, Message
      <3>2. AccountedFor(Entry(h))'
        BY <3>1 DEF AccountedFor, Pending
      <3>3. ASSUME NEW t \in TaskRuns, trss'[t] # None
            PROVE  AccountedFor(<<t, trss[t]>>)'
        <4>1. CASE t = req[h].tr
          <5>1. <<t, trss'[t]>> = Entry(h)'
            BY <1>6, <3>1, <4>1 DEF Store, Entry, TypeInv, TypeOK
          <5> QED
            BY <3>2, <5>1
        <4>2. CASE t # req[h].tr
          <5>1. trss'[t] = trss[t]
            BY <1>6, <4>2 DEF Store, TypeInv, TypeOK
          <5> QED
            BY <1>0, <3>3, <5>1 DEF RecordedIsAccountedFor
        <4> QED
          BY <4>1, <4>2
      <3> QED
        BY <3>3 DEF RecordedIsAccountedFor
    <2> QED
      BY <1>2, <1>3, <1>4, <1>6, <2>1, <2>2
         DEF Store, history, TypeInv, TypeOK
  <1>7. ASSUME NEW h \in Handlers, CountRead(h) PROVE Accountable'
    <2>1. Others(h)
      BY <1>7 DEF CountRead, Goto, TypeInv, TypeOK, Others
    <2>2. Justified(h)'
      <3>1. AccountedFor(Entry(h))'
        <4>1. AccountedFor(Entry(h)) /\ Entry(h)' = Entry(h)
          BY <1>7 DEF CountRead, HandlersJustified, Entry
        <4> QED
          BY <1>0, <4>1
      <3>2. pc'[h] = "counted" /\ seen'[h] < skips'
        BY <1>7 DEF CountRead, Goto, TypeInv, TypeOK, CounterNeverExceedsSkips
      <3> QED
        BY <3>1, <3>2 DEF Justified
    <2>3. CounterNeverExceedsSkips'
      BY <1>7 DEF CountRead, TypeInv, TypeOK, CounterNeverExceedsSkips
    <2> QED
      BY <1>1, <1>2, <1>4, <1>7, <2>1, <2>2, <2>3
         DEF CountRead, TypeInv, TypeOK
  <1>8. ASSUME NEW h \in Handlers, CountWrite(h) PROVE Accountable'
    <2>1. Others(h)
      BY <1>8 DEF CountWrite, Goto, TypeInv, TypeOK, Others
    <2>2. Justified(h)'
      <3>1. AccountedFor(Entry(h))'
        <4>1. AccountedFor(Entry(h)) /\ Entry(h)' = Entry(h)
          BY <1>8 DEF CountWrite, HandlersJustified, Entry
        <4> QED
          BY <1>0, <4>1
      <3> QED
        BY <1>8, <3>1 DEF CountWrite, Goto, Justified, TypeInv, TypeOK
    <2>3. CounterNeverExceedsSkips'
      BY <1>8 DEF CountWrite, TypeInv, TypeOK, HandlersJustified,
           CounterNeverExceedsSkips, history
    <2> QED
      BY <1>1, <1>2, <1>4, <1>8, <2>1, <2>2, <2>3
         DEF CountWrite, TypeInv, TypeOK, history
  <1>9. ASSUME NEW h \in Handlers, Sync(h) PROVE Accountable'
    <2>1. Others(h) /\ Entry(h)' = Entry(h)
      BY <1>9 DEF Sync, Goto, TypeInv, TypeOK, Others, Entry
    <2>2. Justified(h)'
      <3>1. CASE Reportable(req[h].tr) /\ pc'[h] = "post"
        BY <3>1 DEF Justified
      <3>2. CASE pc'[h] = "answer" /\ Entry(h) \in dropped'
        BY <2>1, <3>2 DEF Justified, AccountedFor
      <3> QED
        BY <1>9, <3>1, <3>2 DEF Sync, Goto, TypeInv, TypeOK
    <2> QED
      BY <1>1, <1>2, <1>3, <1>4, <1>9, <2>1, <2>2 DEF Sync, TypeInv, TypeOK
  <1>10. ASSUME NEW h \in Handlers, CreateCheckRun(h) PROVE Accountable'
    <2>1. Others(h) /\ Justified(h)'
      BY <1>10 DEF CreateCheckRun, Goto, TypeInv, TypeOK, Others, Justified,
           Entry
    <2> QED
      BY <1>1, <1>2, <1>3, <1>4, <1>10, <2>1
         DEF CreateCheckRun, TypeInv, TypeOK
  <1>11. ASSUME NEW h \in Handlers, CallSucceeds(h) PROVE Accountable'
    <2>1. Others(h)
      BY <1>11 DEF CallSucceeds, Goto, TypeInv, TypeOK, Others
    <2>2. Entry(h) \in posted /\ Entry(h)' = Entry(h) /\ posted' = posted
      BY <1>11 DEF CallSucceeds, HandlersJustified, Entry, history
    <2>3. Justified(h)'
      BY <1>11, <2>2 DEF CallSucceeds, Goto, Justified, AccountedFor,
           TypeInv, TypeOK
    <2> QED
      BY <1>1, <1>2, <1>3, <1>4, <1>11, <2>1, <2>3
         DEF CallSucceeds, history, TypeInv, TypeOK
  <1>12. ASSUME NEW h \in Handlers, CallFails(h) PROVE Accountable'
    <2>1. Others(h)
      BY <1>12 DEF CallFails, Goto, TypeInv, TypeOK, Others
    <2>2. pc'[h] = "answer" /\ code'[h] = "Internal"
      BY <1>12 DEF CallFails, Goto, TypeInv, TypeOK
    <2>3. Justified(h)'
      BY <2>2 DEF Justified
    <2> QED
      BY <1>1, <1>2, <1>3, <1>4, <1>12, <2>1, <2>3
         DEF CallFails, TypeInv, TypeOK
  <1>13. ASSUME NEW h \in Handlers, Answer(h) PROVE Accountable'
    <2>1. Others(h) /\ Justified(h)'
      BY <1>13 DEF Answer, Goto, TypeInv, TypeOK, Others, Justified
    <2>2. AckedIsAccountedFor'
      <3>1. ASSUME NEW m \in acked' PROVE AccountedFor(<<m.tr, m.type>>)
        <4>1. CASE m \in acked
          BY <4>1 DEF AckedIsAccountedFor
        <4>2. CASE m \notin acked
          <5>1. m = req[h] /\ code[h] = "OK" /\ req[h] # None
            BY <1>13, <3>1, <4>2 DEF Answer
          <5> QED
            BY <1>13, <5>1 DEF Answer, HandlersJustified, Entry
        <4> QED
          BY <4>1, <4>2
      <3> QED
        BY <1>0, <3>1 DEF AckedIsAccountedFor
    <2> QED
      BY <1>1, <1>3, <1>4, <1>13, <2>1, <2>2 DEF Answer, TypeInv, TypeOK
  <1>14. ASSUME NEW h \in Handlers, Receive(h) PROVE Accountable'
    <2>1. Others(h) /\ Justified(h)'
      BY <1>14 DEF Receive, Goto, TypeInv, TypeOK, Others, Justified
    <2> QED
      BY <1>1, <1>2, <1>3, <1>4, <1>14, <2>1
         DEF Receive, history, TypeInv, TypeOK
  <1>15. ASSUME NEW h \in Handlers, ReceiveOther(h) PROVE Accountable'
    <2>1. Others(h) /\ Justified(h)'
      BY <1>15 DEF ReceiveOther, Goto, TypeInv, TypeOK, Others, Justified
    <2> QED
      BY <1>1, <1>2, <1>3, <1>4, <1>15, <2>1
         DEF ReceiveOther, history, TypeInv, TypeOK
  <1>16. CASE \/ \E t \in TaskRuns : Emit(t)
              \/ \E m \in received : Redeliver(m)
              \/ UNCHANGED vars
    <2>1. UNCHANGED <<process, history>>
      BY <1>16 DEF Emit, Redeliver, vars
    <2>2. HandlersJustified'
      BY <1>0, <2>1 DEF HandlersJustified, Entry, process, history
    <2> QED
      BY <1>1, <1>2, <1>3, <2>1, <2>2 DEF process, history
  <1>17. CASE Crash \/ MapRace
    BY <1>17, RestartAccountable DEF Crash, MapRace
  <1> QED
    BY <1>5, <1>6, <1>7, <1>8, <1>9, <1>10, <1>11, <1>12, <1>13, <1>14,
       <1>15, <1>16, <1>17 DEF Next, HandlerStep

(* The books are kept in every behaviour.                                  *)
LEMMA AccountableAlways == Spec => [](TypeInv /\ Accountable)
  <1>1. Init => TypeInv /\ Accountable
    BY DEF Init, TypeInv, TypeOK, ServesMessage, PC, Code, Fault, Accountable,
       RecordedIsAccountedFor, AckedIsAccountedFor, CounterNeverExceedsSkips,
       HandlersJustified
  <1>2. TypeInv /\ Accountable /\ [Next]_vars => (TypeInv /\ Accountable)'
    BY TypeStep, AccountableStep
  <1> QED
    BY <1>1, <1>2, PTL DEF Spec

(* A status trss holds, because of which later events are skipped, is one  *)
(* GitHub has, one about to be posted or one whose sync was given up.      *)
THEOREM RecordedAccounted == Spec => []RecordedIsAccountedFor
  <1>1. TypeInv /\ Accountable => RecordedIsAccountedFor
    BY DEF Accountable
  <1> QED
    BY <1>1, AccountableAlways, PTL

(* So is the status of every event the interceptor has answered OK.        *)
THEOREM AckedAccounted == Spec => []AckedIsAccountedFor
  <1>1. TypeInv /\ Accountable => AckedIsAccountedFor
    BY DEF Accountable
  <1> QED
    BY <1>1, AccountableAlways, PTL

(* Racing es++ never counts an event that was not skipped.                 *)
THEOREM CounterSound == Spec => []CounterNeverExceedsSkips
  <1>1. TypeInv /\ Accountable => CounterNeverExceedsSkips
    BY DEF Accountable
  <1> QED
    BY <1>1, AccountableAlways, PTL

-----------------------------------------------------------------------------
(* What is said of the end of a TaskRun stays true, because its terminal   *)
(* event is the last one.                                                  *)
Truths == {m \in Message : m.type \in Terminal => LastType(m.tr) = m.type}

AllTruthful ==
  /\ inflight \cup received \subseteq Truths
  /\ \A h \in Handlers : pc[h] \notin {"idle", "answer"} => req[h] \in Truths
  /\ \A h \in Handlers : pc[h] = "post" => Reportable(req[h].tr)

LEMMA EndIsFinal ==
  ASSUME TypeInv, [Next]_vars, NEW t \in TaskRuns, LastType(t) \in Terminal
  PROVE  LastType(t)' = LastType(t)
  <1>1. CASE emitted' = emitted
    BY <1>1 DEF LastType
  <1>2. ASSUME NEW u \in TaskRuns, Emit(u) PROVE LastType(t)' = LastType(t)
    <2>1. LastType(t) # None
      BY NoneAssumption DEF Terminal, EventType
    <2>2. u # t
      BY <1>2, <2>1 DEF Emit, NextTypes
    <2>3. emitted'[t] = emitted[t]
      BY <1>2, <2>2 DEF Emit, TypeInv, TypeOK
    <2> QED
      BY <2>3 DEF LastType
  <1>3. ASSUME NEW h \in Handlers, HandlerStep(h) PROVE emitted' = emitted
    BY <1>3 DEF HandlerStep, Lookup, Store, CountRead, CountWrite, Sync,
       CreateCheckRun, CallSucceeds, CallFails, Answer, sender
  <1> QED
    BY <1>1, <1>2, <1>3 DEF Next, Redeliver, Receive, ReceiveOther, Crash,
       MapRace, Restart, sender, vars

LEMMA KindIsFixed == [Next]_vars => kind' = kind
  <1>1. ASSUME NEW h \in Handlers, HandlerStep(h) PROVE kind' = kind
    BY <1>1 DEF HandlerStep, Lookup, Store, CountRead, CountWrite, Sync,
       CreateCheckRun, CallSucceeds, CallFails, Answer, sender
  <1> QED
    BY <1>1 DEF Next, Emit, Redeliver, Receive, ReceiveOther, Crash, MapRace,
       Restart, sender, vars

LEMMA TruthsGrow == TypeInv /\ [Next]_vars => Truths \subseteq Truths'
  <1> SUFFICES ASSUME TypeInv, [Next]_vars, NEW m \in Truths PROVE m \in Truths'
    OBVIOUS
  <1>1. m \in Message /\ m.tr \in TaskRuns
    BY DEF Truths, Message
  <1>2. ASSUME m.type \in Terminal PROVE LastType(m.tr)' = m.type
    <2>1. LastType(m.tr) = m.type
      BY <1>2 DEF Truths
    <2> QED
      BY <1>1, <1>2, <2>1, EndIsFinal
  <1> QED
    BY <1>1, <1>2 DEF Truths

(* A new message is the last of its TaskRun.                               *)
LEMMA EmitTruthful ==
  ASSUME TypeInv, NEW t \in TaskRuns, Emit(t)
  PROVE  inflight' \subseteq inflight \cup Truths'
  <1> DEFINE M(type, reason) == [tr |-> t, n |-> Len(emitted[t]) + 1,
                                 type |-> type, reason |-> reason]
             Sent(m) == /\ emitted' = [emitted EXCEPT ![t] = Append(@, m)]
                        /\ inflight' = inflight \cup {m}
  <1>0. PICK type \in NextTypes(t) :
          \E reason \in Reasons \cup {None} : Sent(M(type, reason))
    BY DEF Emit
  <1>1. PICK reason \in Reasons \cup {None} : Sent(M(type, reason))
    BY <1>0
  <1> DEFINE m == M(type, reason)
  <1>2. m \in Message
    <2>1. Len(emitted[t]) + 1 \in 1 .. MaxEvents
      BY ConstantsAssumption DEF Emit, TypeInv, TypeOK
    <2>2. type \in EventType
      BY DEF NextTypes, EventType, Terminal, LastType
    <2> QED
      BY <2>1, <2>2 DEF Message
  <1>3. m.tr = t /\ m.type = type
    OBVIOUS
  <1> HIDE DEF m
  <1>4. emitted'[t] = Append(emitted[t], m) /\ emitted[t] \in Seq(Message)
    BY <1>1 DEF TypeInv, TypeOK, m
  <1>5. LastType(t)' = m.type
    <2>1. /\ emitted'[t] # <<>>
          /\ emitted'[t][Len(emitted'[t])] = m
      BY <1>2, <1>4
    <2> QED
      BY <2>1 DEF LastType
  <1>6. m \in Truths'
    BY <1>2, <1>3, <1>5 DEF Truths
  <1> QED
    BY <1>1, <1>6 DEF m

LEMMA TruthfulStep == TypeInv /\ AllTruthful /\ [Next]_vars => AllTruthful'
  <1> SUFFICES ASSUME TypeInv, AllTruthful, [Next]_vars PROVE AllTruthful'
    OBVIOUS
  <1>1. Truths \subseteq Truths' /\ kind' = kind
    BY TruthsGrow, KindIsFixed
  <1>2. inflight \cup received \subseteq Truths'
    BY <1>1 DEF AllTruthful
  <1>3. ASSUME inflight' \cup received' \subseteq Truths', UNCHANGED process
        PROVE  AllTruthful'
    BY <1>1, <1>3 DEF AllTruthful, process, Reportable
  <1>4. ASSUME NEW h \in Handlers, inflight' \cup received' \subseteq Truths',
               \A g \in Handlers \ {h} : pc'[g] = pc[g] /\ req'[g] = req[g],
               pc'[h] \notin {"idle", "answer"} => req'[h] \in Truths',
               pc'[h] = "post" => Reportable(req'[h].tr)
        PROVE  AllTruthful'
    BY <1>1, <1>4 DEF AllTruthful, Reportable
  <1>5. ASSUME NEW t \in TaskRuns, Emit(t) PROVE AllTruthful'
    BY <1>2, <1>3, <1>5, EmitTruthful DEF Emit
  <1>6. ASSUME NEW m \in received, Redeliver(m) PROVE AllTruthful'
    BY <1>2, <1>3, <1>6 DEF Redeliver
  <1>7. ASSUME NEW h \in Handlers, Receive(h) PROVE AllTruthful'
    BY <1>2, <1>4, <1>7 DEF Receive, Goto, TypeInv, TypeOK
  <1>8. ASSUME NEW h \in Handlers, ReceiveOther(h) PROVE AllTruthful'
    BY <1>2, <1>4, <1>8 DEF ReceiveOther, Goto, TypeInv, TypeOK, sender
  <1>9. ASSUME NEW h \in Handlers, HandlerStep(h) PROVE AllTruthful'
    <2>1. inflight' = inflight /\ received' = received
      BY <1>9 DEF HandlerStep, Lookup, Store, CountRead, CountWrite, Sync,
         CreateCheckRun, CallSucceeds, CallFails, Answer, sender
    <2>2. \A g \in Handlers \ {h} : pc'[g] = pc[g] /\ req'[g] = req[g]
      BY <1>9 DEF HandlerStep, Lookup, Store, CountRead, CountWrite, Sync,
         CreateCheckRun, CallSucceeds, CallFails, Answer, Goto, TypeInv, TypeOK
    <2>3. pc'[h] \notin {"idle", "answer"} =>
            req'[h] = req[h] /\ pc[h] \notin {"idle", "answer"}
      BY <1>9 DEF HandlerStep, Lookup, Store, CountRead, CountWrite, Sync,
         CreateCheckRun, CallSucceeds, CallFails, Answer, Goto, TypeInv, TypeOK
    <2>4. pc'[h] = "post" => Reportable(req[h].tr)
      BY <1>9 DEF HandlerStep, Lookup, Store, CountRead, CountWrite, Sync,
         CreateCheckRun, CallSucceeds, CallFails, Answer, Goto, TypeInv, TypeOK
    <2> QED
      BY <1>1, <1>2, <1>4, <2>1, <2>2, <2>3, <2>4 DEF AllTruthful
  <1>10. CASE Crash \/ MapRace
    BY <1>2, <1>10 DEF Crash, MapRace, Restart, AllTruthful, sender
  <1>11. CASE UNCHANGED vars
    BY <1>2, <1>3, <1>11 DEF vars, sender
  <1> QED
    BY <1>5, <1>6, <1>7, <1>8, <1>9, <1>10, <1>11 DEF Next

(* The check of a message that is true has the colour of its TaskRun's end.*)
LEMMA ConclusionStep ==
  ASSUME TypeInv, AllTruthful, ConclusionMatchesOutcome, [Next]_vars
  PROVE  ConclusionMatchesOutcome'
  <1> DEFINE Matches(t) ==
        /\ board[t].conclusion \in {"success", "neutral"} =>
             LastType(t) = "successful" \/ (LastType(t) = "failed" /\ kind[t] = "optional")
        /\ board[t].conclusion \in {"failure", "cancelled", "timed_out"} =>
             LastType(t) = "failed" /\ kind[t] = "plain"
  <1>1. ASSUME NEW t \in TaskRuns, board'[t] = board[t], board[t] # None
        PROVE  Matches(t)'
    <2>1. Matches(t) /\ kind' = kind
      BY <1>1, KindIsFixed DEF ConclusionMatchesOutcome
    <2>2. LastType(t) \in Terminal => LastType(t)' = LastType(t)
      BY EndIsFinal
    <2> QED
      BY <1>1, <2>1, <2>2 DEF Terminal
  <1>2. ASSUME NEW h \in Handlers, CreateCheckRun(h) PROVE ConclusionMatchesOutcome'
    <2>0. PICK m \in Truths : m = req[h]
      BY <1>2 DEF CreateCheckRun, AllTruthful
    <2>1. m.tr \in TaskRuns /\ m.type \in EventType
      BY DEF Truths, Message
    <2>2. Reportable(m.tr)
      BY <1>2, <2>0 DEF CreateCheckRun, AllTruthful
    <2>3. /\ board' = [board EXCEPT ![m.tr] = checkRun(m)]
          /\ kind' = kind /\ emitted' = emitted
      BY <1>2, <2>0 DEF CreateCheckRun, sender
    <2>4. board'[m.tr].conclusion =
            IF m.type \in Terminal THEN resolveConclusion(m) ELSE None
      BY <2>1, <2>3 DEF TypeInv, TypeOK, checkRun, getStatus, Terminal
    <2>5. LastType(m.tr)' = LastType(m.tr)
      BY <2>3 DEF LastType
    <2>6. m.type \in Terminal => LastType(m.tr) = m.type
      BY <2>1 DEF Truths
    <2>7. Matches(m.tr)'
      <3>1. CASE m.type \notin Terminal
        BY <2>4, <3>1, NoCheckAssumption DEF Conclusion
      <3>2. CASE m.type = "successful"
        BY <2>4, <2>5, <2>6, <3>2 DEF Terminal, resolveConclusion
      <3>3. CASE m.type = "failed" /\ kind[m.tr] = "optional"
        BY <2>3, <2>4, <2>5, <2>6, <3>3
           DEF Terminal, resolveConclusion, hasOptionalMarker
      <3>4. CASE m.type = "failed" /\ kind[m.tr] = "plain"
        BY <2>3, <2>4, <2>5, <2>6, <3>4
           DEF Terminal, resolveConclusion, hasOptionalMarker, getFailureConclusion
      <3> QED
        BY <2>2, <3>1, <3>2, <3>3, <3>4 DEF Terminal, Reportable
    <2>8. \A t \in TaskRuns \ {m.tr} : board'[t] = board[t]
      BY <2>3 DEF TypeInv, TypeOK
    <2> QED
      BY <1>1, <2>7, <2>8 DEF ConclusionMatchesOutcome
  <1>3. ASSUME board' = board PROVE ConclusionMatchesOutcome'
    BY <1>1, <1>3 DEF ConclusionMatchesOutcome
  <1>4. ASSUME NEW h \in Handlers, HandlerStep(h)
        PROVE  board' = board \/ CreateCheckRun(h)
    BY <1>4 DEF HandlerStep, Lookup, Store, CountRead, CountWrite, Sync,
       CallSucceeds, CallFails, Answer
  <1> QED
    BY <1>2, <1>3, <1>4 DEF Next, Emit, Redeliver, Receive, ReceiveOther,
       Crash, MapRace, Restart, vars

(* Whatever the order of events and faults, no required TaskRun is shown   *)
(* green that did not succeed, none red that did not fail or is optional.  *)
THEOREM ConclusionsRight == Spec => []ConclusionMatchesOutcome
  <1> DEFINE I == TypeInv /\ AllTruthful /\ ConclusionMatchesOutcome
  <1>1. Init => I
    BY DEF Init, TypeInv, TypeOK, ServesMessage, PC, Code, Fault,
       AllTruthful, ConclusionMatchesOutcome
  <1>2. I /\ [Next]_vars => I'
    BY TypeStep, TruthfulStep, ConclusionStep
  <1>3. I => ConclusionMatchesOutcome
    OBVIOUS
  <1> QED
    BY <1>1, <1>2, <1>3, PTL DEF Spec
=============================================================================
