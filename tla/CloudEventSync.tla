--------------------------- MODULE CloudEventSync ---------------------------
(***************************************************************************)
(* github-status-sync: the interceptor that turns TaskRun cloud events     *)
(* into GitHub check runs (pkg/cloudeventsync, pkg/githubstatussync).      *)
(*                                                                         *)
(* Handlers are the HTTP server's goroutines.  They share the process-wide *)
(* map trss and the counter es, which no lock protects, and they call      *)
(* GitHub between the recording of a status and the answer.  The sender of *)
(* the events (Tekton, through an event listener) and GitHub are external: *)
(* their steps say what the code has to live with.                         *)
(***************************************************************************)
EXTENDS Integers, Sequences, FiniteSets

CONSTANTS
  None,           \* no value: an empty map entry, no check, no reason
  TaskRuns,       \* the TaskRuns that send events, by UID
  Handlers,       \* goroutines that may serve a request at the same time
  Kinds,          \* kinds of TaskRun: "plain"; "optional", with the parameter
                  \* optional-task = "true"; "unconvertible", which ConvertTo
                  \* rejects; "badTemplate", whose url or name annotation
                  \* is no template
  Delivery,       \* order of a TaskRun's events: "serial" (each waits for
                  \* the answer to the one before), "fifo" (each arrives
                  \* after the one before) or "any"
  Reasons,        \* why TaskRuns fail: reason (and message) of the last
                  \* condition; "NoCondition" when there is none
  OtherRequests,  \* requests without a TaskRun that may arrive
  MaxEvents,      \* bound: events a TaskRun sends
  MaxErrors,      \* bound: GitHub calls that return an error
  MaxDuplicates,  \* bound: events the sender delivers again
  MaxCrashes      \* bound: restarts of the process for other reasons

ASSUME ConstantsAssumption ==
  /\ Kinds \subseteq {"plain", "optional", "unconvertible", "badTemplate"}
  /\ Reasons \subseteq {"Cancelled", "CancelledByTimeout", "TimedOut",
                        "Other", "NoCondition"}
  /\ OtherRequests \subseteq {"noCeType", "malformed", "pipelineRun"}
  /\ Delivery \in {"serial", "fifo", "any"}
  /\ MaxEvents \in Nat
  /\ MaxErrors \in Nat
  /\ MaxDuplicates \in Nat
  /\ MaxCrashes \in Nat

VARIABLES
  kind,       \* [TaskRuns -> Kinds]: never changes
  emitted,    \* [TaskRuns -> Seq(Message)]: the events Tekton sent
  inflight,   \* messages on their way to the interceptor
  received,   \* messages that reached a handler at least once
  trss,       \* [TaskRuns -> EventType or None]: the status store
  es,         \* the counter of skipped events
  pc,         \* [Handlers -> where the handler is]
  req,        \* [Handlers -> the message it serves]
  seen,       \* [Handlers -> the value of es it read in es++]
  code,       \* [Handlers -> the code it is going to answer]
  board,      \* [TaskRuns -> the check GitHub shows, or None]
  faults,      \* how many faults have happened, of each kind
  posted,     \* history: <<TaskRun, type>> GitHub has created a check for
  dropped,    \* history: <<TaskRun, type>> recorded but given up
  acked,      \* history: messages answered OK
  skips       \* history: how many times a handler skipped an event

sender == <<kind, emitted, inflight, received>>
process == <<trss, es, pc, req, seen, code>>
history == <<posted, dropped, acked, skips>>
vars == <<sender, process, board, faults, history>>

EventType == {"started", "unknown", "running", "successful", "failed"}
Terminal == {"successful", "failed"}
Message == [tr : TaskRuns, n : 1 .. MaxEvents, type : EventType,
            reason : Reasons \cup {None}]
PC == {"idle", "lookup", "store", "count", "counted", "sync", "post",
       "posted", "answer"}
Fault == {"errors", "duplicates", "crashes"}
Code == {"OK", "InvalidArgument", "Internal"}

ASSUME NoneAssumption == None \notin EventType \cup Reasons \cup Message

Reportable(t) == kind[t] \in {"plain", "optional"}
Busy(h) == pc[h] # "idle"
Quiet == inflight = {} /\ \A h \in Handlers : ~ Busy(h)
Goto(h, l) == pc' = [pc EXCEPT ![h] = l]

-----------------------------------------------------------------------------
(* What is reported: githubstatussync/status.go and conclusion.go.         *)

getStatus(type) ==
  CASE type = "running" -> "in_progress"
    [] type \in Terminal -> "completed"
    [] OTHER -> "queued"

hasOptionalMarker(t) == kind[t] = "optional"

(* Mutant: the switch without its default branch.                          *)
getFailureConclusion_NoDefault(reason) ==
  CASE reason = "Cancelled" -> "cancelled"
    [] reason \in {"CancelledByTimeout", "TimedOut"} -> "timed_out"
    [] OTHER -> ""

getFailureConclusion(reason) ==
  CASE reason = "Cancelled" -> "cancelled"
    [] reason \in {"CancelledByTimeout", "TimedOut"} -> "timed_out"
    [] OTHER -> "failure"

(* Mutant: the optional marker is not looked at.                           *)
resolveConclusion_NoMarker(m) ==
  IF m.type = "successful" THEN "success" ELSE getFailureConclusion(m.reason)

resolveConclusion(m) ==
  IF m.type = "successful" THEN "success"
  ELSE IF hasOptionalMarker(m.tr) THEN "neutral"
  ELSE getFailureConclusion(m.reason)

Status == {"queued", "in_progress", "completed"}
Conclusion == {"success", "neutral", "cancelled", "timed_out", "failure"}
Check ==
  [msg : Message, status : Status, conclusion : Conclusion \cup {None}]

ASSUME NoCheckAssumption == None \notin Conclusion \cup Check

checkRun(m) ==
  [msg |-> m,
   status |-> getStatus(m.type),
   conclusion |-> IF getStatus(m.type) = "completed"
                    THEN resolveConclusion(m) ELSE None]

-----------------------------------------------------------------------------
Init ==
  /\ kind \in [TaskRuns -> Kinds]
  /\ emitted = [t \in TaskRuns |-> <<>>]
  /\ inflight = {} /\ received = {}
  /\ trss = [t \in TaskRuns |-> None]
  /\ es = 0
  /\ pc = [h \in Handlers |-> "idle"]
  /\ req = [h \in Handlers |-> None]
  /\ seen = [h \in Handlers |-> 0]
  /\ code = [h \in Handlers |-> "OK"]
  /\ board = [t \in TaskRuns |-> None]
  /\ faults = [f \in Fault |-> 0]
  /\ posted = {} /\ dropped = {} /\ acked = {} /\ skips = 0

-----------------------------------------------------------------------------
(* The sender.                                                             *)

LastType(t) == IF emitted[t] = <<>> THEN None
               ELSE emitted[t][Len(emitted[t])].type

(* Tekton's lifecycle of a TaskRun: started first, then progress events    *)
(* (one type may repeat: every change of the condition is an event), and   *)
(* one of the terminal events at the end.                                  *)
NextTypes(t) ==
  CASE LastType(t) = None -> {"started"}
    [] LastType(t) \in Terminal -> {}
    [] OTHER -> {"unknown", "running"} \cup Terminal

Emit(t) ==
  /\ Len(emitted[t]) < MaxEvents
  /\ \E type \in NextTypes(t) :
       \E reason \in (IF type = "failed" THEN Reasons ELSE {None}) :
         LET m == [tr |-> t, n |-> Len(emitted[t]) + 1,
                   type |-> type, reason |-> reason]
         IN /\ emitted' = [emitted EXCEPT ![t] = Append(@, m)]
            /\ inflight' = inflight \cup {m}
  /\ UNCHANGED <<kind, received, process, board, faults, history>>

(* The sender retries a delivery whose answer it did not see.  A sender    *)
(* that keeps the order is done with an event before it sends the next.    *)
Redeliver(m) ==
  /\ m \in received \ inflight
  /\ faults["duplicates"] < MaxDuplicates
  /\ Delivery # "any" =>
       \A k \in received : k.tr = m.tr => k.n <= m.n
  /\ inflight' = inflight \cup {m}
  /\ faults' = [faults EXCEPT !["duplicates"] = @ + 1]
  /\ UNCHANGED <<kind, emitted, received, process, board, history>>

Deliverable(m) ==
  /\ Delivery # "any" =>
       \A k \in inflight : k.tr = m.tr => m.n <= k.n
  /\ Delivery = "serial" =>
       \A h \in Handlers : req[h] # None => req[h].tr # m.tr

-----------------------------------------------------------------------------
(* The handler.                                                            *)

(* interceptor.Process up to checkRunStatusChanged.                        *)
Receive(h) ==
  /\ ~ Busy(h)
  /\ \E m \in inflight :
       /\ Deliverable(m)
       /\ req' = [req EXCEPT ![h] = m]
       /\ inflight' = inflight \ {m}
       /\ received' = received \cup {m}
  /\ Goto(h, "lookup")
  /\ UNCHANGED <<kind, emitted, trss, es, seen, code, board, faults, history>>

(* Requests that carry no TaskRun: no Ce-Type header or a body that is no  *)
(* cloud event fail at once; an event of a PipelineRun is no change.       *)
ReceiveOther(h) ==
  /\ ~ Busy(h)
  /\ \E r \in OtherRequests :
       code' = [code EXCEPT ![h] = IF r = "pipelineRun" THEN "OK"
                                                       ELSE "InvalidArgument"]
  /\ req' = [req EXCEPT ![h] = None]
  /\ Goto(h, "answer")
  /\ UNCHANGED <<sender, trss, es, seen, board, faults, history>>

(* Mutants: an entry is enough to skip; nothing is ever skipped.           *)
Lookup_NoComparison(h) ==
  /\ pc[h] = "lookup"
  /\ Goto(h, IF trss[req[h].tr] # None THEN "count" ELSE "store")
  /\ UNCHANGED <<sender, trss, es, req, seen, code, board, faults, history>>

Lookup_NoDedup(h) ==
  /\ pc[h] = "lookup"
  /\ Goto(h, "store")
  /\ UNCHANGED <<sender, trss, es, req, seen, code, board, faults, history>>

(* checkRunStatusChanged: the read of the map and the comparison.          *)
Lookup(h) ==
  /\ pc[h] = "lookup"
  /\ Goto(h, IF trss[req[h].tr] = req[h].type THEN "count" ELSE "store")
  /\ UNCHANGED <<sender, trss, es, req, seen, code, board, faults, history>>

(* Mutants: a changed status is recorded and reported unchanged; a change  *)
(* is counted as a skip.                                                   *)
Store_ReturnsFalse(h) ==
  /\ pc[h] = "store"
  /\ trss' = [trss EXCEPT ![req[h].tr] = req[h].type]
  /\ Goto(h, IF trss[req[h].tr] = None THEN "sync" ELSE "answer")
  /\ UNCHANGED <<sender, es, req, seen, code, board, faults, history>>

Store_Counts(h) ==
  /\ pc[h] = "store"
  /\ trss' = [trss EXCEPT ![req[h].tr] = req[h].type]
  /\ es' = es + 1
  /\ Goto(h, "sync")
  /\ UNCHANGED <<sender, req, seen, code, board, faults, history>>

(* checkRunStatusChanged: the status is recorded, before it is reported.   *)
Store(h) ==
  /\ pc[h] = "store"
  /\ trss' = [trss EXCEPT ![req[h].tr] = req[h].type]
  /\ Goto(h, "sync")
  /\ UNCHANGED <<sender, es, req, seen, code, board, faults, history>>

(* es++ is a read and a write.                                             *)
CountRead(h) ==
  /\ pc[h] = "count"
  /\ seen' = [seen EXCEPT ![h] = es]
  /\ skips' = skips + 1
  /\ Goto(h, "counted")
  /\ UNCHANGED <<sender, trss, es, req, code, board, faults, posted, dropped, acked>>

CountWrite(h) ==
  /\ pc[h] = "counted"
  /\ es' = seen[h] + 1
  /\ seen' = [seen EXCEPT ![h] = 0]
  /\ code' = [code EXCEPT ![h] = "OK"]
  /\ Goto(h, "answer")
  /\ UNCHANGED <<sender, trss, req, board, faults, history>>

Entry(h) == <<req[h].tr, req[h].type>>

(* service.Sync before the call: a TaskRun that cannot be converted is     *)
(* dropped without an error, one with a bad template with an error.        *)
Sync(h) ==
  /\ pc[h] = "sync"
  /\ \/ /\ kind[req[h].tr] = "unconvertible"
        /\ code' = [code EXCEPT ![h] = "OK"]
        /\ dropped' = dropped \cup {Entry(h)}
        /\ Goto(h, "answer")
     \/ /\ kind[req[h].tr] = "badTemplate"
        /\ code' = [code EXCEPT ![h] = "Internal"]
        /\ dropped' = dropped \cup {Entry(h)}
        /\ Goto(h, "answer")
     \/ /\ Reportable(req[h].tr)
        /\ Goto(h, "post")
        /\ UNCHANGED <<code, dropped>>
  /\ UNCHANGED <<sender, trss, es, req, seen, board, faults, posted, acked, skips>>

(* GitHub creates the check run; of the checks of one name it shows the    *)
(* one created last.                                                       *)
CreateCheckRun(h) ==
  /\ pc[h] = "post"
  /\ board' = [board EXCEPT ![req[h].tr] = checkRun(req[h])]
  /\ posted' = posted \cup {Entry(h)}
  /\ Goto(h, "posted")
  /\ UNCHANGED <<sender, trss, es, req, seen, code, faults, dropped, acked, skips>>

(* The call returns to Sync and Sync to Process: with GitHub's answer, or  *)
(* with an error, before or after GitHub created the check run.            *)
CallSucceeds(h) ==
  /\ pc[h] = "posted"
  /\ code' = [code EXCEPT ![h] = "OK"]
  /\ Goto(h, "answer")
  /\ UNCHANGED <<sender, trss, es, req, seen, board, faults, history>>

CallFails(h) ==
  /\ pc[h] \in {"post", "posted"}
  /\ faults["errors"] < MaxErrors
  /\ faults' = [faults EXCEPT !["errors"] = @ + 1]
  /\ code' = [code EXCEPT ![h] = "Internal"]
  /\ dropped' = IF pc[h] = "post" THEN dropped \cup {Entry(h)} ELSE dropped
  /\ Goto(h, "answer")
  /\ UNCHANGED <<sender, trss, es, req, seen, board, posted, acked, skips>>

Answer(h) ==
  /\ pc[h] = "answer"
  /\ acked' = IF req[h] # None /\ code[h] = "OK" THEN acked \cup {req[h]} ELSE acked
  /\ Goto(h, "idle")
  /\ req' = [req EXCEPT ![h] = None]
  /\ code' = [code EXCEPT ![h] = "OK"]
  /\ UNCHANGED <<sender, trss, es, seen, board, faults, posted, dropped, skips>>

-----------------------------------------------------------------------------
(* The process.                                                            *)

(* The process ends and is started again: the globals and the requests     *)
(* being served are gone.                                                  *)
Restart ==
  /\ trss' = [t \in TaskRuns |-> None]
  /\ es' = 0
  /\ pc' = [h \in Handlers |-> "idle"]
  /\ req' = [h \in Handlers |-> None]
  /\ seen' = [h \in Handlers |-> 0]
  /\ code' = [h \in Handlers |-> "OK"]
  /\ dropped' = dropped \cup
       {<<req[h].tr, req[h].type>> : h \in {g \in Handlers : pc[g] \in {"sync", "post"}}}
  /\ skips' = 0
  /\ faults' = [faults EXCEPT !["crashes"] = @ + 1]
  /\ UNCHANGED <<sender, board, posted, acked>>

Crash ==
  /\ faults["crashes"] < MaxCrashes
  /\ Restart

(* Two goroutines in the map at once, one of them writing: the Go runtime  *)
(* may end the process ("concurrent map read and map write").  The other   *)
(* outcomes are the interleavings of Lookup and Store.                     *)
MapRace ==
  /\ \E g, h \in Handlers :
       g # h /\ pc[g] = "store" /\ pc[h] \in {"lookup", "store"}
  /\ Restart

HandlerStep(h) ==
  \/ Lookup(h) \/ Store(h) \/ CountRead(h) \/ CountWrite(h)
  \/ Sync(h) \/ CreateCheckRun(h) \/ CallSucceeds(h) \/ CallFails(h)
  \/ Answer(h)

Next ==
  \/ \E t \in TaskRuns : Emit(t)
  \/ \E m \in received : Redeliver(m)
  \/ \E h \in Handlers : Receive(h) \/ ReceiveOther(h) \/ HandlerStep(h)
  \/ Crash
  \/ MapRace

(* Goroutines are scheduled, and GitHub answers or the call fails.  The    *)
(* server starts a goroutine for every request, so a message on its way    *)
(* never waits for Handlers, a bound of the model: strong fairness.        *)
Fairness ==
  /\ \A h \in Handlers : WF_vars(HandlerStep(h))
  /\ SF_vars(\E h \in Handlers : Receive(h))

Spec == Init /\ [][Next]_vars /\ Fairness

-----------------------------------------------------------------------------
(* Properties for every order of delivery.                                 *)

(* Every variable keeps its type, whatever interleaving of handlers,       *)
(* duplicates, failed calls and restarts.                                  *)
TypeOK ==
  /\ kind \in [TaskRuns -> Kinds]
  /\ emitted \in [TaskRuns -> Seq(Message)]
  /\ inflight \subseteq Message /\ received \subseteq Message
  /\ trss \in [TaskRuns -> EventType \cup {None}]
  /\ es \in Nat /\ skips \in Nat
  /\ pc \in [Handlers -> PC]
  /\ req \in [Handlers -> Message \cup {None}]
  /\ seen \in [Handlers -> Nat]
  /\ code \in [Handlers -> Code]
  /\ board \in [TaskRuns -> Check \cup {None}]
  /\ faults \in [Fault -> Nat]
  /\ posted \subseteq TaskRuns \X EventType
  /\ dropped \subseteq TaskRuns \X EventType
  /\ acked \subseteq Message

Pending(e) == \E h \in Handlers : pc[h] \in {"sync", "post"} /\ Entry(h) = e
AccountedFor(e) == e \in posted \/ e \in dropped \/ Pending(e)

(* A status in trss, on the strength of which later events are skipped,    *)
(* is one GitHub has, one a handler is about to post, or one whose sync    *)
(* was given up.                                                           *)
RecordedIsAccountedFor ==
  \A t \in TaskRuns : trss[t] # None => AccountedFor(<<t, trss[t]>>)

(* An event answered OK, posted or skipped, is one of a status GitHub has, *)
(* or will get from another handler, or whose sync was given up.           *)
AckedIsAccountedFor ==
  \A m \in acked : AccountedFor(<<m.tr, m.type>>)

(* Racing increments of es lose counts and never invent one.               *)
CounterNeverExceedsSkips == es <= skips

(* GitHub never shows a required TaskRun green that did not succeed, nor   *)
(* red a TaskRun that did not fail or that is optional.                    *)
ConclusionMatchesOutcome ==
  \A t \in TaskRuns : board[t] # None =>
    /\ board[t].conclusion \in {"success", "neutral"} =>
         LastType(t) = "successful" \/ (LastType(t) = "failed" /\ kind[t] = "optional")
    /\ board[t].conclusion \in {"failure", "cancelled", "timed_out"} =>
         LastType(t) = "failed" /\ kind[t] = "plain"

-----------------------------------------------------------------------------
(* Properties when a TaskRun's events come one after the other answered.   *)

(* An event answered OK is the one GitHub shows, by its type, until the    *)
(* next event, unless its sync was given up.                               *)
AckedIsShown ==
  \A t \in TaskRuns :
    emitted[t] # <<>> =>
      LET m == emitted[t][Len(emitted[t])]
      IN m \in acked => \/ <<t, m.type>> \in dropped
                        \/ board[t] # None /\ board[t].msg.type = m.type

(* While nothing fails and the process lives, GitHub never gets the status *)
(* it already shows once more.                                             *)
NoCheckRepeated ==
  [][\A h \in Handlers :
       /\ pc[h] = "post" /\ pc'[h] = "posted"
       /\ dropped = {} /\ faults["crashes"] = 0
       => LET check == board[req[h].tr]
          IN check # None => check.msg.type # req[h].type]_vars

(* A TaskRun that has ended is eventually shown so, unless a call failed   *)
(* or the process ended meanwhile.                                         *)
EndIsShown ==
  \A t \in TaskRuns :
    Reportable(t) /\ LastType(t) \in Terminal ~>
      \/ board[t] # None /\ board[t].msg.type = LastType(t)
      \/ faults["errors"] > 0 \/ faults["crashes"] > 0

-----------------------------------------------------------------------------
(* What the documentation promises (docs/github-status-sync.md:12-15).     *)

(* A status answered OK has been posted: the sender need not send it       *)
(* again.  The code records a status before it posts it (l. 44, 47, 64).   *)
AckedIsPosted ==
  \A m \in acked :
    Reportable(m.tr) =>
      <<m.tr, m.type>> \in posted \/ Pending(<<m.tr, m.type>>)

(* When every event has been answered and nothing failed, GitHub shows the *)
(* TaskRun's last status.                                                  *)
SettledBoardIsCurrent ==
  Quiet /\ faults["errors"] = 0 /\ faults["crashes"] = 0 =>
    \A t \in TaskRuns :
      Reportable(t) /\ emitted[t] # <<>> =>
        board[t] # None /\ board[t].msg.type = LastType(t)
=============================================================================
