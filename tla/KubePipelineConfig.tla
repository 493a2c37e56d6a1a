-------------------------- MODULE KubePipelineConfig --------------------------
(***************************************************************************)
(* kube-pipeline-config: the interceptor that answers a request with the   *)
(* pipeline configuration of a ConfigMap (pkg/kubepipelineconfig).         *)
(*                                                                         *)
(* Two writers share the cache: the watch goroutine, which applies the     *)
(* events of the labelled ConfigMaps, and every HTTP handler that misses,  *)
(* which fetches the ConfigMap and stores what it fetched.  A ConfigMap is *)
(* the sequence of its versions; a cache entry is a version's number, with *)
(* 0 for no entry.                                                         *)
(***************************************************************************)
EXTENDS Integers, Sequences

CONSTANTS
  Names,         \* keys "name.namespace" of ConfigMaps
  Labelled,      \* those with the label name = pipeline-config-cm
  Handlers,      \* goroutines that may serve a request at the same time
  None,          \* the argument of an idle handler
  BadRequests,   \* kinds of request that fail before Get
  EarlyLoss,     \* whether the watch may break before its first event
  MaxVersions,   \* bound: versions of a ConfigMap
  MaxBoots       \* bound: starts of the process after the first

ASSUME ConstantsAssumption ==
  /\ Labelled \subseteq Names
  /\ None \notin Names
  /\ BadRequests \subseteq {"malformed", "noNamespace", "noName"}
  /\ EarlyLoss \in BOOLEAN
  /\ MaxVersions \in Nat
  /\ MaxBoots \in Nat

VARIABLES
  log,        \* [Names -> Seq(Content)]: the ConfigMap's versions
  pos,        \* [Names -> Nat]: the last version the watch goroutine handled
  fresh,      \* no event has arrived since the watch was started
  cache,      \* [Names -> Nat]: s.cache
  proc,       \* the process: "up", "stopping" (Close was called) or "down"
  boots,      \* how often the process has been started again
  pc,         \* [Handlers -> where the handler is]
  arg,        \* [Handlers -> the ConfigMap it is asked for]
  got,        \* [Handlers -> the version it loaded or fetched]
  code,       \* [Handlers -> the code it is going to answer]
  shadow,     \* history: what the watch alone has made of each entry
  outdated    \* history: names whose entry an outdated Get, or a deletion
              \* the watch never saw, has left behind

handlers == <<pc, arg, got, code>>
history == <<shadow, outdated>>
vars == <<log, pos, fresh, cache, proc, boots, handlers, history>>

(* invalid: no config.yaml, or not the YAML of a Config.                   *)
Content == {"valid", "invalid", "absent"}
PC == {"idle", "load", "reload", "fetch", "store", "merge", "answer"}
(* Both panics are answered 500; they only differ in where they happen.    *)
Code == {"OK", "InvalidArgument", "Internal", "Panic", "MergePanic"}

Goto(h, l) == pc' = [pc EXCEPT ![h] = l]
Latest(n) == IF log[n] = <<>> THEN "absent" ELSE log[n][Len(log[n])]
Running == proc # "down"

(* A watch with an empty resourceVersion starts with an Added event for    *)
(* each ConfigMap there is.                                                *)
StartPos(n) == IF Latest(n) = "absent" THEN Len(log[n]) ELSE Len(log[n]) - 1

-----------------------------------------------------------------------------
Init ==
  /\ log \in [Names -> {<<>>, <<"valid">>}]
  /\ pos = [n \in Names |-> 0]
  /\ fresh = TRUE
  /\ cache = [n \in Names |-> 0]
  /\ proc = "up" /\ boots = 0
  /\ pc = [h \in Handlers |-> "idle"]
  /\ arg = [h \in Handlers |-> None]
  /\ got = [h \in Handlers |-> 0]
  /\ code = [h \in Handlers |-> "OK"]
  /\ shadow = [n \in Names |-> 0]
  /\ outdated = {}

-----------------------------------------------------------------------------
(* The API server: a ConfigMap is created, changed or deleted.             *)
Write(n, content) ==
  /\ Len(log[n]) < MaxVersions
  /\ content = "absent" => Latest(n) # "absent"
  /\ log' = [log EXCEPT ![n] = Append(@, content)]
  /\ UNCHANGED <<pos, fresh, cache, proc, boots, handlers, history>>

-----------------------------------------------------------------------------
(* The watch goroutine.  Events of one ConfigMap arrive in order; those of *)
(* different ConfigMaps touch different entries, in any order.             *)

(* Mutants: a broken file replaces the entry; a deletion is not handled;   *)
(* only a missing entry is stored.                                         *)
Applied_NoParseError(n) ==
  IF log[n][pos[n] + 1] = "absent" THEN 0 ELSE pos[n] + 1

Applied_NoDelete(n) ==
  IF log[n][pos[n] + 1] = "valid" THEN pos[n] + 1 ELSE cache[n]

Applied_LoadOrStore(n) ==
  CASE log[n][pos[n] + 1] = "valid" /\ cache[n] = 0 -> pos[n] + 1
    [] log[n][pos[n] + 1] = "absent" -> 0
    [] OTHER -> cache[n]

(* service.watch: what an event makes of the entry.                        *)
Applied(n) ==
  CASE log[n][pos[n] + 1] = "valid" -> pos[n] + 1
    [] log[n][pos[n] + 1] = "invalid" -> cache[n]
    [] log[n][pos[n] + 1] = "absent" -> 0

WatchEvent(n) ==
  /\ Running
  /\ n \in Labelled
  /\ pos[n] < Len(log[n])
  /\ cache' = [cache EXCEPT ![n] = Applied(n)]
  /\ pos' = [pos EXCEPT ![n] = @ + 1]
  /\ fresh' = FALSE
  /\ IF log[n][pos[n] + 1] = "invalid" THEN UNCHANGED history
     ELSE /\ shadow' = [shadow EXCEPT ![n] =
                          IF log[n][pos[n] + 1] = "valid" THEN pos[n] + 1 ELSE 0]
          /\ outdated' = outdated \ {n}
  /\ UNCHANGED <<log, proc, boots, handlers>>

(* The connection is lost before the first event: WatchFunc turns "latest" *)
(* into "" once more, and what happened in between is not told.  Later     *)
(* losses resume at the last event and lose nothing.                       *)
Reconnect ==
  /\ Running
  /\ EarlyLoss /\ fresh
  /\ pos' = [n \in Names |-> StartPos(n)]
  /\ outdated' = outdated \cup
       {n \in Labelled : cache[n] # shadow[n] /\ cache[n] <= StartPos(n)}
  /\ UNCHANGED <<log, fresh, cache, proc, boots, handlers, shadow>>

(* The process ends; the cache and the requests being served are gone.     *)
Exit ==
  /\ proc' = "down"
  /\ pc' = [h \in Handlers |-> "idle"]
  /\ arg' = [h \in Handlers |-> None]
  /\ got' = [h \in Handlers |-> 0]
  /\ code' = [h \in Handlers |-> "OK"]
  /\ cache' = [n \in Names |-> 0]
  /\ shadow' = [n \in Names |-> 0]
  /\ outdated' = {}
  /\ UNCHANGED <<log, pos, fresh, boots>>

(* The watch expires (410 Gone): the event's Object is a Status, and the   *)
(* assertion that it is a ConfigMap panics outside any handler.            *)
WatchGone ==
  /\ Running
  /\ boots < MaxBoots
  /\ Exit

(* service.Close, when the server shuts down.                              *)
Close ==
  /\ proc = "up"
  /\ boots < MaxBoots
  /\ proc' = "stopping"
  /\ UNCHANGED <<log, pos, fresh, cache, boots, handlers, history>>

(* The stopped watcher closes its channel: the zero event has no Object,   *)
(* and the assertion panics as well.                                       *)
WatchClosed ==
  /\ proc = "stopping"
  /\ Exit

(* main, with service.Start: a new process and a new watch.                *)
Boot ==
  /\ proc = "down"
  /\ proc' = "up"
  /\ boots' = boots + 1
  /\ pos' = [n \in Names |-> StartPos(n)]
  /\ fresh' = TRUE
  /\ UNCHANGED <<log, cache, handlers, history>>

-----------------------------------------------------------------------------
(* interceptor.Process and service.Get.                                    *)

Receive(h) ==
  /\ proc = "up"
  /\ pc[h] = "idle"
  /\ \E n \in Names : arg' = [arg EXCEPT ![h] = n]
  /\ Goto(h, "load")
  /\ UNCHANGED <<log, pos, fresh, cache, proc, boots, got, code, history>>

(* The body is no JSON object, or a parameter is missing or does not       *)
(* evaluate.                                                               *)
ReceiveBad(h) ==
  /\ proc = "up"
  /\ pc[h] = "idle"
  /\ BadRequests # {}
  /\ code' = [code EXCEPT ![h] = "InvalidArgument"]
  /\ Goto(h, "answer")
  /\ UNCHANGED <<log, pos, fresh, cache, proc, boots, arg, got, history>>

(* The two loads: a hit returns the entry, a miss goes on.                 *)
Load(h) ==
  /\ pc[h] \in {"load", "reload"}
  /\ IF cache[arg[h]] # 0
       THEN /\ got' = [got EXCEPT ![h] = cache[arg[h]]]
            /\ Goto(h, "merge")
       ELSE /\ Goto(h, IF pc[h] = "load" THEN "reload" ELSE "fetch")
            /\ UNCHANGED got
  /\ UNCHANGED <<log, pos, fresh, cache, proc, boots, arg, code, history>>

(* Mutant: the error of the API server is not looked at.                   *)
Fetch_NoError(h) ==
  /\ pc[h] = "fetch"
  /\ got' = [got EXCEPT ![h] = IF Latest(arg[h]) = "absent" THEN 0
                               ELSE Len(log[arg[h]])]
  /\ Goto(h, "store")
  /\ UNCHANGED <<log, pos, fresh, cache, proc, boots, arg, code, history>>

(* The API server answers with the version it has now, or with an error.   *)
Fetch(h) ==
  /\ pc[h] = "fetch"
  /\ \/ /\ Latest(arg[h]) = "valid"
        /\ got' = [got EXCEPT ![h] = Len(log[arg[h]])]
        /\ Goto(h, "store")
        /\ UNCHANGED code
     \/ /\ code' = [code EXCEPT ![h] = "Internal"]
        /\ Goto(h, "answer")
        /\ UNCHANGED got
  /\ UNCHANGED <<log, pos, fresh, cache, proc, boots, arg, history>>

(* What was fetched is stored; then the value that is returned is still    *)
(* that of the second load, nil, and the assertion panics.  The Recoverer  *)
(* answers 500.                                                            *)
Store(h) ==
  /\ pc[h] = "store"
  /\ cache' = [cache EXCEPT ![arg[h]] = got[h]]
  /\ outdated' = IF /\ arg[h] \in Labelled
                    /\ got[h] <= pos[arg[h]]
                    /\ got[h] # shadow[arg[h]]
                   THEN outdated \cup {arg[h]}
                   ELSE outdated \ {arg[h]}
  /\ code' = [code EXCEPT ![h] = "Panic"]
  /\ Goto(h, "answer")
  /\ UNCHANGED <<log, pos, fresh, proc, boots, arg, got, shadow>>

(* MergeConfig fails when the request's own configuration is no JSON, and  *)
(* panics on slices the merge by name cannot take (see ConfigChain).       *)
Merge(h) ==
  /\ pc[h] = "merge"
  /\ \E c \in {"OK", "Internal", "MergePanic"} : code' = [code EXCEPT ![h] = c]
  /\ Goto(h, "answer")
  /\ UNCHANGED <<log, pos, fresh, cache, proc, boots, arg, got, history>>

Answer(h) ==
  /\ pc[h] = "answer"
  /\ Goto(h, "idle")
  /\ arg' = [arg EXCEPT ![h] = None]
  /\ got' = [got EXCEPT ![h] = 0]
  /\ code' = [code EXCEPT ![h] = "OK"]
  /\ UNCHANGED <<log, pos, fresh, cache, proc, boots, history>>

-----------------------------------------------------------------------------
HandlerStep(h) ==
  Load(h) \/ Fetch(h) \/ Store(h) \/ Merge(h) \/ Answer(h)

Next ==
  \/ \E n \in Names, content \in Content : Write(n, content)
  \/ \E n \in Names : WatchEvent(n)
  \/ Reconnect
  \/ WatchGone
  \/ Close
  \/ WatchClosed
  \/ Boot
  \/ \E h \in Handlers : Receive(h) \/ ReceiveBad(h) \/ HandlerStep(h)

(* The API server delivers the events, the goroutines run, and a container *)
(* that ended is started again.                                            *)
Fairness ==
  /\ \A n \in Names : WF_vars(WatchEvent(n))
  /\ \A h \in Handlers : WF_vars(HandlerStep(h))
  /\ WF_vars(WatchClosed)
  /\ WF_vars(Boot)

Spec == Init /\ [][Next]_vars /\ Fairness

-----------------------------------------------------------------------------
(* Every variable keeps its type; the cache and the handlers only name     *)
(* versions that exist.                                                    *)
TypeOK ==
  /\ log \in [Names -> Seq(Content)]
  /\ pos \in [Names -> Nat]
  /\ \A n \in Names : pos[n] <= Len(log[n])
  /\ fresh \in BOOLEAN
  /\ cache \in [Names -> Nat]
  /\ \A n \in Names : cache[n] <= Len(log[n])
  /\ proc \in {"up", "stopping", "down"}
  /\ boots \in Nat
  /\ pc \in [Handlers -> PC]
  /\ arg \in [Handlers -> Names \cup {None}]
  /\ got \in [Handlers -> Nat]
  /\ \A h \in Handlers : pc[h] = "store" => got[h] \in 1 .. Len(log[arg[h]])
  /\ code \in [Handlers -> Code]
  /\ shadow \in [Names -> Nat]
  /\ outdated \subseteq Names

(* A configuration that is returned, from the cache or for the cache, is   *)
(* what the ConfigMap of that name contained at some time, well formed.    *)
ReturnedWasContent ==
  \A h \in Handlers :
    pc[h] = "merge" \/ (pc[h] = "answer" /\ code[h] = "OK") =>
      log[arg[h]][got[h]] = "valid"

Current(n) ==
  /\ Latest(n) = "valid" => cache[n] = Len(log[n])
  /\ Latest(n) = "absent" => cache[n] = 0

(* Once the watch has caught up with a labelled ConfigMap, its entry is    *)
(* the ConfigMap's content: no interleaving of handlers and events leaves  *)
(* another one behind, but for a Get that stored what it had fetched       *)
(* before the watch went past it (or a deletion lost in Reconnect).        *)
StaleOnlyByLateFetch ==
  \A n \in Labelled \ outdated :
    Running /\ pos[n] = Len(log[n]) => Current(n)

(* The cache catches up with every labelled ConfigMap, across expired      *)
(* watches and restarts, with the same exception.                          *)
EventuallyCurrent ==
  \A n \in Labelled : <>[](proc = "up" /\ (n \in outdated \/ Current(n)))

-----------------------------------------------------------------------------
(* What the documentation promises.                                        *)

(* The interceptor reads the configuration from the ConfigMap and returns  *)
(* it (docs/kube-pipeline-config.md:7): a Get that fetched a well-formed   *)
(* ConfigMap does not fail.                                                *)
FetchedIsReturned ==
  \A h \in Handlers : code[h] # "Panic"

(* It watches for any further changes (docs/kube-pipeline-config.md:83):   *)
(* the entry of a labelled ConfigMap follows it.                           *)
CaughtUpIsCurrent ==
  \A n \in Labelled : Running /\ pos[n] = Len(log[n]) => Current(n)
=============================================================================
