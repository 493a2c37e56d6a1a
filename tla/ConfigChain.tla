------------------------------ MODULE ConfigChain ------------------------------
(***************************************************************************)
(* The configuration of a request along the chain of interceptors: kube-   *)
(* pipeline-config puts the central one (ConfigMap) into the request,      *)
(* github-pipeline-config merges the local one (.tekton.yaml) into it      *)
(* (Config.Merge), pipeline-config-trigger builds PipelineRuns from the    *)
(* result (PipelineBuild).  config-validator does the same with two files. *)
(* Between interceptors the configuration is JSON, so no memory is shared. *)
(***************************************************************************)
EXTENDS PipelineBuild

CONSTANTS
  Shapes,           \* sequences: how many pipelines each central trigger has
  Overlaid,         \* the shapes with which local configurations are combined
  Locals,           \* local configurations
  Filters,          \* what the filter of a central trigger may evaluate to
  DefaultChoices,   \* what the central defaults may contain
  TriggerChoices,   \* what a central trigger's defaults may contain
  PipelineChoices   \* what a central pipeline may contain

(* What a part contains, before its values are named.                      *)
Choice == [timeouts : BOOLEAN, items : Seq([name : Names, set : BOOLEAN]),
           label : Label, spare : Nat, bare : BOOLEAN, params : Seq(Param)]
Choices == DefaultChoices \cup TriggerChoices \cup PipelineChoices

ASSUME ChoicesAssumption ==
  /\ Choices \subseteq Choice
  /\ Filters \subseteq {"yes", "no", "error"}
  /\ Shapes \subseteq Seq(Nat) /\ Overlaid \subseteq Shapes

Trigger == [name : Nat, filter : {"yes", "no", "error", None},
            defaults : Content, pipelines : Seq(Content)]
Config == [defaults : Content, triggers : Seq(Trigger)]

ASSUME LocalsAssumption == Locals \subseteq Config

VARIABLES
  central,   \* the configuration in the ConfigMap; its triggers are numbered
  local,     \* that of the repository; None when the chain has no such
             \* interceptor
  ext,       \* the configuration in the request's extensions
  fault      \* "none", "failed", "cold" or "noResponse" (history)

sources == <<central, local>>
vars == <<mode, config, progress, sources, ext, fault>>

(* A choice with every value named by its source.                          *)
Decoded(p, c) ==
  [timeouts |-> IF c.timeouts THEN p ELSE None, label |-> c.label,
   items |-> [i \in DOMAIN c.items |->
                [name |-> c.items[i].name,
                 val |-> IF c.items[i].set THEN <<p, i>> ELSE None]],
   spare |-> c.spare, bare |-> c.bare, params |-> c.params]

EmptyPart == [timeouts |-> None, label |-> None, items |-> <<>>, spare |-> 0,
              bare |-> FALSE, params |-> <<>>]
EmptyConfig == [defaults |-> EmptyPart, triggers |-> <<>>]

(* The validator's central triggers match no request, which is nothing to  *)
(* it.                                                                     *)
Init ==
  /\ mode \in {"trigger", "validator"}
  /\ \E shape \in Shapes :
       /\ \E d \in DefaultChoices,
             fs \in [DOMAIN shape -> IF mode = "validator" THEN {"no"} ELSE Filters],
             ts \in [DOMAIN shape -> TriggerChoices],
             ps \in [UNION {{<<t, k>> : k \in 1 .. shape[t]} : t \in DOMAIN shape}
                       -> PipelineChoices] :
            central =
              [defaults |-> Decoded(<<"central", 0, 0>>, d),
               triggers |-> [t \in DOMAIN shape |->
                 [name |-> t, filter |-> fs[t],
                  defaults |-> Decoded(<<"central", t, 0>>, ts[t]),
                  pipelines |-> [k \in 1 .. shape[t] |->
                                   Decoded(<<"central", t, k>>, ps[<<t, k>>])]]]]
       /\ local \in IF shape \in Overlaid THEN Locals
                    ELSE IF mode = "validator" THEN {EmptyConfig} ELSE {None}
  /\ BuildInit
  /\ pc = "central" /\ ext = EmptyConfig /\ fault = "none"

-----------------------------------------------------------------------------
(* Config.Merge.  WithOverride: what is given later wins.                  *)
(* The triggers, and the lists in defaults, are merged by name unless the  *)
(* destination is nil.                                                     *)
MergeLists(a, b) ==
  IF a = <<>> THEN [ok |-> TRUE, items |-> b]
  ELSE Transformer(Alone(a), b)

(* InterceptorRequest.MergeConfig; not ok is a panic.                      *)
MergeConfig(c, s) ==
  LET items == MergeLists(c.defaults.items, s.defaults.items)
      triggers == MergeLists(c.triggers, s.triggers)
  IN [ok |-> ~ c.defaults.bare /\ items.ok /\ triggers.ok,
      cfg |-> [defaults |-> [timeouts |-> Later(c.defaults.timeouts, s.defaults.timeouts),
                             label |-> Later(c.defaults.label, s.defaults.label),
                             items |-> items.items,
                             spare |-> IF items.items = s.defaults.items
                                         THEN s.defaults.spare ELSE c.defaults.spare,
                             bare |-> s.defaults.bare,
                             params |-> c.defaults.params \o s.defaults.params],
               triggers |-> triggers.items]]

Extend(s, next) ==
  LET m == MergeConfig(ext, s)
  IN IF m.ok THEN ext' = m.cfg /\ pc' = next /\ UNCHANGED <<outcome, handed>>
             ELSE Finish("panic") /\ UNCHANGED ext

(* kube-pipeline-config, or the validator's --config-default.              *)
ReadCentral ==
  /\ pc = "central"
  /\ Extend(central, IF local = None THEN "load" ELSE "local")
  /\ UNCHANGED <<mode, config, job, step, run, built, sources, fault>>

(* The configuration is not in the cache of kube-pipeline-config: Get does *)
(* fetch it, and panics then (see KubePipelineConfig).                     *)
ColdGet ==
  /\ pc = "central" /\ mode = "trigger" /\ Finish("panic") /\ fault' = "cold"
  /\ UNCHANGED <<mode, config, job, step, run, built, sources, ext>>

(* github-pipeline-config, or --config-local.                              *)
ReadLocal ==
  /\ pc = "local"
  /\ Extend(local, "load")
  /\ UNCHANGED <<mode, config, job, step, run, built, sources, fault>>

(* A parameter is missing, the configuration is not there or malformed.    *)
ReadFails ==
  /\ pc \in {"central", "local"} /\ Finish("error") /\ fault' = "failed"
  /\ UNCHANGED <<mode, config, job, step, run, built, sources, ext>>

(* GitHub gives no response, and the error path reads its status.          *)
NoResponse ==
  /\ pc = "local" /\ mode = "trigger" /\ Finish("panic") /\ fault' = "noResponse"
  /\ UNCHANGED <<mode, config, job, step, run, built, sources, ext>>

(* pipeline-config-trigger decodes what is in the extensions.              *)
Decode ==
  /\ pc = "load" /\ Load(ext)
  /\ UNCHANGED <<mode, sources, ext, fault>>

Next ==
  \/ ReadCentral \/ ColdGet \/ ReadLocal \/ ReadFails \/ NoResponse \/ Decode
  \/ Build /\ UNCHANGED <<mode, sources, ext, fault>>

Spec == Init /\ [][Next]_vars

-----------------------------------------------------------------------------
(* Every variable keeps its type; a PipelineRun never has a parameter      *)
(* without a value.                                                        *)
TypeOK ==
  /\ BuildTypeOK /\ handed \in Nat
  /\ pc \in {"central", "local", "load", "filter", "merge", "reconcile", "end"}
  /\ ext \in Config
  /\ fault \in {"none", "failed", "cold", "noResponse"}

Loaded == job # <<0, 0>>
Named(c, n) ==
  IF n \in NamesIn(c.triggers)
    THEN c.triggers[CHOOSE i \in DOMAIN c.triggers : c.triggers[i].name = n]
    ELSE [name |-> n, filter |-> None, defaults |-> EmptyPart, pipelines |-> <<>>]
LocalWellNamed == Distinct(local.triggers) /\ Distinct(local.defaults.items)

(* What the repository adds to the central configuration, however its lists*)
(* are ordered: triggers are matched by name, central ones keep their      *)
(* place, and each list of a trigger is that of one configuration; the     *)
(* lists of the common defaults have what either gives.  Parameters of the *)
(* defaults are joined whatever their names, so that a local one does not  *)
(* override a central one (see AsExpected).                                *)
MergedByName ==
  Loaded /\ local # None /\ LocalWellNamed /\ Distinct(central.defaults.items) =>
    /\ Distinct(ext.triggers)
    /\ NamesIn(ext.triggers) = NamesIn(central.triggers) \cup NamesIn(local.triggers)
    /\ \A i \in DOMAIN central.triggers : ext.triggers[i].name = i
    /\ \A i \in DOMAIN ext.triggers :
         LET t == ext.triggers[i]
             c == Named(central, t.name)
             l == Named(local, t.name)
         IN /\ t.filter = LastGiven(<<c.filter, l.filter>>)
            /\ t.pipelines = IF l.pipelines # <<>> THEN l.pipelines ELSE c.pipelines
            /\ t.defaults.timeouts = LastGiven(<<c.defaults.timeouts, l.defaults.timeouts>>)
            /\ t.defaults.label = LastGiven(<<c.defaults.label, l.defaults.label>>)
            /\ t.defaults.params =
                 IF l.defaults.params # <<>> THEN l.defaults.params ELSE c.defaults.params
    /\ ext.defaults.params = central.defaults.params \o local.defaults.params
    /\ ext.defaults.label = LastGiven(<<central.defaults.label, local.defaults.label>>)
    /\ NamesIn(ext.defaults.items) =
         NamesIn(central.defaults.items) \cup NamesIn(local.defaults.items)
    /\ \A n \in NamesIn(ext.defaults.items) :
         ValueIn(ext.defaults.items, n) =
           LastGiven(<<ValueIn(central.defaults.items, n), ValueIn(local.defaults.items, n)>>)

(* The request ends as its configurations say, independent of what is      *)
(* shared but for a parameter evaluated twice: all pipelines of matching   *)
(* triggers are built, or an interceptor, a filter, the metadata or a      *)
(* parameter fails, or a merge panics.  Before the build, only a cold      *)
(* cache, a lost response or what is merged panics.                        *)
OutcomeIsExplained ==
  /\ outcome = "OK" =>
       /\ fault = "none" /\ {built[i].job : i \in DOMAIN built} = Jobs
       /\ mode = "trigger" =>
            /\ \A t \in DOMAIN filter : filter[t] # "error"
            /\ \A j \in Jobs : ~ Unevaluable(j)
  /\ outcome = "error" =>
       \/ fault = "failed"
       \/ /\ mode = "trigger" /\ Loaded
          /\ IF job[2] = 0 THEN filter[job[1]] = "error" ELSE Unevaluable(job)
  /\ outcome = "panic" /\ ~ Loaded =>
       fault \in {"cold", "noResponse"} \/ central.defaults.bare \/ ~ LocalWellNamed

(* PipelineRuns are created only when the request goes through as a whole: *)
(* when no interceptor failed and no filter, merge, metadata or parameter  *)
(* of any matching trigger fails, however late it comes and whatever was   *)
(* built before; then there is one for each pipeline, in their order.      *)
AllOrNothing ==
  handed > 0 =>
    /\ mode = "trigger" /\ fault = "none" /\ handed = Len(built)
    /\ {built[i].job : i \in 1 .. handed} = Jobs
    /\ \A i, k \in 1 .. handed : i < k => Before(built[i].job, built[k].job)
    /\ \A t \in DOMAIN filter : filter[t] # "error"
    /\ \A j \in Jobs : ~ Unevaluable(j) /\ (Panics(j) => Renamed(j))
=============================================================================
