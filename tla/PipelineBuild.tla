----------------------------- MODULE PipelineBuild -----------------------------
(***************************************************************************)
(* Config.PipelineRuns (pkg/pipelineconfig): how a configuration becomes   *)
(* the PipelineRuns of a request.  For each pipeline of each trigger whose *)
(* filter matches, the common defaults, the trigger's defaults and the     *)
(* pipeline are merged, in this order, into an empty PipelineRun, its      *)
(* parameters are evaluated, and a copy of it is handed out                *)
(* (pkg/pipelinemerge, pkg/pipelinerun).  config-validator does the same   *)
(* without filters and without evaluation.  ConfigChain says where the     *)
(* configuration comes from.                                               *)
(*                                                                         *)
(* The merge shares memory: what is nil in the PipelineRun takes over the  *)
(* pointer or the array of the part that is merged, and later merges write *)
(* through it.  The model keeps who shares what.  A value is named by its  *)
(* source: the configuration that gave it, the part and the place there.   *)
(***************************************************************************)
EXTENDS Integers, Sequences, FiniteSets, TLC

CONSTANTS
  Names,    \* names of the elements of a named slice (workspaces), of params
  None      \* nil

ASSUME NoneAssumption == None \notin Nat \X Nat

VARIABLES
  mode,       \* who builds: "trigger" or "validator"
  filter,     \* [triggers -> {"yes", "no", "error"}]: what they evaluate to
  orig,       \* the configuration as it was loaded; never changes
  mem,        \* the configuration in memory
  pc,         \* "filter", "merge", "reconcile", "end"; before, see ConfigChain
  job,        \* <<t, k>>: the pipeline that is built, or the trigger's filter
  step,       \* the part that is merged next
  run,        \* tr, the PipelineRun that is built
  built,      \* prs, the PipelineRuns that are finished
  outcome,    \* "open", "OK", "error" or "panic" (the Recoverer's 500)
  handed      \* how many of built the trigger's service was given to create

progress == <<pc, job, step, run, built, outcome, handed>>
config == <<filter, orig, mem>>

(* A configuration has defaults and a sequence of triggers; a trigger has a*)
(* name, a filter, defaults and a sequence of pipelines.  Its parts: <<0,  *)
(* 0>> is c.Defaults, <<t, 0>> the defaults of trigger t and <<t, k>> its  *)
(* k-th pipeline.  A part has timeouts, a pointer; label, the value of one *)
(* key of the maps in its metadata; items, a slice of structs with names;  *)
(* spare, the capacity left in its array; bare, whether a slice of structs *)
(* that have no Name (taskRunSpecs) has elements; and params, a slice of   *)
(* pointers to parameters, each with a name and a value.                   *)
PartsOf(c) ==
  {<<0, 0>>} \cup
    UNION {{<<t, k>> : k \in 0 .. Len(c.triggers[t].pipelines)} : t \in DOMAIN c.triggers}
Part(c, p) ==
  IF p = <<0, 0>> THEN c.defaults
  ELSE IF p[2] = 0 THEN c.triggers[p[1]].defaults ELSE c.triggers[p[1]].pipelines[p[2]]
Parts == DOMAIN mem

(* Mutant: the trigger's defaults come last.                               *)
Sources_Swapped(j) == << <<0, 0>>, j, <<j[1], 0>> >>

Sources(j) == << <<0, 0>>, <<j[1], 0>>, j >>

EmptyRun ==
  [timeouts |-> None,   \* the part whose Timeouts it points to
   label |-> None,      \* in a map of its own
   items |-> <<>>,      \* its named slice
   array |-> None,      \* the part whose array that slice still uses
   room |-> 0,          \* and the capacity left there
   bare |-> FALSE,      \* whether its slice without names has elements
   params |-> <<>>]     \* pointers <<part, index>>

BuildInit ==
  /\ filter = <<>> /\ orig = <<>> /\ mem = <<>>
  /\ job = <<0, 0>> /\ step = 1
  /\ run = EmptyRun /\ built = <<>> /\ outcome = "open" /\ handed = 0

(* The configuration c is decoded; a trigger without a filter has one that *)
(* does not parse.                                                         *)
Load(c) ==
  /\ orig' = [p \in PartsOf(c) |-> Part(c, p)] /\ mem' = orig'
  /\ filter' = [t \in DOMAIN c.triggers |->
                  IF c.triggers[t].filter = None THEN "error" ELSE c.triggers[t].filter]
  /\ pc' = "filter" /\ job' = <<1, 0>>
  /\ UNCHANGED <<step, run, built, outcome, handed>>

-----------------------------------------------------------------------------
(* sliceMergeTransformer: the merge of a named slice into one that is not  *)
(* nil.  Its state s: items, the slice; refs; shared and room, whether it  *)
(* still uses the array of the part it came from; store, the elements      *)
(* visible there; ok, no index out of range so far.                        *)

refsFor(items) ==
  [n \in {items[i].name : i \in DOMAIN items} |->
     CHOOSE i \in DOMAIN items :
       /\ items[i].name = n
       /\ \A j \in DOMAIN items : items[j].name = n => j <= i]

(* Mutant: empty fields override too.                                      *)
Override_WithEmpty(dst, src) == src

(* mergo.Merge of two elements with WithOverride: empty fields do not      *)
(* override.  The name does, which differs if the wrong element is         *)
(* addressed.                                                              *)
Override(dst, src) ==
  IF src.val = None THEN [dst EXCEPT !.name = src.name] ELSE src

(* The defaults of two triggers are merged without the transformer, so that*)
(* lists replace lists.                                                    *)
Later(a, b) == IF b = None THEN a ELSE b
LaterList(a, b) == IF b = <<>> THEN a ELSE b

MergePart(d, s) ==
  [timeouts |-> Later(d.timeouts, s.timeouts),
   label |-> Later(d.label, s.label),
   items |-> LaterList(d.items, s.items),
   spare |-> IF s.items = <<>> THEN d.spare ELSE s.spare,
   bare |-> d.bare \/ s.bare,
   params |-> LaterList(d.params, s.params)]

(* Mutant: the later trigger is taken as it is.                            *)
MergeTrigger_Replaces(d, s) == s

(* mergo.Merge of two triggers.  The name 0 stands for none.               *)
MergeTrigger(d, s) ==
  [name |-> IF s.name = 0 THEN d.name ELSE s.name,
   filter |-> Later(d.filter, s.filter),
   defaults |-> MergePart(d.defaults, s.defaults),
   pipelines |-> LaterList(d.pipelines, s.pipelines)]

(* The elements of a slice are triggers or items.                          *)
merge(dst, src) ==
  IF "pipelines" \in DOMAIN src THEN MergeTrigger(dst, src) ELSE Override(dst, src)

mergeElement(s, i, el) ==
  LET written(items) == [items EXCEPT ![i] = merge(items[i], el)]
  IN IF i > Len(s.items) THEN [s EXCEPT !.ok = FALSE]
     ELSE [s EXCEPT !.items = written(s.items),
                    !.store = IF s.shared /\ i <= Len(s.store)
                                THEN written(s.store) ELSE s.store]

appendElement(s, el) ==
  [s EXCEPT !.items = Append(@, el),
            !.shared = @ /\ s.room > 0,
            !.room = IF s.room > 0 THEN @ - 1 ELSE 0]

(* mergeRefs: a new name is noted with its index in src (not in dst).      *)
mergeRefs(s, i, el) ==
  IF ~ s.ok THEN s
  ELSE IF el.name \in DOMAIN s.refs THEN mergeElement(s, s.refs[el.name], el)
  ELSE [appendElement(s, el) EXCEPT
          !.refs = [n \in DOMAIN @ \cup {el.name} |-> IF n = el.name THEN i ELSE @[n]]]

(* The loop over src: its state after each element.                        *)
Loop(s, src) ==
  LET f[i \in 0 .. Len(src)] ==
        IF i = 0 THEN s ELSE mergeRefs(f[i - 1], i, src[i])
  IN f

(* The merge of items, whose array may be shared and has room, with src;   *)
(* and that of a slice in memory of its own.                               *)
Begun(items, shared, room, store) ==
  [items |-> items, refs |-> refsFor(items), ok |-> TRUE,
   shared |-> shared, room |-> room, store |-> store]
Alone(items) == Begun(items, FALSE, 0, <<>>)
Transformer(s, src) == Loop(s, src)[Len(src)]

-----------------------------------------------------------------------------
(* Mutant: what was built before an error is created all the same.         *)
Finish_Partly(o) ==
  /\ pc' = "end" /\ outcome' = o
  /\ handed' = IF mode = "trigger" THEN Len(built) ELSE 0

(* The end of the request: PipelineRuns returns all or nothing, and what it*)
(* returns is what interceptor.Process has created (see PipelineTrigger).  *)
Finish(o) ==
  /\ pc' = "end" /\ outcome' = o
  /\ handed' = IF mode = "trigger" /\ o = "OK" THEN Len(built) ELSE 0

(* Mutant: a filter that fails is one that does not match.                 *)
Verdict_ErrorSkips(t) ==
  IF mode = "validator" THEN "yes"
  ELSE IF filter[t] = "error" THEN "no" ELSE filter[t]

(* Mutant: the validator looks at filters.                                 *)
Verdict_Always(t) == filter[t]

(* TriggerFilter.Match; the validator looks at no filter.                  *)
Verdict(t) == IF mode = "validator" THEN "yes" ELSE filter[t]

(* The loop over the triggers, and its end.                                *)
Match ==
  /\ pc = "filter"
  /\ IF job[1] > Len(filter)
       THEN Finish("OK") /\ UNCHANGED <<job, step, run>>
     ELSE IF Verdict(job[1]) = "error"
       THEN Finish("error") /\ UNCHANGED <<job, step, run>>
     ELSE /\ IF Verdict(job[1]) = "yes" /\ <<job[1], 1>> \in Parts
               THEN job' = <<job[1], 1>> /\ pc' = "merge"
               ELSE job' = <<job[1] + 1, 0>> /\ pc' = "filter"
          /\ step' = 1 /\ run' = EmptyRun
          /\ UNCHANGED <<outcome, handed>>
  /\ UNCHANGED <<filter, orig, mem, built>>

(* PipelineRun.Merge of one source into tr.  Timeouts: a nil pointer is    *)
(* taken over, another one is written through.  Items: a nil slice is taken*)
(* over with its array.  A map is copied, key by key.  Pointers of params  *)
(* are appended, whatever their names.  A slice whose structs have no Name *)
(* panics once it has elements, whatever is merged into it.                *)
MergeInto(p, m) ==
  /\ run' = [timeouts |-> IF run.timeouts = None /\ mem[p].timeouts # None
                            THEN p ELSE run.timeouts,
             label |-> Later(run.label, mem[p].label),
             items |-> m.items,
             array |-> IF run.items = <<>> /\ mem[p].items # <<>> THEN p
                       ELSE IF m.shared THEN run.array ELSE None,
             room |-> IF run.items = <<>> THEN mem[p].spare ELSE m.room,
             bare |-> mem[p].bare,
             params |-> run.params \o
                          [i \in DOMAIN mem[p].params |-> <<p, i>>]]
  /\ mem' = [q \in Parts |->
               [mem[q] EXCEPT
                  !.timeouts = IF run.timeouts = q /\ mem[p].timeouts # None
                                 THEN mem[p].timeouts ELSE @,
                  !.items = IF run.array = q THEN m.store ELSE @]]

(* What the slice of tr becomes when that of p is merged into it.          *)
Merged(p) ==
  IF run.items = <<>>
    THEN [items |-> mem[p].items, ok |-> TRUE, shared |-> FALSE,
          room |-> 0, store |-> <<>>]
    ELSE Transformer(Begun(run.items, run.array # None, run.room,
                           IF run.array = None THEN <<>> ELSE mem[run.array].items),
                     mem[p].items)

Merge ==
  /\ pc = "merge"
  /\ LET p == Sources(job)[step]
         m == Merged(p)
     IN IF run.bare \/ ~ m.ok
          THEN Finish("panic") /\ UNCHANGED <<mem, step, run>>
          ELSE /\ MergeInto(p, m)
               /\ step' = step + 1
               /\ pc' = IF step = 3 THEN "reconcile" ELSE "merge"
               /\ UNCHANGED <<outcome, handed>>
  /\ UNCHANGED <<filter, orig, job, built>>

(* Mutant: text that is no expression has no value.                        *)
SafeValueOf_NoFallback(v) ==
  CASE v = "text" -> None
    [] v = "expr" -> "text"
    [] v = "nested" -> "expr"
    [] v = "poison" -> "undefined"

(* CelResolver.SafeValueOf: text that is no expression stands for itself;  *)
(* nested and poison are expressions whose value is one again, poison's    *)
(* not one of this request; undefined does not evaluate.                   *)
Evaluates(v) == v # "undefined"
SafeValueOf(v) ==
  CASE v = "text" -> "text"
    [] v = "expr" -> "text"
    [] v = "nested" -> "expr"
    [] v = "poison" -> "undefined"

(* The validator does not evaluate.                                        *)
Evaluated(v) == IF mode = "validator" THEN v ELSE SafeValueOf(v)

(* Param.Reconcile: the value, not the name.                               *)
Resolved(param) == [param EXCEPT !.val = Evaluated(@)]

Value(q) == mem[q[1]].params[q[2]]
Pointed(q) == \E i \in DOMAIN run.params : run.params[i] = q

(* The run's metadata or a parameter does not evaluate.                    *)
Unresolved ==
  \/ run.label # None /\ ~ Evaluates(run.label)
  \/ \E i \in DOMAIN run.params : ~ Evaluates(Value(run.params[i]).val)

(* Metadata.Reconcile writes to the map of tr, Params.Reconcile writes the *)
(* values through the pointers; PipelineRun() copies what tr holds; the    *)
(* loop goes on with the next pipeline.                                    *)
Reconcile ==
  /\ pc = "reconcile"
  /\ IF mode = "trigger" /\ Unresolved
       THEN Finish("error") /\ UNCHANGED <<mem, job, step, run, built>>
       ELSE /\ mem' = [p \in Parts |-> [mem[p] EXCEPT !.params =
                         [i \in DOMAIN @ |->
                            IF Pointed(<<p, i>>) THEN Resolved(@[i]) ELSE @[i]]]]
            /\ built' = Append(built,
                 [job |-> job,
                  timeouts |-> IF run.timeouts = None THEN None
                               ELSE mem[run.timeouts].timeouts,
                  label |-> IF run.label = None THEN None ELSE Evaluated(run.label),
                  items |-> run.items,
                  params |-> [i \in DOMAIN run.params |-> Resolved(Value(run.params[i]))]])
            /\ LET next == <<job[1], job[2] + 1>>
               IN IF next \in Parts
                    THEN job' = next /\ pc' = "merge"
                    ELSE job' = <<job[1] + 1, 0>> /\ pc' = "filter"
            /\ step' = 1 /\ run' = EmptyRun
            /\ UNCHANGED <<outcome, handed>>
  /\ UNCHANGED <<filter, orig>>

Build == Match \/ Merge \/ Reconcile

-----------------------------------------------------------------------------
(* What a configuration holds.  A value comes from the central or the local*)
(* configuration.                                                          *)
Source == {"central", "local"} \X Nat \X Nat
Item == [name : Names, val : (Source \X Nat) \cup {None}]
ParamValue == {"text", "expr", "nested", "poison", "undefined"}
Param == [name : Names, val : ParamValue]
Label == ParamValue \cup {None}
Content == [timeouts : Source \cup {None}, label : Label, items : Seq(Item),
            spare : Nat, bare : BOOLEAN, params : Seq(Param)]

BuildTypeOK ==
  /\ mode \in {"trigger", "validator"}
  /\ orig \in [Parts -> Content] /\ mem \in [Parts -> Content]
  /\ job \in Nat \X Nat /\ step \in 1 .. 4
  /\ run \in [timeouts : Parts \cup {None}, label : Label, items : Seq(Item),
              array : Parts \cup {None}, room : Nat, bare : BOOLEAN,
              params : Seq(Parts \X Nat)]
  /\ built \in Seq([job : Parts, timeouts : Source \cup {None}, label : Label,
                    items : Seq(Item), params : Seq(Param)])
  /\ outcome \in {"open", "OK", "error", "panic"}

-----------------------------------------------------------------------------
(* What a PipelineRun should be, from the configuration alone.             *)

(* Of the values given for something by the sources, the last.             *)
LastGiven(vals) ==
  LET given == {i \in DOMAIN vals : vals[i] # None}
  IN IF given = {} THEN None
     ELSE vals[CHOOSE i \in given : \A j \in given : j <= i]

NamesIn(items) == {items[i].name : i \in DOMAIN items}
Distinct(items) ==
  \A i, j \in DOMAIN items : items[i].name = items[j].name => i = j
ValueIn(items, n) ==
  LET at == {i \in DOMAIN items : items[i].name = n}
  IN IF at = {} THEN None ELSE items[CHOOSE i \in at : TRUE].val

ExpectedTimeouts(j) ==
  LastGiven([i \in 1 .. 3 |-> orig[Sources(j)[i]].timeouts])
GivenLabel(j) == LastGiven([i \in 1 .. 3 |-> orig[Sources(j)[i]].label])
ExpectedLabel(j) ==
  IF GivenLabel(j) = None THEN None ELSE Evaluated(GivenLabel(j))

(* Everything with a name that the three lists give, each with the value   *)
(* given last.                                                             *)
ByName(lists) ==
  {[name |-> n, val |-> LastGiven([i \in 1 .. 3 |-> ValueIn(lists[i], n)])] :
     n \in UNION {NamesIn(lists[i]) : i \in 1 .. 3}}
ExpectedItems(j) == ByName([i \in 1 .. 3 |-> orig[Sources(j)[i]].items])
ExpectedParams(j) ==
  {Resolved(p) : p \in ByName([i \in 1 .. 3 |-> orig[Sources(j)[i]].params])}

WellNamed == \A p \in Parts : Distinct(orig[p].items)

(* No two parameters of a pipeline's sources have one name.                *)
ParamsApart(j) ==
  LET source(i) == orig[Sources(j)[i]].params
  IN \A i, k \in 1 .. 3 : \A a \in DOMAIN source(i), b \in DOMAIN source(k) :
       source(i)[a].name = source(k)[b].name => i = k /\ a = b

(* What the sources say, by name.  The exception is a parameter that has   *)
(* the name of another one.  A default should be the value of a parameter  *)
(* unless one of that name is given (docs/pipeline-config.md: 13, 104),    *)
(* which is how slices of structs merge (slice_test.go: 11-42); but params *)
(* are pointers, and what should be overridden is there as well.           *)
AsExpected(b) ==
  /\ b.timeouts = ExpectedTimeouts(b.job)
  /\ b.label = ExpectedLabel(b.job)
  /\ Distinct(b.items)
  /\ {b.items[i] : i \in DOMAIN b.items} = ExpectedItems(b.job)
  /\ ExpectedParams(b.job) \subseteq {b.params[i] : i \in DOMAIN b.params}
  /\ ParamsApart(b.job) =>
       /\ Distinct(b.params)
       /\ {b.params[i] : i \in DOMAIN b.params} = ExpectedParams(b.job)

(* The pipelines to build, in this order: those of triggers that match, for*)
(* the validator all.                                                      *)
Jobs == {p \in Parts : p[1] > 0 /\ p[2] > 0 /\ (mode = "validator" \/ filter[p[1]] = "yes")}
Before(j, k) == j[1] < k[1] \/ (j[1] = k[1] /\ j[2] < k[2])

(* A pipeline whose merge writes to no memory another one reads: nothing   *)
(* its first source gives is overridden, and no value of the defaults      *)
(* changes when it is evaluated once more.                                 *)
Tame(j) ==
  LET source(i) == orig[Sources(j)[i]]
  IN /\ Cardinality({i \in 1 .. 3 : source(i).timeouts # None}) <= 1
     /\ \A i, k \in 1 .. 3 : i < k =>
          \A n \in NamesIn(source(i).items) : ValueIn(source(k).items, n) = None
     /\ \A i \in 1 .. 2, v \in {"nested", "poison"} :
          \A k \in DOMAIN source(i).params : source(i).params[k].val # v

(* A PipelineRun is what its three parts say, as long as the pipelines     *)
(* built before it have written to nothing it shares with them.            *)
RunAfterTameOnes ==
  WellNamed => \A i \in DOMAIN built :
    (\A k \in 1 .. i - 1 : Tame(built[k].job)) => AsExpected(built[i])

(* Whatever was built before, what the pipeline itself gives is in its     *)
(* PipelineRun, each name of its sources is there once, and its metadata is*)
(* that of its sources: no map is shared.                                  *)
OwnPartWins ==
  WellNamed => \A i \in DOMAIN built :
    LET b == built[i]
        own == orig[b.job]
    IN /\ own.timeouts # None => b.timeouts = own.timeouts
       /\ b.label = ExpectedLabel(b.job)
       /\ \A n \in NamesIn(own.items) : ValueIn(own.items, n) # None =>
            ValueIn(b.items, n) = ValueIn(own.items, n)
       /\ Distinct(b.items)
       /\ NamesIn(b.items) =
            UNION {NamesIn(orig[Sources(b.job)[s]].items) : s \in 1 .. 3}

(* The metadata does not evaluate, where the part that gives it last counts*)
(* alone; or some parameter does not: it never does, or it is shared and   *)
(* the value an earlier pipeline wrote there does not.                     *)
Unevaluable(j) ==
  \/ GivenLabel(j) # None /\ ~ Evaluates(GivenLabel(j))
  \/ \E p \in {Sources(j)[i] : i \in 1 .. 3} : \E i \in DOMAIN orig[p].params :
       \/ orig[p].params[i].val = "undefined"
       \/ /\ orig[p].params[i].val = "poison"
          /\ \E k \in Jobs : Before(k, j) /\ p \in {Sources(k)[s] : s \in 1 .. 2}

(* The merges of j's parts, in memory of their own, panic.                 *)
Panics(j) ==
  LET part(i) == orig[Sources(j)[i]]
      into(items, i) ==
        IF items = <<>> THEN [ok |-> TRUE, items |-> part(i).items]
        ELSE Transformer(Alone(items), part(i).items)
      second == into(part(1).items, 2)
  IN \/ part(1).bare \/ part(2).bare \/ ~ second.ok
     \/ ~ into(second.items, 3).ok

(* A name that is twice in what is merged into the PipelineRun may rename  *)
(* an element that is shared.                                              *)
Repeats(j) == \E i \in 2 .. 3 : ~ Distinct(orig[Sources(j)[i]].items)
Renamed(j) == Repeats(j) /\ \E k \in Jobs : Before(k, j) /\ Repeats(k)

(* Whether the merges of a pipeline panic does not depend on what is shared*)
(* with the pipelines built before, on filters or on the request, unless   *)
(* names are repeated in both: what the validator says of its configuration*)
(* then holds for every request.                                           *)
PanicIsForeseen ==
  /\ outcome = "panic" /\ job # <<0, 0>> => Panics(job) \/ Renamed(job)
  /\ outcome = "OK" => \A j \in Jobs : Panics(j) => Renamed(j)

-----------------------------------------------------------------------------
(* What the documentation promises.                                        *)

(* defaults are default values for each pipeline (docs/pipeline-config.md: *)
(* 13, 104): a PipelineRun is what its three parts say.                    *)
RunsAreIndependent ==
  WellNamed => \A i \in DOMAIN built : AsExpected(built[i])
=============================================================================
