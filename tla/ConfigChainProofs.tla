-------------------------- MODULE ConfigChainProofs ---------------------------
(***************************************************************************)
(* Proofs about the configuration of a request: what the chain of          *)
(* interceptors merges, and what is built from it, for any configurations. *)
(***************************************************************************)
EXTENDS ConfigChain, PipelineBuildProofs

(* Triggers are merged with triggers.                                      *)
LEMMA PartsMerge ==
  ASSUME NEW d \in Content, NEW e \in Content
  PROVE  MergePart(d, e) \in Content
  <1>1. /\ d.timeouts \in Source \cup {None} /\ e.timeouts \in Source \cup {None}
        /\ d.label \in Label /\ e.label \in Label
        /\ d.items \in Seq(Item) /\ e.items \in Seq(Item) /\ d.spare \in Nat /\ e.spare \in Nat
        /\ d.bare \in BOOLEAN /\ e.bare \in BOOLEAN
        /\ d.params \in Seq(Param) /\ e.params \in Seq(Param)
    BY DEF Content
  <1>2. /\ Later(d.timeouts, e.timeouts) \in Source \cup {None}
        /\ Later(d.label, e.label) \in Label
        /\ LaterList(d.items, e.items) \in Seq(Item)
        /\ (IF e.items = <<>> THEN d.spare ELSE e.spare) \in Nat
        /\ (d.bare \/ e.bare) \in BOOLEAN
        /\ LaterList(d.params, e.params) \in Seq(Param)
    BY <1>1 DEF Later, LaterList
  <1> QED
    BY <1>2 DEF MergePart, Content

(* The merge of two triggers is a trigger.                                 *)
LEMMA TriggerMerged ==
  ASSUME NEW d \in Trigger, NEW e \in Trigger
  PROVE  merge(d, e) = MergeTrigger(d, e) /\ merge(d, e) \in Trigger
  <1>1. "pipelines" \in DOMAIN e
    BY DEF Trigger
  <1>2. merge(d, e) = MergeTrigger(d, e)
    BY <1>1 DEF merge
  <1>3. /\ d.name \in Nat /\ e.name \in Nat /\ d.defaults \in Content /\ e.defaults \in Content
        /\ d.filter \in {"yes", "no", "error", None} /\ e.filter \in {"yes", "no", "error", None}
        /\ d.pipelines \in Seq(Content) /\ e.pipelines \in Seq(Content)
    BY DEF Trigger
  <1>4. /\ MergePart(d.defaults, e.defaults) \in Content
        /\ (IF e.name = 0 THEN d.name ELSE e.name) \in Nat
        /\ Later(d.filter, e.filter) \in {"yes", "no", "error", None}
        /\ LaterList(d.pipelines, e.pipelines) \in Seq(Content)
    BY <1>3, PartsMerge DEF Later, LaterList
  <1>5. MergeTrigger(d, e) \in Trigger
    BY <1>4 DEF MergeTrigger, Trigger
  <1> QED
    BY <1>2, <1>5

(* It has their name.                                                      *)
LEMMA TriggersMerge == Mergeable(Trigger)
  <1>1. ASSUME NEW d \in Trigger, NEW e \in Trigger, d.name = e.name
        PROVE  merge(d, e).name = d.name
    <2>1. merge(d, e) = MergeTrigger(d, e)
      BY TriggerMerged
    <2>2. MergeTrigger(d, e).name = IF e.name = 0 THEN d.name ELSE e.name
      BY DEF MergeTrigger
    <2> QED
      BY <1>1, <2>1, <2>2
  <1> QED
    BY <1>1, TriggerMerged DEF Mergeable

-----------------------------------------------------------------------------
(* Configurations are merged with configurations.                          *)
LEMMA MergeListsType ==
  ASSUME NEW E, Mergeable(E), NEW a \in Seq(E), NEW b \in Seq(E)
  PROVE  MergeLists(a, b).items \in Seq(E) /\ MergeLists(a, b).ok \in BOOLEAN
  <1>1. CASE a = <<>>
    BY <1>1 DEF MergeLists
  <1>2. CASE a # <<>>
    <2>1. Alone(a) \in LoopState(E)
      <3>1. Mergee(E, a, FALSE, 0, <<>>) /\ Alone(a) = Begun(a, FALSE, 0, <<>>)
        BY AloneMergee
      <3>2. Begun(a, FALSE, 0, <<>>) \in LoopState(E)
        BY <3>1, BegunState
      <3> QED
        BY <3>1, <3>2
    <2>2. Transformer(Alone(a), b) \in LoopState(E)
      BY <2>1, TransformerType
    <2> QED
      BY <1>2, <2>2 DEF MergeLists, LoopState
  <1> QED
    BY <1>1, <1>2

(* What a configuration holds.                                             *)
LEMMA ConfigFields ==
  ASSUME NEW c \in Config
  PROVE  /\ c.defaults \in Content /\ c.triggers \in Seq(Trigger)
         /\ c.defaults.timeouts \in Source \cup {None} /\ c.defaults.items \in Seq(Item)
         /\ c.defaults.label \in Label
         /\ c.defaults.spare \in Nat /\ c.defaults.bare \in BOOLEAN
         /\ c.defaults.params \in Seq(Param)
  <1>1. c.defaults \in Content /\ c.triggers \in Seq(Trigger)
    BY DEF Config
  <1> QED
    BY <1>1 DEF Content

(* Configurations are merged to a configuration.                           *)
LEMMA MergeConfigType ==
  ASSUME NEW c \in Config, NEW s \in Config
  PROVE  MergeConfig(c, s).cfg \in Config /\ MergeConfig(c, s).ok \in BOOLEAN
  <1> DEFINE items == MergeLists(c.defaults.items, s.defaults.items)
             triggers == MergeLists(c.triggers, s.triggers)
             spare == IF items.items = s.defaults.items
                        THEN s.defaults.spare ELSE c.defaults.spare
             params == c.defaults.params \o s.defaults.params
             timeouts == Later(c.defaults.timeouts, s.defaults.timeouts)
             label == Later(c.defaults.label, s.defaults.label)
  <1>1. /\ items.items \in Seq(Item) /\ triggers.items \in Seq(Trigger)
        /\ spare \in Nat /\ timeouts \in Source \cup {None} /\ params \in Seq(Param)
        /\ s.defaults.bare \in BOOLEAN /\ label \in Label
    BY ConfigFields, ItemsMerge, TriggersMerge, MergeListsType DEF Later
  <1>2. MergeConfig(c, s) =
          [ok |-> ~ c.defaults.bare /\ items.ok /\ triggers.ok,
           cfg |-> [defaults |-> [timeouts |-> timeouts, label |-> label, items |-> items.items,
                                  spare |-> spare, bare |-> s.defaults.bare,
                                  params |-> params],
                    triggers |-> triggers.items]]
    BY DEF MergeConfig
  <1> HIDE DEF items, triggers, spare, params, timeouts, label
  <1>3. [timeouts |-> timeouts, label |-> label, items |-> items.items, spare |-> spare,
         bare |-> s.defaults.bare, params |-> params] \in Content
    BY <1>1 DEF Content
  <1> QED
    BY <1>1, <1>2, <1>3 DEF Config

(* The empty request is a configuration.                                   *)
LEMMA EmptyTyped == EmptyConfig \in Config
  <1>1. EmptyPart \in Content
    <2>1. <<>> \in Seq(Item) /\ <<>> \in Seq(Param)
      OBVIOUS
    <2> QED
      BY <2>1 DEF EmptyPart, Content, Label
  <1>2. <<>> \in Seq(Trigger)
    OBVIOUS
  <1> QED
    BY <1>1, <1>2 DEF EmptyConfig, Config

(* What is put into an empty request is there as it is.                    *)
LEMMA MergeIntoEmpty ==
  ASSUME NEW c \in Config
  PROVE  MergeConfig(EmptyConfig, c).ok /\ MergeConfig(EmptyConfig, c).cfg = c
  <1>1. /\ c.defaults.items \in Seq(Item) /\ c.defaults.params \in Seq(Param)
        /\ c = [defaults |-> c.defaults, triggers |-> c.triggers]
        /\ c.defaults = [timeouts |-> c.defaults.timeouts, label |-> c.defaults.label,
                         items |-> c.defaults.items,
                         spare |-> c.defaults.spare, bare |-> c.defaults.bare,
                         params |-> c.defaults.params]
    BY DEF Config, Content
  <1>2. <<>> \o c.defaults.params = c.defaults.params
    BY <1>1
  <1>3. /\ Later(None, c.defaults.timeouts) = c.defaults.timeouts
        /\ Later(None, c.defaults.label) = c.defaults.label
    BY DEF Later
  <1>4. /\ MergeLists(<<>>, c.defaults.items) = [ok |-> TRUE, items |-> c.defaults.items]
        /\ MergeLists(<<>>, c.triggers) = [ok |-> TRUE, items |-> c.triggers]
    BY DEF MergeLists
  <1> DEFINE empty == EmptyConfig
  <1>7. /\ empty.triggers = <<>> /\ empty.defaults.items = <<>> /\ ~ empty.defaults.bare
        /\ empty.defaults.timeouts = None /\ empty.defaults.label = None
        /\ empty.defaults.params = <<>>
    BY DEF EmptyConfig, EmptyPart
  <1> HIDE DEF empty
  <1>8. /\ MergeLists(empty.defaults.items, c.defaults.items) =
             [ok |-> TRUE, items |-> c.defaults.items]
        /\ MergeLists(empty.triggers, c.triggers) = [ok |-> TRUE, items |-> c.triggers]
    BY <1>4, <1>7
  <1>5. MergeConfig(empty, c).ok
    <2>1. MergeConfig(empty, c).ok =
            (/\ ~ empty.defaults.bare
             /\ MergeLists(empty.defaults.items, c.defaults.items).ok
             /\ MergeLists(empty.triggers, c.triggers).ok)
      BY DEF MergeConfig
    <2> QED
      BY <1>7, <1>8, <2>1
  <1>6. MergeConfig(empty, c).cfg =
          [defaults |-> [timeouts |-> c.defaults.timeouts, label |-> c.defaults.label,
                         items |-> c.defaults.items,
                         spare |-> c.defaults.spare, bare |-> c.defaults.bare,
                         params |-> c.defaults.params],
           triggers |-> c.triggers]
    BY <1>2, <1>3, <1>4, <1>7 DEF MergeConfig
  <1> QED
    BY <1>1, <1>5, <1>6 DEF empty

-----------------------------------------------------------------------------
(* What the chain makes of its configurations.                             *)
Result == IF local = None THEN central ELSE MergeConfig(central, local).cfg

ChainInv ==
  /\ BuildInv
  /\ pc \in {"central", "local", "load", "filter", "merge", "reconcile", "end"}
  /\ central \in Config /\ (local = None \/ local \in Config) /\ ext \in Config
  /\ fault \in {"none", "failed", "cold", "noResponse"}
  /\ pc \in {"central", "local", "load"} => job = <<0, 0>> /\ outcome = "open"
  /\ pc = "central" => ext = EmptyConfig
  /\ pc = "local" => ext = central /\ local # None
  /\ pc = "load" \/ Loaded => ext = Result
  /\ ~ Loaded /\ outcome = "panic" =>
       fault \in {"cold", "noResponse"} \/ (local # None /\ ~ MergeConfig(central, local).ok)

(* What is decoded is what a part may hold.                                *)
LEMMA DecodedType ==
  ASSUME NEW p \in Source, NEW c \in Choice
  PROVE  Decoded(p, c) \in Content
  <1>1. /\ c.items \in Seq([name : Names, set : BOOLEAN]) /\ c.spare \in Nat
        /\ c.bare \in BOOLEAN /\ c.params \in Seq(Param) /\ c.label \in Label
    BY DEF Choice
  <1> DEFINE items == [i \in DOMAIN c.items |->
                        [name |-> c.items[i].name,
                         val |-> IF c.items[i].set THEN <<p, i>> ELSE None]]
             timeouts == IF c.timeouts THEN p ELSE None
  <1>2. PICK n \in Nat : n = Len(c.items) /\ DOMAIN c.items = 1 .. n
    BY <1>1
  <1>3. ASSUME NEW i \in 1 .. n PROVE items[i] \in Item
    <2>1. c.items[i].name \in Names /\ <<p, i>> \in Source \X Nat
      <3> DEFINE R == [name : Names, set : BOOLEAN]
      <3>2. c.items \in Seq(R) /\ i \in 1 .. Len(c.items)
        BY <1>1, <1>2
      <3> HIDE DEF R
      <3>3. c.items[i] \in R
        BY <3>2
      <3>1. c.items[i] \in [name : Names, set : BOOLEAN]
        BY <3>3 DEF R
      <3> QED
        BY <1>2, <3>1
    <2>2. (IF c.items[i].set THEN <<p, i>> ELSE None) \in (Source \X Nat) \cup {None}
      BY <2>1
    <2>3. items[i] = [name |-> c.items[i].name,
                      val |-> IF c.items[i].set THEN <<p, i>> ELSE None]
      BY <1>2
    <2> QED
      BY <2>1, <2>2, <2>3 DEF Item
  <1>4. items = [i \in 1 .. n |-> items[i]]
    BY <1>2
  <1>5. timeouts \in Source \cup {None}
    OBVIOUS
  <1>6. Decoded(p, c) = [timeouts |-> timeouts, label |-> c.label, items |-> items, spare |-> c.spare,
                         bare |-> c.bare, params |-> c.params]
    BY DEF Decoded
  <1> HIDE DEF items, timeouts
  <1>7. items \in Seq(Item)
    BY <1>3, <1>4
  <1> QED
    BY <1>1, <1>5, <1>6, <1>7 DEF Content

(* The initial states are as the invariant says.                           *)
LEMMA InitTyped ==
  ASSUME Init
  PROVE  ChainInv
  <1>1. PICK shape \in Shapes :
          /\ \E d \in DefaultChoices,
                fs \in [DOMAIN shape -> IF mode = "validator" THEN {"no"} ELSE Filters],
                ts \in [DOMAIN shape -> TriggerChoices],
                ps \in [UNION {{<<t, k>> : k \in 1 .. shape[t]} : t \in DOMAIN shape}
                          -> PipelineChoices] :
               central =
                 [defaults |-> Decoded(<<"central", 0, 0>>, d),
                  triggers |-> [t \in DOMAIN shape |->
                    [name |-> t, filter |-> fs[t],
                     defaults |-> Decoded(<<"central", t, 0>>, ts[t]),
                     pipelines |-> [k \in 1 .. shape[t] |->
                                      Decoded(<<"central", t, k>>, ps[<<t, k>>])]]]]
          /\ local \in IF shape \in Overlaid THEN Locals
                       ELSE IF mode = "validator" THEN {EmptyConfig} ELSE {None}
    BY DEF Init
  <1>2. PICK d \in DefaultChoices,
             fs \in [DOMAIN shape -> IF mode = "validator" THEN {"no"} ELSE Filters],
             ts \in [DOMAIN shape -> TriggerChoices],
             ps \in [UNION {{<<t, k>> : k \in 1 .. shape[t]} : t \in DOMAIN shape}
                       -> PipelineChoices] :
               central =
                 [defaults |-> Decoded(<<"central", 0, 0>>, d),
                  triggers |-> [t \in DOMAIN shape |->
                    [name |-> t, filter |-> fs[t],
                     defaults |-> Decoded(<<"central", t, 0>>, ts[t]),
                     pipelines |-> [k \in 1 .. shape[t] |->
                                      Decoded(<<"central", t, k>>, ps[<<t, k>>])]]]]
    BY <1>1
  <1>3. /\ shape \in Seq(Nat) /\ DefaultChoices \subseteq Choice
        /\ TriggerChoices \subseteq Choice /\ PipelineChoices \subseteq Choice
        /\ Filters \subseteq Verdicts
    BY ChoicesAssumption DEF Choices, Verdicts
  <1>4. ASSUME NEW t \in Nat, NEW k \in Nat, NEW c \in Choice
        PROVE  Decoded(<<"central", t, k>>, c) \in Content
    <2>1. <<"central", t, k>> \in Source
      BY DEF Source
    <2> QED
      BY <2>1, DecodedType
  <1>5. ASSUME NEW t \in DOMAIN shape
        PROVE  [name |-> t, filter |-> fs[t],
                defaults |-> Decoded(<<"central", t, 0>>, ts[t]),
                pipelines |-> [k \in 1 .. shape[t] |->
                                 Decoded(<<"central", t, k>>, ps[<<t, k>>])]] \in Trigger
    <2>1. t \in Nat /\ shape[t] \in Nat /\ fs[t] \in {"yes", "no", "error", None}
      <3>1. t \in Nat /\ shape[t] \in Nat
        BY <1>3
      <3>2. fs[t] \in IF mode = "validator" THEN {"no"} ELSE Filters
        OBVIOUS
      <3>3. fs[t] \in Verdicts
        BY <1>3, <3>2 DEF Verdicts
      <3> QED
        BY <3>1, <3>3 DEF Verdicts
    <2>2. Decoded(<<"central", t, 0>>, ts[t]) \in Content
      BY <1>3, <1>4, <2>1
    <2> DEFINE pipelines == [k \in 1 .. shape[t] |->
                               Decoded(<<"central", t, k>>, ps[<<t, k>>])]
    <2>3. ASSUME NEW k \in 1 .. shape[t] PROVE pipelines[k] \in Content
      <3>1. <<t, k>> \in UNION {{<<u, l>> : l \in 1 .. shape[u]} : u \in DOMAIN shape}
        BY <2>1
      <3>2. ps[<<t, k>>] \in Choice /\ k \in Nat
        BY <1>3, <2>1, <3>1
      <3>3. Decoded(<<"central", t, k>>, ps[<<t, k>>]) \in Content
        BY <1>4, <2>1, <3>2
      <3> QED
        BY <3>3
    <2>4. pipelines = [k \in 1 .. shape[t] |-> pipelines[k]]
      OBVIOUS
    <2> HIDE DEF pipelines
    <2>5. pipelines \in Seq(Content)
      BY <2>1, <2>3, <2>4, SequenceOf
    <2> QED
      BY <2>1, <2>2, <2>5 DEF Trigger, pipelines
  <1>6. central \in Config
    <2>1. Decoded(<<"central", 0, 0>>, d) \in Content
      BY <1>3, <1>4
    <2> DEFINE triggers == [t \in DOMAIN shape |->
                    [name |-> t, filter |-> fs[t],
                     defaults |-> Decoded(<<"central", t, 0>>, ts[t]),
                     pipelines |-> [k \in 1 .. shape[t] |->
                                      Decoded(<<"central", t, k>>, ps[<<t, k>>])]]]
    <2>2. \A t \in DOMAIN shape : triggers[t] \in Trigger
      BY <1>5
    <2>3. PICK n \in Nat : DOMAIN shape = 1 .. n
      BY <1>3
    <2>4. triggers = [t \in 1 .. n |-> triggers[t]]
      BY <2>3
    <2>5. central = [defaults |-> Decoded(<<"central", 0, 0>>, d), triggers |-> triggers]
      BY <1>2
    <2> HIDE DEF triggers
    <2>6. triggers \in Seq(Trigger)
      BY <2>2, <2>3, <2>4, SequenceOf
    <2> QED
      BY <2>1, <2>5, <2>6 DEF Config
  <1>7. local = None \/ local \in Config
    BY <1>1, LocalsAssumption, EmptyTyped
  <1>8. /\ mode \in {"trigger", "validator"} /\ BuildInit
        /\ pc = "central" /\ ext = EmptyConfig /\ fault = "none"
    BY DEF Init
  <1>9. BuildInv
    <2>1. Unloaded /\ Place /\ PointersValid /\ job = <<0, 0>>
      BY <1>8 DEF BuildInit, EmptyRun, Unloaded, Place, PointersValid
    <2>2. /\ filter \in Seq(Verdicts) /\ job \in Nat \X Nat /\ step \in 1 .. 4
          /\ built \in Seq([job : Parts, timeouts : Source \cup {None}, label : Label,
                            items : Seq(Item), params : Seq(Param)])
          /\ outcome \in {"open", "OK", "error", "panic"}
      BY <1>8 DEF BuildInit
    <2>3. orig \in [Parts -> Content] /\ mem \in [Parts -> Content]
      <3>1. Parts = {} /\ DOMAIN orig = {} /\ orig = <<>> /\ mem = <<>>
        BY <1>8 DEF BuildInit, Parts
      <3> QED
        BY <3>1
    <2>4. run \in [timeouts : Parts \cup {None}, label : Label, items : Seq(Item),
                   array : Parts \cup {None}, room : Nat, bare : BOOLEAN,
                   params : Seq(Parts \X Nat)]
      <3>1. <<>> \in Seq(Item) /\ <<>> \in Seq(Parts \X Nat)
        OBVIOUS
      <3> QED
        BY <1>8, <3>1 DEF BuildInit, EmptyRun, Label
    <2> QED
      BY <1>8, <2>1, <2>2, <2>3, <2>4 DEF BuildInv, BuildTypeOK
  <1>10. ~ Loaded /\ outcome = "open"
    BY <1>8 DEF BuildInit, Loaded
  <1> QED
    BY <1>6, <1>7, <1>8, <1>9, <1>10, EmptyTyped DEF ChainInv, Loaded

-----------------------------------------------------------------------------
(* The parts of a configuration.                                           *)
LEMMA PartsTyped ==
  ASSUME NEW c \in Config, NEW p \in PartsOf(c)
  PROVE  /\ Part(c, p) \in Content /\ p \in Nat \X Nat
         /\ p = <<0, 0>> \/ p \in (DOMAIN c.triggers) \X Nat
         /\ \A k \in Nat : k <= p[2] => <<p[1], k>> \in PartsOf(c)
  <1>1. c.defaults \in Content /\ c.triggers \in Seq(Trigger)
    BY ConfigFields
  <1>2. \A t \in DOMAIN c.triggers :
          /\ t \in Nat /\ c.triggers[t].defaults \in Content
          /\ c.triggers[t].pipelines \in Seq(Content) /\ t > 0
    <2>1. \A t \in DOMAIN c.triggers : t \in Nat /\ t > 0 /\ c.triggers[t] \in Trigger
      BY <1>1
    <2> QED
      BY <2>1 DEF Trigger
  <1>3. CASE p = <<0, 0>>
    <2>1. Part(c, p) \in Content
      BY <1>1, <1>3 DEF Part
    <2> QED
      BY <1>3, <2>1 DEF PartsOf
  <1>4. CASE p # <<0, 0>>
    <2>6. PICK t \in DOMAIN c.triggers :
            \E k \in 0 .. Len(c.triggers[t].pipelines) : p = <<t, k>>
      BY <1>4 DEF PartsOf
    <2>1. PICK k \in 0 .. Len(c.triggers[t].pipelines) : p = <<t, k>>
      BY <2>6
    <2>2. /\ t \in Nat /\ t > 0 /\ c.triggers[t].defaults \in Content
          /\ c.triggers[t].pipelines \in Seq(Content)
      BY <1>2, <2>1
    <2>3. k \in Nat
      BY <2>1
    <2>4. Part(c, p) \in Content
      <3>1. CASE k = 0
        BY <1>4, <2>1, <2>2, <3>1 DEF Part
      <3>2. CASE k # 0
        <4>1. Part(c, p) = c.triggers[t].pipelines[k]
          BY <1>4, <2>1, <3>2 DEF Part
        <4>2. k \in 1 .. Len(c.triggers[t].pipelines)
          BY <2>1, <2>2, <3>2
        <4> QED
          BY <2>2, <4>1, <4>2
      <3> QED
        BY <3>1, <3>2
    <2>5. ASSUME NEW l \in Nat, l <= p[2] PROVE <<p[1], l>> \in PartsOf(c)
      <3>1. l \in 0 .. Len(c.triggers[t].pipelines) /\ p[1] = t
        BY <2>1, <2>2, <2>5
      <3> QED
        BY <3>1 DEF PartsOf
    <2> QED
      BY <2>1, <2>2, <2>3, <2>4, <2>5
  <1> QED
    BY <1>3, <1>4

(* Decoding keeps the types and the shape.                                 *)
LEMMA LoadKeepsInv ==
  ASSUME BuildInv, job = <<0, 0>>, pc = "load", outcome = "open",
         NEW c \in Config, Load(c), mode' = mode
  PROVE  BuildInv' /\ job' = <<1, 0>> /\ pc' = "filter"
  <1>1. /\ Unloaded /\ BuildTypeOK
    BY DEF BuildInv
  <1>2. /\ UNCHANGED <<mode, step, run, built, outcome>>
        /\ pc' = "filter" /\ job' = <<1, 0>>
        /\ orig' = [p \in PartsOf(c) |-> Part(c, p)] /\ mem' = orig'
        /\ filter' = [t \in DOMAIN c.triggers |->
             IF c.triggers[t].filter = None THEN "error" ELSE c.triggers[t].filter]
    BY DEF Load
  <1>3. Parts' = PartsOf(c) /\ DOMAIN filter' = DOMAIN c.triggers
    BY <1>2 DEF Parts
  <1>4. orig' \in [Parts' -> Content] /\ mem' \in [Parts' -> Content]
    BY <1>2, <1>3, PartsTyped
  <1>5. filter' \in Seq(Verdicts)
    <2>1. c.triggers \in Seq(Trigger)
      BY ConfigFields
    <2>2. PICK n \in Nat : DOMAIN c.triggers = 1 .. n
      BY <2>1
    <2>3. ASSUME NEW t \in DOMAIN c.triggers PROVE filter'[t] \in Verdicts
      <3>1. c.triggers[t] \in Trigger
        BY <2>1
      <3>2. c.triggers[t].filter \in {"yes", "no", "error", None}
        BY <3>1 DEF Trigger
      <3> QED
        BY <1>2, <3>2 DEF Verdicts
    <2>4. filter' = [t \in 1 .. n |-> filter'[t]]
      BY <1>2, <2>2
    <2> QED
      BY <2>2, <2>3, <2>4, SequenceOf
  <1>6. Shape'
    <2>1. <<0, 0>> \in PartsOf(c)
      BY DEF PartsOf
    <2>2. ASSUME NEW t \in DOMAIN c.triggers PROVE <<t, 0>> \in PartsOf(c)
      <3>1. c.triggers[t] \in Trigger
        BY ConfigFields
      <3>2. 0 \in 0 .. Len(c.triggers[t].pipelines)
        BY <3>1 DEF Trigger
      <3> QED
        BY <3>2 DEF PartsOf
    <2> QED
      BY <1>3, <2>1, <2>2, PartsTyped DEF Shape
  <1>7. run = EmptyRun /\ built = <<>> /\ step = 1
    BY <1>1 DEF Unloaded
  <1>8. Place' /\ PointersValid'
    BY <1>2, <1>7 DEF Place, PointersValid, EmptyRun
  <1>9. BuildTypeOK'
    <2>1. EmptyRun \in [timeouts : Parts' \cup {None}, label : Label, items : Seq(Item),
                        array : Parts' \cup {None}, room : Nat, bare : BOOLEAN,
                        params : Seq(Parts' \X Nat)]
      <3>1. <<>> \in Seq(Item) /\ <<>> \in Seq(Parts' \X Nat)
        OBVIOUS
      <3> QED
        BY <3>1 DEF EmptyRun, Label
    <2>2. <<>> \in Seq([job : Parts', timeouts : Source \cup {None}, label : Label,
                        items : Seq(Item), params : Seq(Param)])
      OBVIOUS
    <2> QED
      BY <1>1, <1>2, <1>4, <1>7, <2>1, <2>2 DEF BuildTypeOK
  <1> QED
    BY <1>2, <1>5, <1>6, <1>8, <1>9 DEF BuildInv

(* So does a request that stops before it.                                 *)
LEMMA StopKeepsInv ==
  ASSUME BuildInv, UNCHANGED <<mode, config, job, step, run, built>>,
         pc' \in {"local", "load", "end"}, job = <<0, 0>>,
         outcome' \in {"open", "OK", "error", "panic"}
  PROVE  BuildInv'
  <1>1. UNCHANGED <<mode, filter, orig, mem, job, step, run, built>>
    BY DEF config
  <1> QED
    BY <1>1 DEF BuildInv, BuildTypeOK, Unloaded, Place, PointersValid, Parts

(* Every step keeps the invariant of the chain.                            *)
LEMMA NextKeepsChainInv ==
  ASSUME ChainInv, [Next]_vars
  PROVE  ChainInv'
  <1>1. /\ BuildInv /\ central \in Config /\ ext \in Config
        /\ local = None \/ local \in Config
        /\ fault \in {"none", "failed", "cold", "noResponse"}
        /\ pc \in {"central", "local", "load", "filter", "merge", "reconcile", "end"}
    BY DEF ChainInv
  <1>2. CASE UNCHANGED vars
    <2>1. /\ UNCHANGED <<mode, config, job, step, run, built, central, local, ext, fault>>
          /\ UNCHANGED <<filter, orig, mem, pc, outcome>>
      BY <1>2 DEF vars, config, progress, sources
    <2>2. BuildInv'
      BY <1>1, <2>1 DEF BuildInv, BuildTypeOK, Unloaded, Shape, Place, PointersValid, Parts
    <2> QED
      BY <1>1, <2>1, <2>2 DEF ChainInv, Loaded, Result
  <1>3. CASE ReadCentral
    <2>1. /\ UNCHANGED <<mode, config, job, step, run, built, central, local, fault>>
          /\ pc = "central" /\ job = <<0, 0>> /\ outcome = "open" /\ ext = EmptyConfig
          /\ Extend(central, IF local = None THEN "load" ELSE "local")
      BY <1>3 DEF ReadCentral, sources, ChainInv
    <2>2. MergeConfig(ext, central).ok /\ MergeConfig(ext, central).cfg = central
      BY <1>1, <2>1, MergeIntoEmpty
    <2>3. ext' = central /\ outcome' = outcome
          /\ pc' = IF local = None THEN "load" ELSE "local"
      BY <2>1, <2>2 DEF Extend
    <2>4. BuildInv'
      BY <1>1, <2>1, <2>3, StopKeepsInv
    <2> QED
      BY <1>1, <2>1, <2>3, <2>4 DEF ChainInv, Loaded, Result
  <1>4. CASE ReadLocal
    <2>1. /\ UNCHANGED <<mode, config, job, step, run, built, central, local, fault>>
          /\ pc = "local" /\ job = <<0, 0>> /\ outcome = "open"
          /\ ext = central /\ local # None /\ local \in Config
          /\ Extend(local, "load")
      BY <1>1, <1>4 DEF ReadLocal, sources, ChainInv
    <2> DEFINE m == MergeConfig(central, local)
    <2>2. m.cfg \in Config
      BY <1>1, <2>1, MergeConfigType
    <2>3. IF m.ok THEN ext' = m.cfg /\ pc' = "load" /\ outcome' = outcome
                  ELSE pc' = "end" /\ outcome' = "panic" /\ ext' = ext
      BY <2>1 DEF Extend, Finish
    <2> HIDE DEF m
    <2>4. BuildInv'
      BY <1>1, <2>1, <2>3, StopKeepsInv
    <2> QED
      BY <1>1, <2>1, <2>2, <2>3, <2>4 DEF ChainInv, Loaded, Result, m
  <1>5. CASE ReadFails \/ NoResponse \/ ColdGet
    <2>1. /\ UNCHANGED <<mode, config, job, step, run, built, central, local, ext>>
          /\ pc' = "end" /\ job = <<0, 0>>
          /\ \/ outcome' = "error" /\ fault' = "failed"
             \/ outcome' = "panic" /\ fault' \in {"cold", "noResponse"}
      BY <1>5 DEF ReadFails, NoResponse, ColdGet, Finish, sources, ChainInv
    <2>2. BuildInv'
      BY <1>1, <2>1, StopKeepsInv
    <2> QED
      BY <1>1, <2>1, <2>2 DEF ChainInv, Loaded
  <1>6. CASE Decode
    <2>1. /\ pc = "load" /\ Load(ext) /\ UNCHANGED <<mode, central, local, ext, fault>>
          /\ job = <<0, 0>> /\ outcome = "open" /\ ext = Result
      BY <1>6 DEF Decode, sources, ChainInv
    <2>2. BuildInv' /\ job' = <<1, 0>> /\ pc' = "filter" /\ outcome' = outcome
      BY <1>1, <2>1, LoadKeepsInv DEF Load
    <2> QED
      BY <1>1, <2>1, <2>2 DEF ChainInv, Loaded, Result
  <1>7. CASE Build /\ UNCHANGED <<mode, sources, ext, fault>>
    <2>1. /\ Build /\ UNCHANGED <<mode, central, local, ext, fault>>
      BY <1>7 DEF sources
    <2>2. BuildInv'
      BY <1>1, <2>1, BuildKeepsInv
    <2>3. pc \in {"filter", "merge", "reconcile"} /\ Loaded
      BY <2>1 DEF Build, Match, Merge, Reconcile, ChainInv, BuildInv, Place, Loaded
    <2>4. pc' \in {"filter", "merge", "reconcile", "end"} /\ job' # <<0, 0>>
      <3>1. CASE Match
        <4>1. job \in Nat \X Nat
          BY <1>1 DEF BuildInv, BuildTypeOK
        <4> QED
          BY <2>3, <3>1, <4>1 DEF Match, Finish, Loaded
      <3>2. CASE Merge
        BY <1>1, <2>3, <3>2, MergeDoes DEF MergesTo, Loaded
      <3>3. CASE Reconcile
        <4>1. job \in Nat \X Nat
          BY <1>1 DEF BuildInv, BuildTypeOK
        <4> QED
          BY <2>3, <3>3, <4>1 DEF Reconcile, Finish, Loaded
      <3> QED
        BY <2>1, <3>1, <3>2, <3>3 DEF Build
    <2> QED
      BY <1>1, <2>1, <2>2, <2>3, <2>4 DEF ChainInv, Loaded, Result
  <1> QED
    BY <1>2, <1>3, <1>4, <1>5, <1>6, <1>7 DEF Next

(* PipelineRuns are handed out at the end alone.                           *)
Handing ==
  /\ handed \in Nat
  /\ handed > 0 => outcome = "OK" /\ mode = "trigger" /\ handed = Len(built)

(* A step of the build hands nothing on.                                   *)
LEMMA StepHands ==
  ASSUME Handing, outcome = "open", Len(built) \in Nat, mode' = mode,
         \/ handed' = handed
         \/ built' = built /\ \E o : Finish(o)
  PROVE  Handing'
  <1>1. handed = 0 /\ Len(built) \in Nat
    BY DEF Handing
  <1> QED
    BY <1>1 DEF Handing, Finish

(* Every step keeps what is known of what is handed on.                    *)
LEMMA NextHands ==
  ASSUME ChainInv, Handing, [Next]_vars
  PROVE  Handing'
  <1>1. BuildInv /\ Len(built) \in Nat
    <2>1. BuildInv
      BY DEF ChainInv
    <2> QED
      BY <2>1 DEF BuildInv, BuildTypeOK
  <1>2. CASE UNCHANGED vars
    BY <1>2 DEF vars, progress, Handing
  <1>3. CASE ReadCentral \/ ReadLocal \/ ReadFails \/ NoResponse \/ ColdGet \/ Decode
    <2>1. mode' = mode /\ outcome = "open"
      BY <1>3 DEF ReadCentral, ReadLocal, ReadFails, NoResponse, ColdGet, Decode, ChainInv
    <2>2. handed' = handed \/ (built' = built /\ \E o : Finish(o))
      BY <1>3 DEF ReadCentral, ReadLocal, ReadFails, NoResponse, ColdGet, Decode, Extend, Load
    <2> QED
      BY <1>1, <2>1, <2>2, StepHands
  <1>4. CASE Build /\ UNCHANGED <<mode, sources, ext, fault>>
    <2>1. mode' = mode /\ outcome = "open"
      BY <1>1, <1>4 DEF Build, Match, Merge, Reconcile, BuildInv, Place
    <2>2. handed' = handed \/ (built' = built /\ \E o : Finish(o))
      BY <1>4 DEF Build, Match, Merge, Reconcile
    <2> QED
      BY <1>1, <2>1, <2>2, StepHands
  <1> QED
    BY <1>2, <1>3, <1>4 DEF Next

(* It is all that was built, and only when the request ends well.          *)
LEMMA HandedAtTheEnd == Spec => []Handing
  <1>1. Init => Handing
    BY DEF Init, BuildInit, Handing
  <1>2. Spec => []ChainInv
    BY InitTyped, NextKeepsChainInv, PTL DEF Spec
  <1> QED
    BY <1>1, <1>2, NextHands, PTL DEF Spec

(* The type invariant holds in every behaviour.                            *)
THEOREM TypeCorrect == Spec => []TypeOK
  <1>1. ChainInv /\ Handing => TypeOK
    BY DEF ChainInv, TypeOK, BuildInv, Handing
  <1>2. Spec => []ChainInv
    BY InitTyped, NextKeepsChainInv, PTL DEF Spec
  <1> QED
    BY <1>1, <1>2, HandedAtTheEnd, PTL

-----------------------------------------------------------------------------
(* The central triggers are numbered.                                      *)
CentralNumbered == \A i \in DOMAIN central.triggers : central.triggers[i].name = i

(* The triggers of the central configuration are distinct.                 *)
LEMMA CentralStaysNumbered == Spec => []CentralNumbered
  <1>1. Init => CentralNumbered
    BY DEF Init, CentralNumbered
  <1>2. ASSUME CentralNumbered, [Next]_vars PROVE CentralNumbered'
    <2>1. central' = central
      BY <1>2 DEF Next, vars, ReadCentral, ReadLocal, ReadFails, NoResponse, ColdGet, Decode, sources
    <2> QED
      BY <1>2, <2>1 DEF CentralNumbered
  <1> QED
    BY <1>1, <1>2, PTL DEF Spec

(* Lists with each name once are merged by name.                           *)
LEMMA MergeListsMerges ==
  ASSUME NEW E, Mergeable(E), NEW a \in Seq(E), NEW b \in Seq(E), Distinct(a), Distinct(b)
  PROVE  MergeLists(a, b).ok /\ IsMerge(a, b, MergeLists(a, b).items)
  <1>1. CASE a = <<>>
    BY <1>1, MergedWithNothing DEF MergeLists
  <1>2. CASE a # <<>>
    <2>1. Mergee(E, a, FALSE, 0, <<>>) /\ Alone(a) = Begun(a, FALSE, 0, <<>>)
      BY AloneMergee
    <2> DEFINE t == Transformer(Begun(a, FALSE, 0, <<>>), b)
    <2>2. t.ok /\ IsMerge(a, b, t.items)
      BY <2>1, TransformerMerges
    <2>3. MergeLists(a, b) = t
      BY <1>2, <2>1 DEF MergeLists
    <2> HIDE DEF t
    <2> QED
      BY <2>2, <2>3
  <1> QED
    BY <1>1, <1>2

(* Distinct names in the second slice never make the merge panic.          *)
LEMMA MergeListsOK ==
  ASSUME NEW E, Mergeable(E), NEW a \in Seq(E), NEW b \in Seq(E), Distinct(b)
  PROVE  MergeLists(a, b).ok
  <1>1. CASE a = <<>>
    BY <1>1 DEF MergeLists
  <1>2. CASE a # <<>>
    <2>1. Mergee(E, a, FALSE, 0, <<>>) /\ Alone(a) = Begun(a, FALSE, 0, <<>>)
      BY AloneMergee
    <2>2. Transformer(Begun(a, FALSE, 0, <<>>), b).ok
      BY <2>1, TransformerOK
    <2> QED
      BY <1>2, <2>1, <2>2 DEF MergeLists
  <1> QED
    BY <1>1, <1>2

(* The trigger of a configuration that has a name.                         *)
Unnamed(n) == [name |-> n, filter |-> None, defaults |-> EmptyPart, pipelines |-> <<>>]

(* A trigger is found by its name.                                         *)
LEMMA NamedAt ==
  ASSUME NEW c, Distinct(c.triggers), NEW i \in DOMAIN c.triggers
  PROVE  Named(c, c.triggers[i].name) = c.triggers[i]
  <1> DEFINE n == c.triggers[i].name
  <1>1. n \in NamesIn(c.triggers)
    BY DEF NamesIn
  <1>2. \A j \in DOMAIN c.triggers : c.triggers[j].name = n => j = i
    BY DEF Distinct
  <1>3. (CHOOSE j \in DOMAIN c.triggers : c.triggers[j].name = n) = i
    BY <1>2
  <1> QED
    BY <1>1, <1>3 DEF Named

(* A name that is not there is that of no trigger.                         *)
LEMMA NotNamed ==
  ASSUME NEW c, NEW n, n \notin NamesIn(c.triggers)
  PROVE  Named(c, n) = Unnamed(n)
  BY DEF Named, Unnamed

TriggerMergedByName(t, c, l) ==
  /\ t.filter = LastGiven(<<c.filter, l.filter>>)
  /\ t.pipelines = IF l.pipelines # <<>> THEN l.pipelines ELSE c.pipelines
  /\ t.defaults.timeouts = LastGiven(<<c.defaults.timeouts, l.defaults.timeouts>>)
  /\ t.defaults.label = LastGiven(<<c.defaults.label, l.defaults.label>>)
  /\ t.defaults.params =
       IF l.defaults.params # <<>> THEN l.defaults.params ELSE c.defaults.params

(* Two triggers of one name are merged field by field.                     *)
LEMMA TwoTriggers ==
  ASSUME NEW d \in Trigger, NEW e \in Trigger
  PROVE  TriggerMergedByName(merge(d, e), d, e)
  <1>1. merge(d, e) = MergeTrigger(d, e)
    BY TriggerMerged
  <1>2. /\ MergeTrigger(d, e).filter = Later(d.filter, e.filter)
        /\ MergeTrigger(d, e).pipelines = LaterList(d.pipelines, e.pipelines)
        /\ MergeTrigger(d, e).defaults = MergePart(d.defaults, e.defaults)
    BY DEF MergeTrigger
  <1>3. /\ MergePart(d.defaults, e.defaults).timeouts = Later(d.defaults.timeouts, e.defaults.timeouts)
        /\ MergePart(d.defaults, e.defaults).label = Later(d.defaults.label, e.defaults.label)
        /\ MergePart(d.defaults, e.defaults).params = LaterList(d.defaults.params, e.defaults.params)
    BY DEF MergePart
  <1>4. LaterList(d.pipelines, e.pipelines) = IF e.pipelines # <<>> THEN e.pipelines ELSE d.pipelines
    BY DEF LaterList
  <1>5. LaterList(d.defaults.params, e.defaults.params) =
          IF e.defaults.params # <<>> THEN e.defaults.params ELSE d.defaults.params
    BY DEF LaterList
  <1>6. /\ LastGiven(<<d.filter, e.filter>>) = Later(d.filter, e.filter)
        /\ LastGiven(<<d.defaults.timeouts, e.defaults.timeouts>>) =
             Later(d.defaults.timeouts, e.defaults.timeouts)
        /\ LastGiven(<<d.defaults.label, e.defaults.label>>) =
             Later(d.defaults.label, e.defaults.label)
    BY LastOfTwo
  <1> QED
    BY <1>1, <1>2, <1>3, <1>4, <1>5, <1>6 DEF TriggerMergedByName

(* A trigger without counterpart stays as it is.                           *)
LEMMA OneTrigger ==
  ASSUME NEW t, NEW n
  PROVE  TriggerMergedByName(t, t, Unnamed(n)) /\ TriggerMergedByName(t, Unnamed(n), t)
  <1> DEFINE u == Unnamed(n)
  <1>1. /\ u.filter = None /\ u.pipelines = <<>> /\ u.defaults.timeouts = None
        /\ u.defaults.params = <<>> /\ u.defaults.label = None
    BY DEF Unnamed, EmptyPart
  <1> HIDE DEF u
  <1>2. ASSUME NEW a PROVE LastGiven(<<a, None>>) = a /\ LastGiven(<<None, a>>) = a
    BY LastOfTwo DEF Later
  <1>3. TriggerMergedByName(t, t, u)
    BY <1>1, <1>2 DEF TriggerMergedByName
  <1>4. TriggerMergedByName(t, u, t)
    BY <1>1, <1>2 DEF TriggerMergedByName
  <1> QED
    BY <1>3, <1>4 DEF u

(* The result of the chain is the merge by name.                           *)
LEMMA ResultMergedByName ==
  ASSUME ChainInv, CentralNumbered
  PROVE  MergedByName
  <1>1. SUFFICES ASSUME Loaded, local # None, LocalWellNamed, Distinct(central.defaults.items)
                 PROVE  MergedByName
    BY DEF MergedByName
  <1>2. /\ central \in Config /\ local \in Config /\ ext \in Config
        /\ ext = MergeConfig(central, local).cfg
    BY <1>1 DEF ChainInv, Result
  <1> DEFINE items == MergeLists(central.defaults.items, local.defaults.items).items
             triggers == MergeLists(central.triggers, local.triggers).items
  <1>3. /\ ext.defaults.items = items /\ ext.triggers = triggers
        /\ ext.defaults.params = central.defaults.params \o local.defaults.params
        /\ ext.defaults.label = Later(central.defaults.label, local.defaults.label)
    BY <1>2 DEF MergeConfig
  <1>4. /\ Distinct(central.triggers) /\ Distinct(local.triggers)
        /\ Distinct(local.defaults.items)
    BY <1>1 DEF CentralNumbered, Distinct, LocalWellNamed
  <1>5. /\ central.triggers \in Seq(Trigger) /\ local.triggers \in Seq(Trigger)
        /\ central.defaults.items \in Seq(Item) /\ local.defaults.items \in Seq(Item)
        /\ ext.defaults.items \in Seq(Item) /\ ext.triggers \in Seq(Trigger)
    BY <1>2, ConfigFields
  <1>6. /\ IsMerge(central.defaults.items, local.defaults.items, ext.defaults.items)
        /\ IsMerge(central.triggers, local.triggers, ext.triggers)
    BY <1>1, <1>3, <1>4, <1>5, ItemsMerge, TriggersMerge, MergeListsMerges
  <1> HIDE DEF items, triggers
  <1>7. /\ Distinct(ext.triggers)
        /\ NamesIn(ext.triggers) = NamesIn(central.triggers) \cup NamesIn(local.triggers)
        /\ \A i \in DOMAIN central.triggers : ext.triggers[i].name = i
    BY <1>6 DEF IsMerge, CentralNumbered
  <1>8. ASSUME NEW i \in DOMAIN ext.triggers
        PROVE  TriggerMergedByName(ext.triggers[i], Named(central, ext.triggers[i].name),
                                   Named(local, ext.triggers[i].name))
    <2> DEFINE t == ext.triggers[i]
    <2>1. CASE i \in DOMAIN central.triggers
      <3> DEFINE d == central.triggers[i]
      <3>1. t.name = d.name /\ Named(central, t.name) = d /\ d \in Trigger
        BY <1>4, <1>5, <1>6, <2>1, NamedAt DEF IsMerge
      <3>2. CASE t.name \in NamesIn(local.triggers)
        <4>1. PICK j \in DOMAIN local.triggers : local.triggers[j].name = t.name
          BY <3>2, NameAt
        <4>2. t = merge(d, local.triggers[j])
          BY <1>6, <2>1, <3>1, <4>1 DEF IsMerge
        <4>3. Named(local, t.name) = local.triggers[j] /\ local.triggers[j] \in Trigger
          BY <1>4, <1>5, <4>1, NamedAt
        <4> HIDE DEF t, d
        <4>4. TriggerMergedByName(merge(d, local.triggers[j]), d, local.triggers[j])
          BY <3>1, <4>3, TwoTriggers
        <4> QED
          BY <3>1, <4>2, <4>3, <4>4 DEF t
      <3>3. CASE t.name \notin NamesIn(local.triggers)
        <4>1. t = d
          BY <1>6, <2>1, <3>1, <3>3 DEF IsMerge
        <4>2. Named(local, t.name) = Unnamed(t.name)
          BY <3>3, NotNamed
        <4> HIDE DEF t, d
        <4>3. TriggerMergedByName(t, t, Unnamed(t.name))
          BY OneTrigger
        <4> QED
          BY <3>1, <4>1, <4>2, <4>3 DEF t
      <3> QED
        BY <3>2, <3>3
    <2>2. CASE i \notin DOMAIN central.triggers
      <3>1. i > Len(central.triggers)
        BY <1>5, <2>2
      <3>2. PICK j \in DOMAIN local.triggers :
              t = local.triggers[j] /\ local.triggers[j].name \notin NamesIn(central.triggers)
        BY <1>6, <3>1 DEF IsMerge
      <3>3. Named(local, t.name) = t /\ Named(central, t.name) = Unnamed(t.name)
        BY <1>4, <3>2, NamedAt, NotNamed
      <3> HIDE DEF t
      <3>4. TriggerMergedByName(t, Unnamed(t.name), t)
        BY OneTrigger
      <3> QED
        BY <3>3, <3>4 DEF t
    <2> QED
      BY <2>1, <2>2
  <1>9. ASSUME NEW n
        PROVE  ValueIn(ext.defaults.items, n) =
                 LastGiven(<<ValueIn(central.defaults.items, n), ValueIn(local.defaults.items, n)>>)
    <2>1. ValueIn(ext.defaults.items, n) =
            Later(ValueIn(central.defaults.items, n), ValueIn(local.defaults.items, n))
      BY <1>1, <1>4, <1>5, <1>6, MergedValues
    <2> QED
      BY <2>1, LastOfTwo
  <1>10. ext.defaults.label = LastGiven(<<central.defaults.label, local.defaults.label>>)
    BY <1>3, LastOfTwo
  <1>11. NamesIn(ext.defaults.items) =
           NamesIn(central.defaults.items) \cup NamesIn(local.defaults.items)
    BY <1>6 DEF IsMerge
  <1> QED
    BY <1>3, <1>7, <1>8, <1>9, <1>10, <1>11 DEF MergedByName, TriggerMergedByName

(* What the repository adds is merged by name into the central             *)
(* configuration (Config.Merge), whatever both are.                        *)
THEOREM LocalMergedByName == Spec => []MergedByName
  <1>1. Spec => []ChainInv
    BY InitTyped, NextKeepsChainInv, PTL DEF Spec
  <1> QED
    BY <1>1, CentralStaysNumbered, ResultMergedByName, PTL

-----------------------------------------------------------------------------
(* The build goes on as it should, and what stops a request before is      *)
(* known.                                                                  *)
OutcomeInv ==
  /\ Loaded => ProgressInv /\ fault = "none"
  /\ ~ Loaded => outcome # "OK" /\ (outcome = "error" => fault = "failed")
  /\ outcome = "open" => fault = "none"

(* Nothing is done when the configuration is loaded.                       *)
LEMMA LoadProgress ==
  ASSUME ChainInv, Decode, fault = "none"
  PROVE  ProgressInv'
  <1>1. /\ pc = "load" /\ Load(ext) /\ job = <<0, 0>> /\ outcome = "open" /\ mode' = mode
        /\ BuildInv /\ ext \in Config
    BY DEF Decode, ChainInv
  <1>2. /\ BuildInv' /\ job' = <<1, 0>> /\ pc' = "filter" /\ orig' = mem'
        /\ outcome' = "open" /\ built' = built
    BY <1>1, LoadKeepsInv DEF Load
  <1>3. built = <<>>
    BY <1>1 DEF BuildInv, Unloaded
  <1>4. Shape' /\ filter' \in Seq(Verdicts) /\ mode' \in {"trigger", "validator"}
    BY <1>2 DEF BuildInv, BuildTypeOK
  <1>5. ASSUME NEW k \in Jobs' PROVE ~ Before(k, job')
    <2>1. k \in Parts' /\ k[1] > 0 /\ k[2] > 0
      BY DEF Jobs
    <2>2. k \in (DOMAIN filter') \X Nat
      BY <1>4, <2>1 DEF Shape
    <2>3. k[1] \in Nat /\ k[2] \in Nat
      BY <1>4, <2>2
    <2> QED
      BY <1>2, <2>1, <2>3 DEF Before
  <1>6. SameParams' /\ RunPoints' /\ LabelsKept' /\ RunLabel' /\ InOrder(built)' /\ Labelled(built)'
    BY <1>2, <1>3 DEF SameParams, RunPoints, LabelsKept, RunLabel, InOrder, Labelled
  <1>7. {built'[i].job : i \in DOMAIN built'} = {} /\ Done(job)' = {}
    BY <1>2, <1>3, <1>5 DEF Done
  <1>8. \A p \in Parts' : ~ Touched(p)'
    BY <1>5 DEF Touched
  <1>9. ParamsTracked'
    BY <1>2, <1>8 DEF ParamsTracked
  <1>10. \A t \in DOMAIN filter' : ~ (t < job'[1])
    BY <1>2, <1>4
  <1> QED
    BY <1>2, <1>5, <1>6, <1>7, <1>9, <1>10 DEF ProgressInv

(* There is no outcome at first.                                           *)
LEMMA InitExplained ==
  ASSUME Init
  PROVE  OutcomeInv
  BY DEF Init, BuildInit, OutcomeInv, Loaded

(* Every step that ends a request has its reason.                          *)
LEMMA NextExplained ==
  ASSUME ChainInv, OutcomeInv, [Next]_vars
  PROVE  OutcomeInv'
  <1>1. CASE UNCHANGED vars
    <2>1. /\ UNCHANGED <<mode, filter, orig, mem, pc, job, step, run, built, outcome, fault>>
      BY <1>1 DEF vars, config, progress, sources
    <2>2. ASSUME ProgressInv PROVE ProgressInv'
      <3>1. Parts' = Parts /\ Jobs' = Jobs
        BY <2>1 DEF Jobs, Parts
      <3>2. SameParams' /\ RunPoints' /\ Done(job)' = Done(job)
        BY <2>1, <2>2, <3>1 DEF ProgressInv, SameParams, RunPoints, Done
      <3>7. LabelsKept' /\ RunLabel' /\ InOrder(built)'
        BY <2>1, <2>2, <3>1 DEF ProgressInv, LabelsKept, RunLabel, InOrder, Before
      <3>8. Labelled(built)'
        BY <2>1, <2>2, LabelsStay DEF ProgressInv
      <3>3. \A p \in Parts : Touched(p)' <=> Touched(p)
        BY <2>1, <3>1 DEF Touched
      <3>4. ParamsTracked => ParamsTracked'
        BY <2>1, <3>1, <3>3 DEF ParamsTracked
      <3>5. \A k \in Jobs : Unevaluable(k)' <=> Unevaluable(k)
        BY <2>1, <3>1, UnevaluableStays
      <3>6. Unevaluable(job) => Unevaluable(job)'
        BY <2>1, <3>1, UnevaluableStays
      <3> QED
        BY <2>1, <2>2, <3>1, <3>2, <3>4, <3>5, <3>6, <3>7, <3>8 DEF ProgressInv
    <2> QED
      BY <2>1, <2>2 DEF OutcomeInv, Loaded
  <1>2. CASE ReadCentral \/ ReadLocal
    <2>1. /\ job' = job /\ job = <<0, 0>> /\ outcome = "open" /\ fault' = fault
          /\ outcome' \in {"open", "panic"}
      BY <1>2 DEF ReadCentral, ReadLocal, Extend, Finish, ChainInv
    <2> QED
      BY <2>1 DEF OutcomeInv, Loaded
  <1>3. CASE ReadFails \/ NoResponse \/ ColdGet
    <2>1. /\ job' = job /\ job = <<0, 0>>
          /\ \/ outcome' = "error" /\ fault' = "failed"
             \/ outcome' = "panic" /\ fault' \in {"cold", "noResponse"}
      BY <1>3 DEF ReadFails, NoResponse, ColdGet, Finish, ChainInv
    <2> QED
      BY <2>1 DEF OutcomeInv, Loaded
  <1>4. CASE Decode
    <2>1. fault = "none" /\ fault' = fault /\ outcome' = "open" /\ job' = <<1, 0>>
      BY <1>4 DEF Decode, Load, ChainInv, OutcomeInv
    <2> QED
      BY <1>4, <2>1, LoadProgress DEF OutcomeInv, Loaded
  <1>5. CASE Build /\ UNCHANGED <<mode, sources, ext, fault>>
    <2>1. Build /\ mode' = mode /\ fault' = fault /\ BuildInv
      BY <1>5 DEF ChainInv
    <2>2. pc \in {"filter", "merge", "reconcile"} /\ Loaded
      BY <2>1 DEF Build, Match, Merge, Reconcile, BuildInv, Place, Loaded
    <2>3. ProgressInv'
      BY <2>1, <2>2, BuildProgress DEF OutcomeInv
    <2>4. Loaded'
      <3>1. job \in Nat \X Nat
        BY <2>1 DEF BuildInv, BuildTypeOK
      <3>2. CASE Match
        BY <2>2, <3>1, <3>2 DEF Match, Loaded
      <3>3. CASE Merge
        BY <2>2, <3>3 DEF Merge, Loaded
      <3>4. CASE Reconcile
        BY <2>2, <3>1, <3>4 DEF Reconcile, Loaded
      <3> QED
        BY <2>1, <3>2, <3>3, <3>4 DEF Build
    <2> QED
      BY <2>1, <2>2, <2>3, <2>4 DEF OutcomeInv
  <1> QED
    BY <1>1, <1>2, <1>3, <1>4, <1>5 DEF Next

(* The merge of two configurations panics only over a list without names   *)
(* in the first, or a name that is twice in the second.                    *)
LEMMA MergeConfigPanics ==
  ASSUME NEW c \in Config, NEW s \in Config, ~ MergeConfig(c, s).ok
  PROVE  c.defaults.bare \/ ~ Distinct(s.triggers) \/ ~ Distinct(s.defaults.items)
  <1>1. MergeConfig(c, s).ok = (/\ ~ c.defaults.bare
                                /\ MergeLists(c.defaults.items, s.defaults.items).ok
                                /\ MergeLists(c.triggers, s.triggers).ok)
    BY DEF MergeConfig
  <1>2. /\ c.defaults.items \in Seq(Item) /\ s.defaults.items \in Seq(Item)
        /\ c.triggers \in Seq(Trigger) /\ s.triggers \in Seq(Trigger)
    BY ConfigFields
  <1>3. Distinct(s.defaults.items) => MergeLists(c.defaults.items, s.defaults.items).ok
    BY <1>2, ItemsMerge, MergeListsOK
  <1>4. Distinct(s.triggers) => MergeLists(c.triggers, s.triggers).ok
    BY <1>2, TriggersMerge, MergeListsOK
  <1> QED
    BY <1>1, <1>3, <1>4

(* The invariant implies the property.                                     *)
LEMMA InvExplains ==
  ASSUME ChainInv, OutcomeInv
  PROVE  OutcomeIsExplained
  <1>1. ASSUME outcome = "OK"
        PROVE  /\ fault = "none" /\ {built[i].job : i \in DOMAIN built} = Jobs
               /\ mode = "trigger" =>
                    /\ \A t \in DOMAIN filter : filter[t] # "error"
                    /\ \A j \in Jobs : ~ Unevaluable(j)
    <2>1. /\ ProgressInv /\ fault = "none" /\ job # <<0, 0>> /\ job[1] > Len(filter)
          /\ BuildInv
      BY <1>1 DEF OutcomeInv, Loaded, ProgressInv, ChainInv
    <2>2. \A k \in Jobs : Before(k, job)
      BY <2>1, AllDone
    <2>3. Done(job) = Jobs
      BY <2>2 DEF Done
    <2>4. \A t \in DOMAIN filter : t < job[1]
      <3>1. filter \in Seq(Verdicts) /\ job \in Nat \X Nat
        BY <2>1 DEF BuildInv, BuildTypeOK
      <3> QED
        BY <2>1, <3>1
    <2> QED
      BY <2>1, <2>2, <2>3, <2>4 DEF ProgressInv
  <1>2. ASSUME outcome = "error"
        PROVE  \/ fault = "failed"
               \/ /\ mode = "trigger" /\ Loaded
                  /\ IF job[2] = 0 THEN filter[job[1]] = "error" ELSE Unevaluable(job)
    BY <1>2 DEF OutcomeInv, ProgressInv
  <1>3. ASSUME outcome = "panic", ~ Loaded
        PROVE  fault \in {"cold", "noResponse"} \/ central.defaults.bare \/ ~ LocalWellNamed
    <2>1. fault \in {"cold", "noResponse"} \/ (local # None /\ ~ MergeConfig(central, local).ok)
      BY <1>3 DEF ChainInv
    <2>2. CASE local # None /\ ~ MergeConfig(central, local).ok
      <3>1. central \in Config /\ local \in Config
        BY <2>2 DEF ChainInv
      <3> QED
        BY <2>2, <3>1, MergeConfigPanics DEF LocalWellNamed
    <2> QED
      BY <2>1, <2>2
  <1> QED
    BY <1>1, <1>2, <1>3 DEF OutcomeIsExplained

(* How a request ends is explained by its configurations and by what fails *)
(* on the way, whatever the configurations are.                            *)
THEOREM OutcomeExplained == Spec => []OutcomeIsExplained
  <1>1. Spec => []ChainInv
    BY InitTyped, NextKeepsChainInv, PTL DEF Spec
  <1>2. Spec => []OutcomeInv
    BY <1>1, InitExplained, NextExplained, PTL DEF Spec
  <1> QED
    BY <1>1, <1>2, InvExplains, PTL

-----------------------------------------------------------------------------
(* What a step does to a build: it loads, goes on with it, or leaves it    *)
(* alone.                                                                  *)
LEMMA Steps ==
  ASSUME ChainInv, [Next]_vars
  PROVE  /\ BuildInv
         /\ \/ Loaded /\ Loaded' /\ Build /\ mode' = mode
            \/ ~ Loaded /\ Loaded' /\ Decode
            \/ ~ Loaded /\ ~ Loaded'
            \/ Loaded /\ UNCHANGED <<mode, filter, orig, mem, pc, job, step, run, built, outcome>>
  <1>1. BuildInv
    BY DEF ChainInv
  <1>2. CASE UNCHANGED vars
    BY <1>1, <1>2 DEF vars, config, progress, sources, Loaded
  <1>3. CASE ReadCentral \/ ReadLocal \/ ReadFails \/ NoResponse \/ ColdGet
    BY <1>1, <1>3 DEF ReadCentral, ReadLocal, ReadFails, NoResponse, ColdGet, Loaded, ChainInv
  <1>4. CASE Decode
    BY <1>1, <1>4 DEF Decode, Load, Loaded, ChainInv
  <1>5. CASE Build /\ UNCHANGED <<mode, sources, ext, fault>>
    <2>1. pc \in {"filter", "merge", "reconcile"} /\ Loaded /\ job \in Nat \X Nat
      BY <1>1, <1>5 DEF Build, Match, Merge, Reconcile, BuildInv, BuildTypeOK, Place, Loaded
    <2>2. CASE Match
      BY <1>1, <1>5, <2>1, <2>2 DEF Match, Loaded
    <2>3. CASE Merge
      BY <1>1, <1>5, <2>1, <2>3 DEF Merge, Loaded
    <2>4. CASE Reconcile
      BY <1>1, <1>5, <2>1, <2>4 DEF Reconcile, Loaded
    <2> QED
      BY <1>5, <2>2, <2>3, <2>4 DEF Build
  <1> QED
    BY <1>2, <1>3, <1>4, <1>5 DEF Next

(* What a build begins with.                                               *)
LEMMA WhatIsLoaded ==
  ASSUME ChainInv, Decode
  PROVE  /\ BuildInv' /\ mem' = orig' /\ job' = <<1, 0>> /\ pc' = "filter"
         /\ run' = EmptyRun /\ built' = <<>> /\ outcome' = "open"
  <1>1. pc = "load" /\ Load(ext) /\ job = <<0, 0>> /\ outcome = "open" /\ mode' = mode
        /\ BuildInv /\ ext \in Config
    BY DEF Decode, ChainInv
  <1>2. run = EmptyRun /\ built = <<>>
    BY <1>1 DEF BuildInv, Unloaded
  <1> QED
    BY <1>1, <1>2, LoadKeepsInv DEF Load

OwnershipInv == Loaded => Owned /\ (WellNamed => Gathered)

(* Every step keeps the invariant of ownership.                            *)
LEMMA NextOwned ==
  ASSUME ChainInv, OwnershipInv, [Next]_vars
  PROVE  OwnershipInv'
  <1>1. CASE Loaded /\ Loaded' /\ Build /\ mode' = mode
    <2>1. BuildInv /\ Parts' = Parts /\ orig' = orig
      BY <1>1, Steps, StepKeepsJobs
    <2>2. WellNamed' => WellNamed
      BY <2>1 DEF WellNamed
    <2> QED
      BY <1>1, <2>1, <2>2, BuildOwned, BuildGathers DEF OwnershipInv
  <1>2. CASE Decode
    <2>1. /\ BuildInv' /\ mem' = orig' /\ pc' = "filter" /\ run' = EmptyRun /\ built' = <<>>
      BY <1>2, WhatIsLoaded
    <2>2. Owned'
      BY <2>1 DEF Owned, EmptyRun
    <2>3. Gathered'
      BY <2>1 DEF Gathered, SameNames
    <2> QED
      BY <2>2, <2>3 DEF OwnershipInv
  <1>3. CASE Loaded /\ UNCHANGED <<mode, filter, orig, mem, pc, job, step, run, built, outcome>>
    BY <1>3 DEF OwnershipInv, Loaded, Owned, Gathered, WellNamed, Parts, NamesUpTo, Covers, Sources
  <1> QED
    BY <1>1, <1>2, <1>3, Steps DEF OwnershipInv

(* The invariant implies the property.                                     *)
LEMMA OwnershipMeans ==
  ASSUME ChainInv, OutcomeInv, OwnershipInv
  PROVE  OwnPartWins
  <1>1. CASE Loaded
    BY <1>1, OwnMeans DEF OwnershipInv, Gathered, OutcomeInv, ProgressInv
  <1>2. CASE ~ Loaded
    BY <1>2 DEF ChainInv, BuildInv, Unloaded, Loaded, OwnPartWins
  <1> QED
    BY <1>1, <1>2

(* What a pipeline itself gives is in its PipelineRun, and every name of   *)
(* its sources once, whatever was built and written before.                *)
THEOREM OwnPartsWin == Spec => []OwnPartWins
  <1>1. Init => OwnershipInv
    BY DEF Init, BuildInit, OwnershipInv, Loaded
  <1>2. Spec => []ChainInv
    BY InitTyped, NextKeepsChainInv, PTL DEF Spec
  <1>3. Spec => []OwnershipInv
    BY <1>1, <1>2, NextOwned, PTL DEF Spec
  <1>4. Spec => []OutcomeInv
    BY <1>2, InitExplained, NextExplained, PTL DEF Spec
  <1> QED
    BY <1>2, <1>3, <1>4, OwnershipMeans, PTL

-----------------------------------------------------------------------------
ForeseenInv == Loaded => Foreseen

(* No pipeline is built before the first filter.                           *)
LEMMA LoadForesees ==
  ASSUME ChainInv, Decode
  PROVE  Foreseen'
  <1>1. /\ BuildInv' /\ mem' = orig' /\ job' = <<1, 0>> /\ pc' = "filter" /\ outcome' = "open"
    BY WhatIsLoaded
  <1>2. ASSUME NEW k \in Jobs' PROVE ~ Before(k, job')
    <2>1. Shape' /\ filter' \in Seq(Verdicts)
      BY <1>1 DEF BuildInv
    <2>2. k \in Parts' /\ k[1] > 0 /\ k[2] > 0
      BY DEF Jobs
    <2>3. k[1] \in Nat /\ k[2] \in Nat
      BY <2>1, <2>2 DEF Shape
    <2> QED
      BY <1>1, <2>2, <2>3 DEF Before
  <1>3. Collected' /\ DistinctStays'
    BY <1>1 DEF Collected, DistinctStays
  <1>4. NamesStay'
    BY <1>1 DEF NamesStay, SameNames
  <1> QED
    BY <1>1, <1>2, <1>3, <1>4 DEF Foreseen

(* Every step keeps the invariant of what is foreseen.                     *)
LEMMA NextForesees ==
  ASSUME ChainInv, OutcomeInv, OwnershipInv, ForeseenInv, [Next]_vars
  PROVE  ForeseenInv'
  <1>1. CASE Loaded /\ Loaded' /\ Build /\ mode' = mode
    BY <1>1, Steps, BuildForesees DEF OutcomeInv, OwnershipInv, ForeseenInv
  <1>2. CASE Decode
    BY <1>2, LoadForesees DEF ForeseenInv
  <1>3. CASE Loaded /\ UNCHANGED <<mode, filter, orig, mem, pc, job, step, run, built, outcome>>
    <2>1. Parts' = Parts /\ Jobs' = Jobs
      BY <1>3 DEF Parts, Jobs
    <2>2. Collected => Collected'
      BY <1>3 DEF Collected
    <2>3. DistinctStays => DistinctStays'
      BY <1>3, <2>1 DEF DistinctStays
    <2>4. NamesStay => NamesStay'
      BY <1>3, <2>1 DEF NamesStay, Renames
    <2> QED
      BY <1>3, <2>1, <2>2, <2>3, <2>4 DEF ForeseenInv, Foreseen
  <1> QED
    BY <1>1, <1>2, <1>3, Steps DEF ForeseenInv

(* The invariant implies the property.                                     *)
LEMMA InvForesees ==
  ASSUME ChainInv, OutcomeInv, ForeseenInv
  PROVE  PanicIsForeseen
  <1>1. CASE Loaded
    BY <1>1, ForeseenMeans DEF ForeseenInv, OutcomeInv, ChainInv
  <1>2. CASE ~ Loaded
    BY <1>2 DEF OutcomeInv, Loaded, PanicIsForeseen
  <1> QED
    BY <1>1, <1>2

(* Whether building a pipeline panics does not depend on what is shared    *)
(* with the pipelines before it, on filters or on the request, unless both *)
(* it and one before repeat a name.                                        *)
THEOREM PanicForeseen == Spec => []PanicIsForeseen
  <1>1. Init => OwnershipInv /\ ForeseenInv
    BY DEF Init, BuildInit, OwnershipInv, ForeseenInv, Loaded
  <1>2. Spec => []ChainInv
    BY InitTyped, NextKeepsChainInv, PTL DEF Spec
  <1>3. Spec => []OutcomeInv
    BY <1>2, InitExplained, NextExplained, PTL DEF Spec
  <1>4. Spec => []OwnershipInv
    BY <1>1, <1>2, NextOwned, PTL DEF Spec
  <1>5. Spec => []ForeseenInv
    BY <1>1, <1>2, <1>3, <1>4, NextForesees, PTL DEF Spec
  <1> QED
    BY <1>2, <1>3, <1>5, InvForesees, PTL

-----------------------------------------------------------------------------
(* The invariant implies the property.                                     *)
LEMMA InvAllOrNothing ==
  ASSUME ChainInv, OutcomeInv, Handing, OutcomeIsExplained, PanicIsForeseen
  PROVE  AllOrNothing
  <1>1. SUFFICES ASSUME handed > 0 PROVE AllOrNothing
    BY DEF AllOrNothing
  <1>2. outcome = "OK" /\ mode = "trigger" /\ handed = Len(built)
    BY <1>1 DEF Handing
  <1>3. ProgressInv /\ BuildInv
    BY <1>2 DEF OutcomeInv, ChainInv
  <1>4. DOMAIN built = 1 .. handed
    <2>1. built \in Seq([job : Parts, timeouts : Source \cup {None}, label : Label,
                         items : Seq(Item), params : Seq(Param)])
      BY <1>3 DEF BuildInv, BuildTypeOK
    <2> QED
      BY <1>2, <2>1
  <1>5. ASSUME NEW i \in 1 .. handed, NEW k \in 1 .. handed, i < k
        PROVE  Before(built[i].job, built[k].job)
    <2>1. i \in 1 .. k - 1
      BY <1>5
    <2> QED
      BY <1>3, <1>4, <2>1 DEF ProgressInv, InOrder
  <1>6. /\ fault = "none" /\ {built[i].job : i \in DOMAIN built} = Jobs
        /\ \A t \in DOMAIN filter : filter[t] # "error"
        /\ \A j \in Jobs : ~ Unevaluable(j)
    BY <1>2 DEF OutcomeIsExplained
  <1>7. \A j \in Jobs : Panics(j) => Renamed(j)
    BY <1>2 DEF PanicIsForeseen
  <1> QED
    BY <1>2, <1>4, <1>5, <1>6, <1>7 DEF AllOrNothing

(* PipelineRuns are created only when the request goes through as a whole; *)
(* then there is one for each pipeline of each matching trigger, in their  *)
(* order.                                                                  *)
THEOREM AllOrNone == Spec => []AllOrNothing
  <1>1. Spec => []ChainInv
    BY InitTyped, NextKeepsChainInv, PTL DEF Spec
  <1>2. Spec => []OutcomeInv
    BY <1>1, InitExplained, NextExplained, PTL DEF Spec
  <1> QED
    BY <1>1, <1>2, HandedAtTheEnd, OutcomeExplained, PanicForeseen, InvAllOrNothing, PTL

-----------------------------------------------------------------------------
TameChain == Loaded => TameInv

(* What is loaded is untouched.                                            *)
LEMMA LoadTame ==
  ASSUME ChainInv, Decode
  PROVE  TameInv'
  <1>1. /\ mem' = orig' /\ pc' = "filter" /\ run' = EmptyRun /\ built' = <<>>
    BY WhatIsLoaded
  <1>2. BuiltRight'
    BY <1>1 DEF BuiltRight
  <1>3. Holding' /\ Clean' /\ Gives' /\ ParamsKept'
    BY <1>1 DEF Holding, Clean, Gives, ParamsKept, Building, Kept
  <1> QED
    BY <1>2, <1>3 DEF TameInv, Untouched

(* What does not touch the build keeps the invariant.                      *)
LEMMA StillTame ==
  ASSUME TameInv, UNCHANGED <<mode, filter, orig, mem, pc, job, step, run, built>>
  PROVE  TameInv'
  <1>1. Parts' = Parts /\ Jobs' = Jobs /\ (WellNamed' <=> WellNamed)
    BY DEF Parts, Jobs, WellNamed
  <1>2. (BuiltRight' <=> BuiltRight) /\ (Tames' <=> Tames)
    BY DEF BuiltRight, Tames
  <1>3. (Building' <=> Building) /\ \A q : (Taken(q)' <=> Taken(q)) /\ (Kept(q)' <=> Kept(q))
    BY DEF Building, Taken, Kept, Sources
  <1>4. (TimeoutsGiven' <=> TimeoutsGiven) /\ (ItemsGiven' <=> ItemsGiven)
    BY DEF TimeoutsGiven, ItemsGiven, TimeoutsOf, ValuesOf
  <1>5. Tame(job)' <=> Tame(job)
    BY DEF Tame, Sources
  <1>6. \A p : Stale(p)' <=> Stale(p)
    BY <1>1 DEF Stale, Before
  <1>7. (Clean' <=> Clean) /\ (ParamsKept' <=> ParamsKept)
    BY <1>1, <1>3, <1>6 DEF Clean, ParamsKept
  <1>8. Gives' <=> Gives
    BY <1>1, <1>3, <1>4, <1>5 DEF Gives
  <1>9. Holding' <=> Holding
    BY DEF Holding, Building, Taken, Sources
  <1> QED
    BY <1>1, <1>2, <1>7, <1>8, <1>9 DEF TameInv, Untouched

(* Every step keeps the invariant.                                         *)
LEMMA NextTame ==
  ASSUME ChainInv, OutcomeInv, OwnershipInv, TameChain, [Next]_vars
  PROVE  TameChain'
  <1>1. CASE Loaded /\ Loaded' /\ Build /\ mode' = mode
    BY <1>1, Steps, BuildTame DEF OutcomeInv, OwnershipInv, TameChain
  <1>2. CASE Decode
    BY <1>2, LoadTame DEF TameChain
  <1>3. CASE Loaded /\ UNCHANGED <<mode, filter, orig, mem, pc, job, step, run, built, outcome>>
    BY <1>3, StillTame DEF TameChain
  <1> QED
    BY <1>1, <1>2, <1>3, Steps DEF TameChain

(* The invariant implies the property.                                     *)
LEMMA InvTame ==
  ASSUME ChainInv, TameChain
  PROVE  RunAfterTameOnes
  <1>1. CASE Loaded
    BY <1>1, TameInvMeans DEF TameChain
  <1>2. CASE ~ Loaded
    BY <1>2 DEF ChainInv, BuildInv, Unloaded, Loaded, RunAfterTameOnes
  <1> QED
    BY <1>1, <1>2

(* A PipelineRun is what its three parts say, as long as the pipelines     *)
(* built before it have written to nothing it shares with them.            *)
THEOREM TameOnesAsExpected == Spec => []RunAfterTameOnes
  <1>1. Init => OwnershipInv /\ TameChain
    BY DEF Init, BuildInit, OwnershipInv, TameChain, Loaded
  <1>2. Spec => []ChainInv
    BY InitTyped, NextKeepsChainInv, PTL DEF Spec
  <1>3. Spec => []OutcomeInv
    BY <1>2, InitExplained, NextExplained, PTL DEF Spec
  <1>4. Spec => []OwnershipInv
    BY <1>1, <1>2, NextOwned, PTL DEF Spec
  <1>5. Spec => []TameChain
    BY <1>1, <1>2, <1>3, <1>4, NextTame, PTL DEF Spec
  <1> QED
    BY <1>2, <1>5, InvTame, PTL
=============================================================================
