----------------------------- MODULE MCConfigChain -----------------------------
(* An instance of ConfigChain: every kind of value in every part.          *)
EXTENDS ConfigChain

MCShapes == {<<2>>, <<1, 1>>, <<>>, <<1>>, <<0, 0>>}
MCOverlaid == {<<>>, <<1>>, <<0, 0>>}

Element(n, s) == [name |-> n, set |-> s]
Nothing == [timeouts |-> FALSE, label |-> None, items |-> <<>>, spare |-> 0,
            bare |-> FALSE, params |-> <<>>]
Timeouts == [Nothing EXCEPT !.timeouts = TRUE]
Items(s, room) == [Nothing EXCEPT !.items = s, !.spare = room]
Params(n, v) == [Nothing EXCEPT !.params = <<[name |-> n, val |-> v]>>]
Labelled(c, v) == [c EXCEPT !.label = v]
Bare == [Nothing EXCEPT !.bare = TRUE]

A == Element("a", TRUE)
B == Element("b", TRUE)
NoB == Element("b", FALSE)

MCDefaultChoices ==
  {Nothing, Timeouts, Bare, Items(<<A>>, 0), Items(<<A, NoB>>, 0), Items(<<A>>, 1),
   Labelled(Params("a", "nested"), "nested"), Params("b", "poison")}
MCTriggerChoices ==
  {Nothing, Timeouts, Bare, Items(<<B>>, 0), Items(<<B, A>>, 1),
   Labelled(Params("b", "nested"), "undefined"), Params("a", "poison")}
MCPipelineChoices ==
  {Nothing, Labelled(Timeouts, "expr"), Bare, Items(<<A>>, 0), Items(<<NoB>>, 0),
   Items(<<B, B>>, 0), Items(<<B, B, A, A>>, 0), Params("a", "undefined"),
   Labelled(Params("b", "text"), "poison")}

(* A local trigger, the t-th, with a name, a filter, defaults and the      *)
(* choices of its pipelines.                                               *)
Local(t, n, f, d, ps) ==
  [name |-> n, filter |-> f, defaults |-> Decoded(<<"local", t, 0>>, d),
   pipelines |-> [k \in DOMAIN ps |-> Decoded(<<"local", t, k>>, ps[k])]]
LocalConfig(d, ts) == [defaults |-> Decoded(<<"local", 0, 0>>, d), triggers |-> ts]

(* Pipelines for a central trigger; other defaults for it; a new trigger   *)
(* before one that exists; one without a filter; two without a name; items *)
(* with a name twice; a slice without names.                               *)
MCLocals ==
  {EmptyConfig,
   LocalConfig(Nothing, << Local(1, 1, None, Nothing, <<Timeouts, Items(<<A>>, 0)>>) >>),
   LocalConfig(Timeouts, << Local(1, 1, "yes", Labelled(Params("a", "expr"), "nested"), <<>>) >>),
   LocalConfig(Items(<<B, A>>, 0),
     << Local(1, 3, "yes", Timeouts, <<Params("a", "text")>>),
        Local(2, 2, None, Items(<<A>>, 0), <<Timeouts>>) >>),
   LocalConfig(Labelled(Params("a", "nested"), "undefined"), << Local(1, 3, None, Nothing, <<Nothing>>) >>),
   LocalConfig(Nothing,
     << Local(1, 0, "yes", Nothing, <<Timeouts>>), Local(2, 0, "no", Bare, <<Nothing>>) >>),
   LocalConfig(Items(<<B, B>>, 0), <<>>),
   LocalConfig(Bare, << Local(1, 1, None, Bare, <<Nothing>>) >>)}
=============================================================================
