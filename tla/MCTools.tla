------------------------------ MODULE MCTools ------------------------------
(***************************************************************************)
(* The repository's smaller programs on small instances: the tools that    *)
(* talk to GitHub, and the calculation graphs of the Kafka calculator.     *)
(* They share no state, so a behaviour exercises one of them, chosen at    *)
(* the start, and the state spaces add up instead of multiplying.          *)
(***************************************************************************)
EXTENDS Tools, Calculation

VARIABLE surface

\* Two tickets, the second blocked by the first, the first by an issue of
\* somebody else's; ready for work, or taken out of triage by hand.
Tickets == <<[tickets |-> {}, issues |-> {1}, labels |-> {"ready"}],
             [tickets |-> {1}, issues |-> {}, labels |-> {"ready"}]>>

\* A reviewer asks and polls; a scheduled wake observes; a wake is told of a
\* head that may already be stale.
Commands ==
    {[actions |-> {"request", "poll", "track"}, kinds |-> {"review", "ask", "push"},
      edits |-> 2, heads |-> {"h1"}],
     [actions |-> {"wake", "track"}, kinds |-> {"review", "ask", "build", "push"},
      edits |-> 2, heads |-> {"h1"}],
     [actions |-> {"wake"}, kinds |-> {"review", "push"}, edits |-> 2, heads |-> {"h1", "h2"}]}

\* Two heads that change the same source file; the other file is documentation.
Files == {"f", "g"}
Started == [p \in Files |-> "old"]
TreeOf(head) == [Started EXCEPT !["f"] = IF head = "h1" THEN "new" ELSE "newer"]
Row(name, ok) == [name |-> name, app |-> IF name = "codecov" THEN "codecov" ELSE "actions", ok |-> ok]
Passing == {Row("test", TRUE), Row("codecov", TRUE)}
Workflows == {Row("tests", TRUE), Row("coverage", TRUE)}
Extra == [name |-> "extra", ok |-> TRUE]

Extras == {[name |-> "extra", app |-> "any"]}
Published ==
    {[checks |-> Passing, statuses |-> {Extra}, workflows |-> Workflows],
     [checks |-> Passing \cup {Row("extra", TRUE)}, statuses |-> {}, workflows |-> {}],
     [checks |-> {Row("test", FALSE)}, statuses |-> {Extra}, workflows |-> Workflows],
     [checks |-> Passing, statuses |-> {}, workflows |-> Workflows]}
Passed == {[files |-> {"f"}, review |-> [head |-> h, findings |-> 0]] : h \in {"h1", "h2"}}

\* Four nodes, each an input or a sum of two of them, the last a sum: chains,
\* diamonds, repeated operands, cycles and nodes nobody reads.
Pairs == {<<i, k>> \in (1 .. 4) \X (1 .. 4) : i <= k}
Shapes == [1 .. 3 -> {<< >>} \cup Pairs] \X {<<1, 2>>, <<3, 3>>, <<2, 4>>}
Name(p) == <<<<"p1">>, <<"p2">>, <<"p3">>, <<"p4">>>>[p]

Sums(shape) ==
    LET pair(p) == IF p = 4 THEN shape[2] ELSE shape[1][p]
        operand(p) == K!Operand(K!NodeId(IF pair(p) = << >> THEN "input" ELSE "derived", Name(p)), "term")
        node(p) == IF pair(p) = << >> THEN K!Input(Name(p), << >>, "Scalar", << >>)
                   ELSE K!Derived(Name(p), << >>,
                            K!Expression("Add", <<operand(pair(p)[1]), operand(pair(p)[2])>>))
    IN K!Graph([p \in 1 .. 4 |-> node(p)], << >>, <<K!NodeId("derived", Name(4))>>)

\* A setting over two quantities, and a finding that compares it with one.
Left == K!Operand(K!NodeId("input", Name(1)), "left")
Right == K!Operand(K!NodeId("constant", Name(2)), "right")
Result == K!NodeId("setting", Name(3))
Check == K!NodeId("finding", Name(4))

Typed(left, right, operation, count) ==
    K!Graph(<<K!Finding(Name(4), <<"c1">>, K!Comparison(K!Operand(Result, "left"), Left)),
              K!Input(Name(1), << >>, left, <<K!Value(left)>>), K!Constant(Name(2), << >>, K!Value(right)),
              K!Setting(Name(3), <<"c1">>, "key", K!Expression(operation, SubSeq(<<Left, Right>>, 1, count))),
              K!Derived(Name(2), << >>, K!Expression("Reference", <<Right>>))>>,
            <<"c1">>, <<Check, Result, K!NodeId("derived", Name(2))>>)

Sound == Typed("Scalar", "Scalar", "Add", 2)

\* The sound graph with one declaration or one list replaced.
With(p, node) == [Sound EXCEPT !.nodes[p] = node]

Defective ==
    {With(2, K!Input(suffix, << >>, "Scalar", << >>)) :
        suffix \in {<< >>, <<"p1", "">>, <<"9">>, <<"p1", "a!">>, Name(2)}}
    \cup {With(2, K!Input(Name(1), << >>, "Scalar", <<K!Value("Ratio")>>)),
          With(3, K!Constant(Name(2), <<"c2">>, K!Value("Scalar"))),
          With(3, K!Constant(Name(2), << >>, K!Negative("Scalar"))),
          With(4, K!Setting(Name(3), << >>, "", K!Expression("Reference", <<Left>>))),
          With(5, K!Setting(Name(2), << >>, "key", K!Expression("Reference", <<Right>>))),
          With(5, K!Derived(Name(2), << >>, K!Expression("Reference", <<K!Operand(Check, "source")>>))),
          With(5, K!Derived(Name(2), << >>, K!Expression("Reference", <<K!Operand(Left.id, "")>>))),
          With(5, K!Constant(Name(2), << >>, K!Value("Scalar"))),
          With(1, K!Finding(Name(4), << >>, K!Nothing)),
          [Sound EXCEPT !.citations = <<"c1", "c1">>],
          [Sound EXCEPT !.outputs = << >>],
          [Sound EXCEPT !.outputs = <<Check, Check>>],
          [Sound EXCEPT !.outputs = <<Check, Left.id>>],
          [Sound EXCEPT !.outputs = <<Check>>]}

Profiles ==
    {Sums(shape) : shape \in Shapes} \cup Defective
    \cup {Typed(left, right, operation, 2) : left, right \in K!ValueTypes,
                operation \in {"Add", "Multiply", "Minimum", "Maximum", "CeilingDivide"}}
    \cup {Typed(left, "Ratio", operation, 1) : left \in K!ValueTypes,
                operation \in {"Reference", "Ceiling", "ConvertDataSize"}}

ASSUME ProfilesAssumption == \A profile \in Profiles : K!IsProfile(profile)

graphVars == <<definition, phase, states, stack, degree, ready, order, resolved,
               queue, reachable, verdict>>
vars == <<surface, publicationVars, reviewVars, mergeVars, graphVars>>

\* The programs that rest have one initial state.
Init == /\ surface \in {"publication", "review", "merge", "graph"}
        /\ T!Init /\ H!Init /\ M!Init
        /\ surface # "publication" => others = 0
        /\ surface # "review" => scenario = CHOOSE s \in Scenarios : TRUE
        /\ surface # "merge" => \A h \in {"h1", "h2"} : Cardinality(build[h].checks) = 3
        /\ \E profile \in IF surface = "graph" THEN Profiles ELSE {Sound} : K!Init(profile)

Next ==
    /\ UNCHANGED surface
    /\ \/ /\ surface = "publication" /\ T!Next
          /\ UNCHANGED <<reviewVars, mergeVars, graphVars>>
       \/ /\ surface = "review" /\ H!Next
          /\ UNCHANGED <<publicationVars, mergeVars, graphVars>>
       \/ /\ surface = "merge" /\ M!Next
          /\ UNCHANGED <<publicationVars, reviewVars, graphVars>>
       \/ /\ surface = "graph" /\ K!Next
          /\ UNCHANGED <<publicationVars, reviewVars, mergeVars>>

Spec == Init /\ [][Next]_vars
=============================================================================
