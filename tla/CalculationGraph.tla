-------------------------- MODULE CalculationGraph --------------------------
(***************************************************************************)
(* The calculation graph of the Kafka calculator (kafka_calculator/core):  *)
(* a client profile assembles typed nodes, citations and outputs, and      *)
(* `validate` turns the definition into a graph that can be evaluated, or  *)
(* reports the first defect it meets.                                      *)
(*                                                                         *)
(* A phase that is one pass over the declarations is one action; the       *)
(* depth-first search, the topological sort, the type resolution and the   *)
(* reachability search take one action per turn of their loops.  Labels,   *)
(* texts, units and amounts are left out, the sign of an amount is kept.   *)
(***************************************************************************)
EXTENDS Integers, Sequences, FiniteSets

VARIABLES
    definition,
    phase,
    states, stack,        \* validate_acyclic: visits, open calls of visit
    degree, ready, order, \* topological_sort: in_degree, heap, order
    resolved,             \* resolve_types: the nodes already typed
    pending, reachable,   \* validate_reachability
    verdict

vars == <<definition, phase, states, stack, degree, ready, order, resolved,
          pending, reachable, verdict>>

-----------------------------------------------------------------------------
(* Definitions. *)

ValueTypes == {"Scalar", "Ratio", "MessageCount", "DataSize"}

\* A finding has no value.
NoType == "none"

\* A quantity: its category, and whether its amount was negative.
Value(type) == [type |-> type, negative |-> FALSE]
Negative(type) == [type |-> type, negative |-> TRUE]

\* An identifier is a sequence of segments; only these are malformed.
BadStart == {"9"}
BadCharacter == {"a!"}

\* An operand names the node it reads.
Operand(id, role) == [id |-> id, role |-> role]

Expression(operation, operands) == [operation |-> operation, operands |-> operands]

Nothing == Expression("none", << >>)

\* The prefix of an ID is the node's type.
NodeId(kind, suffix) == <<kind, suffix>>

Node(kind, suffix, claims, values, expression, key) ==
    [kind |-> kind, id |-> NodeId(kind, suffix), suffix |-> suffix, claims |-> claims,
     values |-> values, expression |-> expression, key |-> key]

\* values[1] stands for the declared type, the others for the default and
\* the bounds of the hard constraints.
Input(suffix, claims, type, bounds) ==
    Node("input", suffix, claims, <<Value(type)>> \o bounds, Nothing, "none")

Constant(suffix, claims, value) ==
    Node("constant", suffix, claims, <<value>>, Nothing, "none")

Derived(suffix, claims, expression) ==
    Node("derived", suffix, claims, << >>, expression, "none")

Setting(suffix, claims, key, expression) ==
    Node("setting", suffix, claims, << >>, expression, key)

\* A condition is a comparison of two operands, or Nothing for Always.
Finding(suffix, claims, condition) ==
    Node("finding", suffix, claims, << >>, condition, "none")

Comparison(left, right) == Expression("Comparison", <<left, right>>)

Graph(nodes, citations, outputs) ==
    [nodes |-> nodes, citations |-> citations, outputs |-> outputs]

\* What the Rust types say of a definition: its lists are lists, a node is of a
\* kind, declares typed values, and an expression has an operation.
IsList(list) == list \in Seq({list[i] : i \in DOMAIN list})

Kinds == {"input", "constant", "derived", "setting", "finding"}

Operations == {"Reference", "Add", "Minimum", "Maximum", "Multiply", "Ceiling",
               "CeilingDivide", "ConvertDataSize"}

IsProfile(profile) ==
    /\ IsList(profile.nodes) /\ IsList(profile.citations) /\ IsList(profile.outputs)
    /\ \A i \in DOMAIN profile.nodes :
          LET node == profile.nodes[i] IN
          /\ node.kind \in Kinds
          /\ IsList(node.suffix) /\ IsList(node.values) /\ IsList(node.claims)
          /\ IsList(node.expression.operands)
          /\ node.kind \in {"input", "constant"} =>
                node.values # << >> /\ node.values[1].type \in ValueTypes
          /\ node.kind \in {"derived", "setting"} => node.expression.operation \in Operations

Nodes == definition.nodes
Indices == DOMAIN Nodes

operands(i) == Nodes[i].expression.operands

-----------------------------------------------------------------------------
(* Verdicts. *)

Defect(error, id, path) == [error |-> error, id |-> id, path |-> path]
None == Defect("none", << >>, << >>)

Smallest(S) == CHOOSE n \in S : \A k \in S : n <= k

\* The defect of the first item, in declaration order, that has one.
FirstOf(defects) ==
    LET bad == {i \in DOMAIN defects : defects[i] # None}
    IN IF bad = {} THEN None ELSE defects[Smallest(bad)]

\* A phase that returned `defect`.
Conclude(defect, next) ==
    /\ phase' = IF defect = None THEN next ELSE "rejected"
    /\ verdict' = defect

search == <<states, stack>>
sort == <<degree, ready, order>>
reach == <<pending, reachable>>

-----------------------------------------------------------------------------
(* Assembly: the constructors check what they are given.  No client        *)
(* profile is in the repository; here it builds one node after the other.  *)

validate_identifier(suffix) ==
    IF suffix = << >> THEN Defect("Empty", suffix, << >>)
    ELSE FirstOf([s \in DOMAIN suffix |->
            IF suffix[s] = "" THEN Defect("EmptySegment", suffix, << >>)
            ELSE IF suffix[s] \in BadStart THEN Defect("InvalidSegmentStart", suffix, << >>)
            ELSE IF suffix[s] \in BadCharacter THEN Defect("InvalidCharacter", suffix, << >>)
            ELSE None])

exact_decimal(value) ==
    IF value.negative /\ value.type # "MessageCount"
    THEN Defect("NegativeDecimal", << >>, << >>) ELSE None

\* Input::new: the default and the bounds have the declared type.
input_definition(node) ==
    IF node.kind = "input" /\ \E v \in DOMAIN node.values : node.values[v].type # node.values[1].type
    THEN Defect("TypeMismatch", node.id, << >>) ELSE None

Assemble ==
    /\ phase = "assemble"
    /\ Conclude(FirstOf([i \in Indices |->
                    FirstOf(<<FirstOf([v \in DOMAIN Nodes[i].values |-> exact_decimal(Nodes[i].values[v])]),
                              input_definition(Nodes[i]), validate_identifier(Nodes[i].suffix)>>)]),
                "local")
    /\ UNCHANGED <<definition, search, sort, resolved, reach>>

-----------------------------------------------------------------------------
(* The passes over the declarations. *)

local_validity(i) ==
    IF Nodes[i].kind = "setting" /\ Nodes[i].key = ""
    THEN Defect("EmptySettingKey", Nodes[i].id, << >>)
    ELSE IF \E p \in DOMAIN operands(i) : operands(i)[p].role = ""
    THEN Defect("EmptyOperandRole", Nodes[i].id, << >>) ELSE None

ValidateLocalValidity ==
    /\ phase = "local"
    /\ Conclude(IF definition.outputs = << >> THEN Defect("NoOutputs", << >>, << >>)
                ELSE FirstOf([i \in Indices |-> local_validity(i)]), "index")
    /\ UNCHANGED <<definition, search, sort, resolved, reach>>

\* The item of a sequence that repeats an earlier one.
repeated(items, i) == \E k \in 1 .. i - 1 : items[k] = items[i]

node_index_defect ==
    FirstOf([i \in Indices |->
        IF \E k \in 1 .. i - 1 : Nodes[k].id = Nodes[i].id
        THEN Defect("DuplicateNodeId", Nodes[i].id, << >>) ELSE None])

citation_index_defect ==
    FirstOf([c \in DOMAIN definition.citations |->
        IF repeated(definition.citations, c)
        THEN Defect("DuplicateCitationId", << >>, << >>) ELSE None])

BuildIndexes ==
    /\ phase = "index"
    /\ Conclude(FirstOf(<<node_index_defect, citation_index_defect>>), "outputs")
    /\ UNCHANGED <<definition, search, sort, resolved, reach>>

Known(id) == \E i \in Indices : Nodes[i].id = id

node_index(id) == CHOOSE i \in Indices : Nodes[i].id = id

output_defect(o) ==
    LET id == definition.outputs[o]
    IN IF repeated(definition.outputs, o) THEN Defect("DuplicateOutput", id, << >>)
       ELSE IF ~Known(id) THEN Defect("UnknownOutput", id, << >>)
       ELSE IF Nodes[node_index(id)].kind \in {"input", "constant"}
       THEN Defect("InvalidOutputNodeType", id, << >>) ELSE None

citation_defect(i) ==
    IF \A c \in DOMAIN Nodes[i].claims :
          \E k \in DOMAIN definition.citations : definition.citations[k] = Nodes[i].claims[c]
    THEN None ELSE Defect("UnknownCitation", Nodes[i].id, << >>)

ValidateOutputsAndCitations ==
    /\ phase = "outputs"
    /\ Conclude(FirstOf(<<FirstOf([o \in DOMAIN definition.outputs |-> output_defect(o)]),
                          FirstOf([i \in Indices |-> citation_defect(i)])>>), "operands")
    /\ UNCHANGED <<definition, search, sort, resolved, reach>>

operand_defect(i) ==
    FirstOf([p \in DOMAIN operands(i) |->
        LET id == operands(i)[p].id
        IN IF ~Known(id) THEN Defect("UnknownOperand", Nodes[i].id, << >>)
           ELSE IF Nodes[node_index(id)].kind = "finding"
           THEN Defect("FindingOperand", Nodes[i].id, << >>) ELSE None])

ValidateOperandReferences ==
    /\ phase = "operands"
    /\ Conclude(FirstOf([i \in Indices |-> operand_defect(i)]), "acyclic")
    /\ UNCHANGED <<definition, search, sort, resolved, reach>>

\* build_dependency_indices: what a node reads, in operand order.
dependencies(i) == [p \in DOMAIN operands(i) |-> node_index(operands(i)[p].id)]

\* generate_edges: one for every operand, so that a repeated operand is a
\* repeated edge.
edges == UNION {{[source |-> dependencies(i)[p], target |-> i, operand |-> p] :
                    p \in DOMAIN operands(i)} : i \in Indices}

-----------------------------------------------------------------------------
(* validate_acyclic: a depth-first search over the open calls of visit. *)

Top == stack[Len(stack)]
Dependency == dependencies(Top.index)[Top.next]
Advanced == [stack EXCEPT ![Len(stack)].next = @ + 1]

Call(index) == [index |-> index, next |-> 1]

Looking == phase = "acyclic" /\ stack # << >> /\ Top.next <= Len(dependencies(Top.index))

VisitRoot ==
    LET unvisited == {i \in Indices : states[i] = "Unvisited"}
    IN /\ phase = "acyclic" /\ stack = << >> /\ unvisited # {}
       /\ stack' = <<Call(Smallest(unvisited))>>
       /\ states' = [states EXCEPT ![Smallest(unvisited)] = "Visiting"]
       /\ UNCHANGED <<definition, phase, sort, resolved, reach, verdict>>

VisitDependency ==
    /\ Looking /\ states[Dependency] = "Unvisited"
    /\ stack' = Append(Advanced, Call(Dependency))
    /\ states' = [states EXCEPT ![Dependency] = "Visiting"]
    /\ UNCHANGED <<definition, phase, sort, resolved, reach, verdict>>

\* Mutant: any node met again closes a cycle.
seen_is_cycle(i) == states[i] # "Unvisited"

\* A node whose call of visit is still open closes a cycle.
on_cycle(i) == states[i] = "Visiting"

SkipVisited ==
    /\ Looking /\ states[Dependency] = "Visited" /\ ~on_cycle(Dependency)
    /\ stack' = Advanced
    /\ UNCHANGED <<definition, phase, states, sort, resolved, reach, verdict>>

\* The open calls from the repeated node on, closed with that node.
cycle_path ==
    LET start == {s \in DOMAIN stack : stack[s].index = Dependency}
        from == IF start = {} THEN Len(stack) ELSE Smallest(start)
    IN [s \in 1 .. Len(stack) - from + 2 |->
            IF s = Len(stack) - from + 2 THEN Dependency ELSE stack[from + s - 1].index]

ReportCycle ==
    /\ Looking /\ on_cycle(Dependency)
    /\ Conclude(Defect("Cycle", << >>, cycle_path), "rejected")
    /\ UNCHANGED <<definition, search, sort, resolved, reach>>

FinishVisit ==
    /\ phase = "acyclic" /\ stack # << >> /\ ~Looking
    /\ states' = [states EXCEPT ![Top.index] = "Visited"]
    /\ stack' = SubSeq(stack, 1, Len(stack) - 1)
    /\ UNCHANGED <<definition, phase, sort, resolved, reach, verdict>>

-----------------------------------------------------------------------------
(* topological_sort: nodes without an open operand, smallest index first. *)

is_ready(open) == open = 0

StartSort ==
    LET in_degree == [i \in Indices |-> Cardinality({e \in edges : e.target = i})]
    IN /\ phase = "acyclic" /\ stack = << >>
       /\ \A i \in Indices : states[i] = "Visited"
       /\ phase' = "sort"
       /\ degree' = in_degree
       /\ ready' = {i \in Indices : in_degree[i] = 0}
       /\ UNCHANGED <<definition, search, order, resolved, reach, verdict>>

\* An edge is taken away at a time, so a repeated operand is counted down as
\* often as it was counted up.
SortNext ==
    LET index == Smallest(ready)
        left == [i \in Indices |->
                    degree[i] - Cardinality({e \in edges : e.source = index /\ e.target = i})]
    IN /\ phase = "sort" /\ ready # {}
       /\ order' = Append(order, index)
       /\ degree' = left
       /\ ready' = (ready \ {index}) \cup {i \in Indices : left[i] # degree[i] /\ is_ready(left[i])}
       /\ UNCHANGED <<definition, phase, search, resolved, reach, verdict>>

FinishSort ==
    /\ phase = "sort" /\ ready = {}
    /\ phase' = "types"
    /\ UNCHANGED <<definition, search, sort, resolved, reach, verdict>>

-----------------------------------------------------------------------------
(* resolve_types: the static contract of an operation on its operands. *)

\* A contract that is not met.
Unsupported == "unsupported"

homogeneous_result_type(types) ==
    IF \A p \in DOMAIN types : types[p] = types[1] THEN types[1] ELSE Unsupported

multiply_result_type(types) ==
    IF \A p \in DOMAIN types : types[p] = "Scalar" THEN "Scalar"
    ELSE IF \A p \in DOMAIN types : types[p] = "Ratio" THEN "Ratio"
    ELSE IF Cardinality({p \in DOMAIN types : types[p] = "DataSize"}) = 1 THEN "DataSize"
    ELSE Unsupported

ceiling_result_type(types) == IF types[1] = "MessageCount" THEN Unsupported ELSE types[1]

ceiling_divide_result_type(types) == IF types[1] = types[2] THEN "Scalar" ELSE Unsupported

convert_result_type(types) == IF types[1] = "DataSize" THEN "DataSize" ELSE Unsupported

\* The constructors fix the number of operands.
ensure_resolved_type_count(operation, types) ==
    CASE operation \in {"Reference", "Ceiling", "ConvertDataSize"} -> Len(types) = 1
      [] operation = "CeilingDivide" -> Len(types) = 2
      [] OTHER -> Len(types) >= 2

result_type(operation, types) ==
    IF ~ensure_resolved_type_count(operation, types) THEN Unsupported
    ELSE CASE operation = "Reference" -> types[1]
           [] operation \in {"Add", "Minimum", "Maximum"} -> homogeneous_result_type(types)
           [] operation = "Multiply" -> multiply_result_type(types)
           [] operation = "Ceiling" -> ceiling_result_type(types)
           [] operation = "CeilingDivide" -> ceiling_divide_result_type(types)
           [] operation = "ConvertDataSize" -> convert_result_type(types)

\* The type of a node whose operands are typed; a comparison needs one type.
node_type(i, types) ==
    CASE Nodes[i].kind \in {"input", "constant"} -> Nodes[i].values[1].type
      [] Nodes[i].kind = "finding" ->
            IF types = << >> \/ types[1] = types[2] THEN NoType ELSE Unsupported
      [] OTHER -> result_type(Nodes[i].expression.operation, types)

type_defect(i, type) ==
    IF type # Unsupported THEN None
    ELSE IF Nodes[i].kind = "finding"
    THEN Defect("FindingComparisonTypeMismatch", Nodes[i].id, << >>)
    ELSE Defect("ExpressionType", Nodes[i].id, << >>)

ResolveNext ==
    LET done == Cardinality(DOMAIN resolved)
        index == order[done + 1]
        type == node_type(index, [p \in DOMAIN operands(index) |-> resolved[dependencies(index)[p]]])
    IN /\ phase = "types" /\ done < Len(order)
       /\ resolved' = [i \in DOMAIN resolved \cup {index} |-> IF i = index THEN type ELSE resolved[i]]
       /\ Conclude(type_defect(index, type), "types")
       /\ UNCHANGED <<definition, search, sort, reach>>

ValidateUniqueSettingKeys ==
    /\ phase = "types" /\ Cardinality(DOMAIN resolved) = Len(order)
    /\ Conclude(FirstOf([i \in Indices |->
            IF /\ Nodes[i].kind = "setting"
               /\ \E k \in 1 .. i - 1 : Nodes[k].kind = "setting" /\ Nodes[k].key = Nodes[i].key
            THEN Defect("DuplicateSettingKey", Nodes[i].id, << >>) ELSE None]), "reach")
    /\ pending' = [o \in DOMAIN definition.outputs |-> node_index(definition.outputs[o])]
    /\ UNCHANGED <<definition, search, sort, resolved, reachable>>

-----------------------------------------------------------------------------
(* validate_reachability: a search backwards from the outputs. *)

ReachNext ==
    LET index == pending[Len(pending)]
        rest == SubSeq(pending, 1, Len(pending) - 1)
    IN /\ phase = "reach" /\ pending # << >>
       /\ pending' = IF index \in reachable THEN rest ELSE rest \o dependencies(index)
       /\ reachable' = reachable \cup {index}
       /\ UNCHANGED <<definition, phase, search, sort, resolved, verdict>>

FinishValidation ==
    /\ phase = "reach" /\ pending = << >>
    /\ Conclude(FirstOf([i \in Indices |->
            IF i \in reachable THEN None ELSE Defect("UnreachableNode", Nodes[i].id, << >>)]),
            "accepted")
    /\ UNCHANGED <<definition, search, sort, resolved, reach>>

-----------------------------------------------------------------------------
\* A client profile presents a definition.
Init(profile) ==
    /\ definition = profile
    /\ phase = "assemble"
    /\ states = [i \in Indices |-> "Unvisited"] /\ stack = << >>
    /\ degree = [i \in Indices |-> 0] /\ ready = {} /\ order = << >>
    /\ resolved = << >>
    /\ pending = << >> /\ reachable = {}
    /\ verdict = None

Next ==
    \/ Assemble \/ ValidateLocalValidity \/ BuildIndexes
    \/ ValidateOutputsAndCitations \/ ValidateOperandReferences
    \/ VisitRoot \/ VisitDependency \/ SkipVisited \/ ReportCycle \/ FinishVisit
    \/ StartSort \/ SortNext \/ FinishSort
    \/ ResolveNext \/ ValidateUniqueSettingKeys
    \/ ReachNext \/ FinishValidation

Spec(profiles) == (\E profile \in profiles : Init(profile)) /\ [][Next]_vars

-----------------------------------------------------------------------------
(* What the verdict means, without the searches that find it. *)

Reads(i) == {dependencies(i)[p] : p \in DOMAIN operands(i)}

\* Some nodes wait for one another.
Cyclic == \E S \in SUBSET Indices : S # {} /\ \A i \in S : Reads(i) \cap S # {}

\* Nodes that include the outputs and everything they read.
Contributing == {S \in SUBSET Indices :
                    /\ \A o \in DOMAIN definition.outputs : node_index(definition.outputs[o]) \in S
                    /\ \A i \in S : Reads(i) \subseteq S}

Listed(n) == {order[k] : k \in 1 .. n}

\* Every node comes as soon as its operands are listed, unless one declared
\* earlier can come as well.
OrderIsStable ==
    \A n \in DOMAIN order :
        order[n] = Smallest({i \in Indices \ Listed(n - 1) : Reads(i) \subseteq Listed(n - 1)})

Accepted ==
    /\ ~Cyclic
    /\ Listed(Len(order)) = Indices
    /\ \A S \in Contributing : S = Indices
    /\ \A i \in Indices :
          /\ resolved[i] \in ValueTypes \cup {NoType}
          /\ resolved[i] = node_type(i, [p \in DOMAIN operands(i) |-> resolved[dependencies(i)[p]]])

\* The reported path is a cycle: it ends where it began, visits nothing else
\* twice, and every node on it reads the next.
CycleIsReal ==
    LET path == verdict.path
    IN /\ Len(path) > 1 /\ path[1] = path[Len(path)]
       /\ \A s, t \in 1 .. Len(path) - 1 : s # t => path[s] # path[t]
       /\ \A s \in 1 .. Len(path) - 1 : path[s + 1] \in Reads(path[s])

(* A definition is accepted only when no nodes wait for one another, every *)
(* node contributes to an output and every type follows from the operands' *)
(* types; a reported cycle is one, a node called unreachable contributes   *)
(* to nothing, and the order is the stable topological one, which type     *)
(* resolution and evaluation index into without a check (graph.rs,         *)
(* `expect("operand references were validated")`, `resolved[...]`).        *)
VerdictIsRight ==
    /\ phase = "accepted" => Accepted
    /\ verdict.error = "Cycle" => CycleIsReal
    /\ verdict.error = "UnreachableNode" =>
          \E S \in Contributing : node_index(verdict.id) \notin S
    /\ order # << >> => OrderIsStable
=============================================================================
