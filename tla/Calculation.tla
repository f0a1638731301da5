----------------------------- MODULE Calculation -----------------------------
(***************************************************************************)
(* The validation of the Kafka calculator's graphs (CalculationGraph) as   *)
(* one of several programs, and what holds of it.                          *)
(***************************************************************************)

VARIABLES definition, phase, states, stack, degree, ready, order, resolved,
          queue, reachable, verdict

K == INSTANCE CalculationGraph WITH pending <- queue

(* The verdict on a calculation graph is right, and the order and the types *)
(* it is evaluated by are the ones the definition determines                *)
(* (CalculationGraph, graph.rs and expression.rs).                          *)
VerdictIsRight == K!VerdictIsRight
=============================================================================
