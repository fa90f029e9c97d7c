---------------------------- MODULE EvaluatorMC -----------------------------
(* Small instances of Evaluator for TLC. *)
EXTENDS Evaluator

CONSTANTS owner, to, arg, x, sender, f

OneParamEach == [p \in Procs |-> {arg}]
NoParams == [p \in Procs |-> {}]
=============================================================================
