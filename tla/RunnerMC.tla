------------------------------ MODULE RunnerMC ------------------------------
(* Small instances of Runner for TLC: funds and gas, no names and no calls. *)
EXTENDS Runner

CONSTANT f

NoParams == [p \in Procs |-> {}]
=============================================================================
