------------------------------- MODULE Powers -------------------------------
(***************************************************************************)
(* Powers of an integer, by repeated multiplication.                       *)
(***************************************************************************)
EXTENDS Integers

Power(b, n) ==
    LET power[m \in Nat] == IF m = 0 THEN 1 ELSE b * power[m - 1]
    IN  power[n]
=============================================================================
