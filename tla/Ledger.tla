------------------------------- MODULE Ledger -------------------------------
(***************************************************************************)
(* What the blockchain relies on when it hands messages to a contract: a   *)
(* message is processed as a whole or not at all, and funds only move.     *)
(* Runner.tla, which goes through the steps of scilla_runner.ml and of the *)
(* evaluator, is shown to implement it.                                    *)
(***************************************************************************)
EXTENDS Naturals

CONSTANTS
    Supply,          \* all the funds there are
    States           \* what the fields of a contract may hold

VARIABLES
    deployed,        \* the contract is on the chain
    balance,         \* what the contract owns
    outside,         \* what everybody else owns
    state            \* the contract's fields

vars == <<deployed, balance, outside, state>>

Init ==
    /\ deployed = FALSE
    /\ balance = 0
    /\ outside = Supply
    /\ state \in States

(* Deployment moves no funds. *)
Deploy ==
    /\ ~deployed
    /\ deployed' = TRUE
    /\ state' \in States
    /\ UNCHANGED <<balance, outside>>

(* One message: the contract takes `amount' or leaves it, pays `paid' out   *)
(* of what it then owns, and changes its fields.                            *)
Message(amount, taken, paid) ==
    LET owned == balance + (IF taken THEN amount ELSE 0)
    IN  /\ deployed
        /\ paid <= owned
        /\ balance' = owned - paid
        /\ outside' = outside + paid - (IF taken THEN amount ELSE 0)
        /\ state' \in States
        /\ UNCHANGED deployed

Next ==
    \/ Deploy
    \/ \E amount \in 0..outside, taken \in BOOLEAN, paid \in 0..Supply :
         Message(amount, taken, paid)

Spec == Init /\ [][Next]_vars
=============================================================================
