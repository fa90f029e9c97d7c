---------------------------- MODULE AlgorithmsMC ----------------------------
(* The loops and walks of SafeArith, Integer256, DsaNonce, PatternChecker,  *)
(* AcceptChecker and Imports for TLC, one at a time: each behaviour runs    *)
(* one of them while the others have nothing to do.                         *)
EXTENDS SafeArith, Integer256, DsaNonce, PatternChecker, AcceptChecker, Imports, TLC

CONSTANTS
    a, b, c,         \* library files
    MaxStatements,   \* bound on the statements of a component
    MaxOfTwo         \* the same where a contract has two components

SafeIdle == signed = FALSE /\ x = 0 /\ y = 0 /\ acc = Returns(1) /\ left = 0

(* The last round of 0 / 1 is still to come: what holds of a division that  *)
(* is done need not be evaluated in every state of the others.              *)
DivIdle == num = Zero /\ den = One /\ quo = Zero /\ rem = Zero /\ bit = 0

(* Two libraries have the same names, and only their files tell them apart. *)
Names(lib) == IF lib = c THEN "y" ELSE "x"
LibSymmetry == Permutations({a, b})
SomeNamespaces == {<<>>, <<"N">>}

SomeTypes == {NatType, OptionOf(BoolType), ListOf(BoolType), PairOf(OptionOf(BoolType), BoolType)}

(* All components of n statements, with matches of two branches.            *)
Match(b1, b2) == [kind |-> "match", branches |-> <<b1, b2>>]
BodiesOf[n \in Nat] ==
    IF n = 0 THEN {<<>>}
    ELSE LET StatementsOf(k) ==
                 (IF k = 1 THEN {Accept, Throw} ELSE {}) \cup
                 UNION {{Match(b1, b2) : b1 \in BodiesOf[i], b2 \in BodiesOf[k - 1 - i]} : i \in 0..(k - 1)}
         IN  UNION {{<<s>> \o rest : s \in StatementsOf(k), rest \in BodiesOf[n - k]} : k \in 1..n}
BodiesUpTo(max) == UNION {BodiesOf[n] : n \in 0..max}
SomeContracts ==
    {{body} : body \in BodiesUpTo(MaxStatements)} \cup {{b1, b2} : b1, b2 \in BodiesUpTo(MaxOfTwo)}

vars == <<safeVars, divVars, textVars, nonceVars, patternVars, acceptVars, importVars>>

Init ==
    \/ SafeInit /\ DivIdle /\ TextInit /\ NonceIdle /\ PatternIdle /\ AcceptIdle /\ ImportIdle
    \/ SafeIdle /\ DivInit /\ TextInit /\ NonceIdle /\ PatternIdle /\ AcceptIdle /\ ImportIdle
    \/ SafeIdle /\ DivIdle /\ TextInit /\ NonceInit /\ PatternIdle /\ AcceptIdle /\ ImportIdle
    \/ SafeIdle /\ DivIdle /\ TextInit /\ NonceIdle /\ PatternInit /\ AcceptIdle /\ ImportIdle
    \/ SafeIdle /\ DivIdle /\ TextInit /\ NonceIdle /\ PatternIdle /\ AcceptInit /\ ImportIdle
    \/ SafeIdle /\ DivIdle /\ TextInit /\ NonceIdle /\ PatternIdle /\ AcceptIdle /\ ImportInit

(* Division and text are both ready to go on when they are idle. *)
OthersIdle == SafeIdle /\ NonceIdle /\ PatternIdle /\ AcceptIdle /\ ImportIdle

Next ==
    \/ PowStep /\ UNCHANGED <<divVars, textVars, nonceVars, patternVars, acceptVars, importVars>>
    \/ /\ OthersIdle /\ TextInit
       /\ DivLoop
       /\ UNCHANGED <<safeVars, textVars, nonceVars, patternVars, acceptVars, importVars>>
    \/ /\ OthersIdle /\ DivIdle
       /\ TextNext
       /\ UNCHANGED <<safeVars, divVars, nonceVars, patternVars, acceptVars, importVars>>
    \/ NonceNext /\ UNCHANGED <<safeVars, divVars, textVars, patternVars, acceptVars, importVars>>
    \/ PatternNext /\ UNCHANGED <<safeVars, divVars, textVars, nonceVars, acceptVars, importVars>>
    \/ AcceptNext /\ UNCHANGED <<safeVars, divVars, textVars, nonceVars, patternVars, importVars>>
    \/ /\ ImportLibs \/ EliminateNamespaces
       /\ UNCHANGED <<safeVars, divVars, textVars, nonceVars, patternVars, acceptVars>>

Spec == Init /\ [][Next]_vars
=============================================================================
