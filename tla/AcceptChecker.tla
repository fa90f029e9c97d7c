--------------------------- MODULE AcceptChecker ----------------------------
(***************************************************************************)
(* Accept.ml: find_accept_groups lists the accepts on every path through a *)
(* component, for the warnings about funds that a component accepts twice  *)
(* or the whole contract never.  A path is the number of its accepts.      *)
(*                                                                         *)
(* Beside it, one component runs as Eval.ml runs it.  Statements other     *)
(* than accept, throw and match are left out; a call is one of them, whose *)
(* accepts are on the paths of the procedure.                              *)
(***************************************************************************)
EXTENDS Integers, Sequences, SequencesExt, FiniteSetsExt

CONSTANTS
    Nesting,         \* how deep matches are nested at most
    Contracts        \* contracts: sets of components

VARIABLES
    ccomps,          \* the components of the contract
    comp_body,       \* the one that runs
    ahead,           \* statements left to run
    taken            \* accepts so far

acceptVars == <<ccomps, comp_body, ahead, taken>>

Accept == [kind |-> "accept", branches |-> <<>>]
Throw == [kind |-> "throw", branches |-> <<>>]

(* The statements with matches inside matches down to a depth.  A match has *)
(* at least one branch.                                                     *)
Statements[depth \in Nat] ==
    {Accept, Throw} \cup
    IF depth = 0 THEN {}
    ELSE [kind : {"match"}, branches : Seq(Seq(Statements[depth - 1])) \ {<<>>}]

ASSUME AcceptAssumption ==
    /\ Nesting \in Nat
    /\ \A comps \in Contracts : comps \subseteq Seq(Statements[Nesting])

-----------------------------------------------------------------------------
(* walk: seen has the paths to here, and after[stmt] makes of them what     *)
(* they are after a statement.                                              *)
Walk(after, seen, stmts) == FoldLeft(LAMBDA seen2, stmt : after[stmt][seen2], seen, stmts)

(* Mutant: a branch starts where the branch before it ended. *)
WalkBranchesThreaded(after, seen, branches) ==
    FoldLeft(LAMBDA seen3, branch : Walk(after, seen3, branch), seen, branches)

(* Every branch goes on from all paths. *)
WalkBranches(after, seen, branches) ==
    FoldLeft(\o, <<>>, [i \in 1..Len(branches) |-> Walk(after, seen, branches[i])])

After[depth \in Nat] ==
    [stmt \in Statements[depth] |-> [seen \in Seq(Nat) |->
        IF stmt.kind = "accept" THEN [i \in 1..Len(seen) |-> seen[i] + 1]
        ELSE IF stmt.kind = "match" THEN WalkBranches(After[depth - 1], seen, stmt.branches)
        ELSE seen]]

FindAcceptGroups(stmts) == Walk(After[Nesting], <<0>>, stmts)

(* The warnings of check_accepts: of a component, and of the contract.      *)
DupAcceptWarning(stmts) == \E group \in Range(FindAcceptGroups(stmts)) : group >= 2
MissingAcceptWarning(comps) ==
    \A stmts \in comps : \A group \in Range(FindAcceptGroups(stmts)) : group = 0

-----------------------------------------------------------------------------
AcceptInit ==
    /\ ccomps \in Contracts
    /\ comp_body \in ccomps
    /\ ahead = comp_body
    /\ taken = 0

AcceptIdle == ccomps = {} /\ comp_body = <<>> /\ ahead = <<>> /\ taken = 0

(* stmt_eval: a throw ends the run, a match goes on with a branch.          *)
RunAccept ==
    /\ ahead # <<>> /\ Head(ahead).kind = "accept"
    /\ taken' = taken + 1
    /\ ahead' = Tail(ahead)
    /\ UNCHANGED <<ccomps, comp_body>>

RunThrow ==
    /\ ahead # <<>> /\ Head(ahead).kind = "throw"
    /\ ahead' = <<>>
    /\ UNCHANGED <<ccomps, comp_body, taken>>

RunMatch ==
    /\ ahead # <<>> /\ Head(ahead).kind = "match"
    /\ \E branch \in Range(Head(ahead).branches) : ahead' = branch \o Tail(ahead)
    /\ UNCHANGED <<ccomps, comp_body, taken>>

AcceptNext == RunAccept \/ RunThrow \/ RunMatch

(* One run of a component, on its own. *)
AcceptSpec == AcceptInit /\ [][AcceptNext]_acceptVars

-----------------------------------------------------------------------------
(* The most accepts of a statement, or of a sequence of them, on any way    *)
(* that throws nothing.                                                     *)
InAll(most, stmts) == FoldLeft(+, 0, [i \in 1..Len(stmts) |-> most[stmts[i]]])

Most[depth \in Nat] ==
    [stmt \in Statements[depth] |->
        IF stmt.kind = "accept" THEN 1
        ELSE IF stmt.kind = "match" THEN Max({InAll(Most[depth - 1], branch) : branch \in Range(stmt.branches)})
        ELSE 0]

MostAccepts(stmts) == InAll(Most[Nesting], stmts)

(* Whoever accepts twice in one component was warned, whoever accepts at    *)
(* all was not told that the contract has no accept, and both warnings are  *)
(* given only if the branches allow it, throws aside.                       *)
AcceptsForeseen ==
    /\ taken >= 2 => DupAcceptWarning(comp_body)
    /\ taken >= 1 => ~MissingAcceptWarning(ccomps)
    /\ DupAcceptWarning(comp_body) = (MostAccepts(comp_body) >= 2)
    /\ MissingAcceptWarning(ccomps) = (\A stmts \in ccomps : MostAccepts(stmts) = 0)
=============================================================================
