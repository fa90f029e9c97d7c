--------------------------- MODULE PatternChecker ---------------------------
(***************************************************************************)
(* PatternChecker.ml and PatternUtil.ml: whether the clauses of a match    *)
(* leave out no value and each of them is needed, decided by a walk with a *)
(* partial description of the value.  PatternMatching.ml and the built-in  *)
(* data types of Datatypes.ml say what a clause matches.                   *)
(*                                                                         *)
(* The clauses of one match are written down one after the other.          *)
(***************************************************************************)
EXTENDS Integers, Sequences, SequencesExt, FiniteSetsExt

CONSTANTS
    MatchTypes,      \* types of the value that is matched
    MaxDepth,        \* bound on the depth of a pattern
    MaxClauses       \* bound on the clauses

VARIABLES
    matched,         \* the type of the value, or NoType
    clauses          \* the patterns so far

patternVars == <<matched, clauses>>

-----------------------------------------------------------------------------
(* DataTypeDictionary: a type is its name with its arguments.               *)

BoolType == [name |-> "Bool", args |-> <<>>]
NatType == [name |-> "Nat", args |-> <<>>]
OptionOf(t) == [name |-> "Option", args |-> <<t>>]
ListOf(t) == [name |-> "List", args |-> <<t>>]
PairOf(t, u) == [name |-> "Pair", args |-> <<t, u>>]
NoType == [name |-> "none", args |-> <<>>]

tconstr == [Bool |-> {"True", "False"}, Nat |-> {"Zero", "Succ"}, Option |-> {"Some", "None"},
            List |-> {"Cons", "Nil"}, Pair |-> {"Pair"}]

Span(t) == Cardinality(tconstr[t.name])

(* constr_pattern_arg_types *)
ArgTypes(t, c) ==
    CASE c = "Succ" -> <<t>>
      [] c = "Some" -> t.args
      [] c = "Cons" -> <<t.args[1], t>>
      [] c = "Pair" -> t.args
      [] OTHER -> <<>>

(* Values and patterns: a constructor and what it is applied to.            *)
Wildcard == [con |-> "_", subs |-> <<>>]        \* a Binder as well

Applied(c, argSets) == {[con |-> c, subs |-> s] : s \in {q \in UNION {[1..Len(argSets) -> UNION Range(argSets)]} :
                            \A i \in 1..Len(argSets) : q[i] \in argSets[i]}}

RECURSIVE Values(_, _), Patterns(_, _)

Values(t, depth) ==
    UNION {LET ts == ArgTypes(t, c)
           IN  IF depth = 0 /\ ts # <<>> THEN {}
               ELSE Applied(c, [i \in 1..Len(ts) |-> Values(ts[i], depth - 1)])
           : c \in tconstr[t.name]}

Patterns(t, depth) ==
    {Wildcard} \cup
    (IF depth = 0 THEN {}
     ELSE UNION {LET ts == ArgTypes(t, c) IN Applied(c, [i \in 1..Len(ts) |-> Patterns(ts[i], depth - 1)])
                 : c \in tconstr[t.name]})

(* match_with_pattern, without the bindings. *)
RECURSIVE MatchWithPattern(_, _)
MatchWithPattern(v, p) ==
    p.con = "_" \/ /\ v.con = p.con
                   /\ \A i \in 1..Len(p.subs) : MatchWithPattern(v.subs[i], p.subs[i])

-----------------------------------------------------------------------------
(* Exp_descriptions *)

PosDsc(c, args) == [pos |-> TRUE, con |-> c, args |-> args]
NegDsc(cs) == [pos |-> FALSE, con |-> "", args |-> cs]

AddNeg(dsc, c) == NegDsc(<<c>> \o dsc.args)

(* A context entry: a constructor, and the descriptions of the arguments    *)
(* that have been dealt with, last one first.  A frame of sps: patterns,    *)
(* types and descriptions of the arguments that are left.                   *)
RECURSIVE BuildDsc(_, _, _)
BuildDsc(ctx, dsc, sps) ==
    IF ctx = <<>> THEN dsc
    ELSE BuildDsc(Tail(ctx), PosDsc(ctx[1].con, Reverse(ctx[1].args) \o <<dsc>> \o sps[1].dscs), Tail(sps))

AugmentCtx(ctx, dsc) ==
    IF ctx = <<>> THEN <<>>
    ELSE <<[ctx[1] EXCEPT !.args = <<dsc>> \o @]>> \o Tail(ctx)

PosCtx(ctx) == AugmentCtx(Tail(ctx), PosDsc(ctx[1].con, Reverse(ctx[1].args)))

(* Mutant: one constructor too few has to be ruled out. *)
StaticMatchEarly(c, span, dsc) ==
    IF dsc.pos THEN IF c = dsc.con THEN "Yes" ELSE "No"
    ELSE IF c \in Range(dsc.args) THEN "No"
    ELSE IF Len(dsc.args) >= span - 2 THEN "Yes" ELSE "Maybe"

StaticMatch(c, span, dsc) ==
    IF dsc.pos THEN IF c = dsc.con THEN "Yes" ELSE "No"
    ELSE IF c \in Range(dsc.args) THEN "No"
    ELSE IF Len(dsc.args) = span - 1 THEN "Yes" ELSE "Maybe"

-----------------------------------------------------------------------------
(* pm_check_clauses: which clauses the walk reaches and how it ends.        *)

RECURSIVE TraverseClauses(_, _), TraversePattern(_, _, _), MatchPattern(_, _, _, _, _, _)

TraverseClauses(dsc, i) ==
    IF i > Len(clauses) THEN [error |-> "non-exhaustive", reached |-> {}]
    ELSE MatchPattern(clauses[i], matched, dsc, <<>>, <<>>, i)

TraversePattern(ctx, sps, i) ==
    IF sps = <<>> THEN [error |-> "none", reached |-> {i}]
    ELSE IF sps[1].ps = <<>> THEN TraversePattern(PosCtx(ctx), Tail(sps), i)
    ELSE MatchPattern(sps[1].ps[1], sps[1].ts[1], sps[1].dscs[1], ctx,
                      <<[ps |-> Tail(sps[1].ps), ts |-> Tail(sps[1].ts), dscs |-> Tail(sps[1].dscs)]>>
                      \o Tail(sps), i)

MatchPattern(p, t, dsc, ctx, sps, i) ==
    IF p.con = "_" THEN TraversePattern(AugmentCtx(ctx, dsc), sps, i)
    ELSE LET dscs == IF dsc.pos THEN dsc.args ELSE [j \in 1..Len(p.subs) |-> NegDsc(<<>>)]
             frame == [ps |-> p.subs, ts |-> ArgTypes(t, p.con), dscs |-> dscs]
             success == TraversePattern(<<[con |-> p.con, args |-> <<>>]>> \o ctx, <<frame>> \o sps, i)
             Failure(d) == TraverseClauses(BuildDsc(ctx, d, sps), i + 1)
             verdict == StaticMatch(p.con, Span(t), dsc)
         IN  IF verdict = "Yes" THEN success
             ELSE IF verdict = "No" THEN Failure(dsc)
             ELSE IF success.error # "none" THEN success
             ELSE LET f == Failure(AddNeg(dsc, p.con))
                  IN  [f EXCEPT !.reached = @ \cup success.reached]

(* What is reported: a number is that of an unreachable clause.             *)
PmCheckClauses ==
    LET walk == TraverseClauses(NegDsc(<<>>), 1)
        unreachable == (1..Len(clauses)) \ walk.reached
    IN  IF walk.error # "none" THEN walk.error
        ELSE IF unreachable = {} THEN "ok"
        ELSE Min(unreachable)

-----------------------------------------------------------------------------
PatternInit == matched \in MatchTypes /\ clauses = <<>>
PatternIdle == matched = NoType /\ clauses = <<>>

(* Patterns have the arities and types of their constructors: the type      *)
(* checker has seen to that.                                                *)
AddClause(p) ==
    /\ Len(clauses) < MaxClauses
    /\ clauses' = Append(clauses, p)
    /\ UNCHANGED matched

PatternNext == matched # NoType /\ \E p \in Patterns(matched, MaxDepth) : AddClause(p)

-----------------------------------------------------------------------------
(* The clause that the evaluator takes for a value, 0 if it finds none.     *)
Taken(v) ==
    LET fits == {i \in 1..Len(clauses) : MatchWithPattern(v, clauses[i])}
    IN  IF fits = {} THEN 0 ELSE Min(fits)

(* The checker against the evaluator: a match that is accepted never fails  *)
(* at run time and has no clause that is never taken; one that is refused   *)
(* does, and the clause that is named is the first that is never taken.     *)
VerdictExact ==
    matched # NoType =>
        LET taken == {Taken(v) : v \in Values(matched, MaxDepth + 1)}
            dead == (1..Len(clauses)) \ taken
        IN  PmCheckClauses = IF 0 \in taken THEN "non-exhaustive"
                             ELSE IF dead = {} THEN "ok"
                             ELSE Min(dead)
=============================================================================
