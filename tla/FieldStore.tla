----------------------------- MODULE FieldStore -----------------------------
(***************************************************************************)
(* What a Scilla program may assume of its mutable fields and its local    *)
(* bindings: both hold VALUES.  A map is a finite function, reading one    *)
(* yields its value at that moment, writing one changes the one field that *)
(* is written, and a local binding never changes until its name is bound   *)
(* again.  StateService.tla is the implementation (OCaml hash tables       *)
(* shared by reference) that is compared with this module.                 *)
(*                                                                         *)
(* A name of kind 0 holds a scalar, a name of kind d > 0 a map of d nested *)
(* levels.  Absent stands for a key that a map does not have, for `None',  *)
(* and for a local that is not bound.  The type checker fixes the kind of  *)
(* every name, so the guards below only offer statements that type-check.  *)
(***************************************************************************)
EXTENDS Naturals, Sequences

CONSTANTS
    Fields,      \* the mutable fields of the contract
    Vars,        \* the names bound by a transition's statements
    Keys,        \* map keys
    Scalars,     \* literals that are not maps
    Yes, No,     \* the two literals `exists' can yield
    Absent,
    Kind,        \* Kind[n]: the number of map levels of the field or local n
    MaxKind

VARIABLES
    fields,      \* the value of every field
    env          \* the value of every local, Absent when unbound

vars == <<fields, env>>

Emp == [k \in Keys |-> Absent]

Value[d \in 0..MaxKind] ==
    IF d = 0 THEN Scalars ELSE [Keys -> Value[d - 1] \cup {Absent}]

(* The key lists that index a field of kind d. *)
Paths(d) == UNION {[1..n -> Keys] : n \in 1..d}

(* The values on the way into v along ks, Absent from a missing entry on.   *)
Along(v, ks) ==
    LET m[n \in 0..Len(ks)] ==
          IF n = 0 THEN v ELSE IF m[n - 1] = Absent THEN Absent ELSE m[n - 1][ks[n]]
    IN  m

Get(v, ks) == Along(v, ks)[Len(ks)]

(* v with the entry at ks replaced by w, missing maps on the way created. *)
Put(v, ks, w) ==
    LET old == Along(v, ks)
        new[n \in 0..Len(ks)] ==      \* the value n keys before the end
          LET m == old[Len(ks) - n]
          IN  IF n = 0 THEN w
              ELSE [(IF m = Absent THEN Emp ELSE m) EXCEPT ![ks[Len(ks) - n + 1]] = new[n - 1]]
    IN  new[Len(ks)]

(* v without the entry at ks. *)
Cut(v, ks) == IF Get(v, ks) = Absent THEN v ELSE Put(v, ks, Absent)

Init ==
    /\ fields \in [Fields -> UNION {Value[d] : d \in 0..MaxKind}]
    /\ \A f \in Fields : fields[f] \in Value[Kind[f]]
    /\ env = [x \in Vars |-> Absent]

(* Statements that write a field; they bind no name. *)

SetTo(f, v) == fields' = [fields EXCEPT ![f] = v]

(* f := x *)
Store(f, x) == env[x] # Absent /\ SetTo(f, env[x])

(* f[ks] := x *)
MapSet(f, ks, x) == env[x] # Absent /\ SetTo(f, Put(fields[f], ks, env[x]))

(* delete f[ks] *)
MapDelete(f, ks) == SetTo(f, Cut(fields[f], ks))

Write(f) ==
    \/ \E x \in Vars : Kind[x] = Kind[f] /\ Store(f, x)
    \/ \E ks \in Paths(Kind[f]) :
         \/ MapDelete(f, ks)
         \/ \E x \in Vars : Kind[x] = Kind[f] - Len(ks) /\ MapSet(f, ks, x)

(* Statements that bind a name; they write no field. *)

BindTo(x, v) == env' = [env EXCEPT ![x] = v]

(* x <- f *)
Load(x, f) == BindTo(x, fields[f])

(* x <- f[ks] *)
MapFetch(x, f, ks) == BindTo(x, Get(fields[f], ks))

(* x <- exists f[ks] *)
MapExists(x, f, ks) ==
    BindTo(x, IF Get(fields[f], ks) = Absent THEN No ELSE Yes)

(* x = literal, where Emp is the only literal of a map type *)
BindLiteral(x, v) == BindTo(x, v)

(* x = builtin put m k v *)
BuiltinPut(x, m, k, v) ==
    /\ env[m] # Absent /\ env[v] # Absent
    /\ BindTo(x, [env[m] EXCEPT ![k] = env[v]])

(* x = builtin remove m k *)
BuiltinRemove(x, m, k) ==
    /\ env[m] # Absent
    /\ BindTo(x, [env[m] EXCEPT ![k] = Absent])

(* x = builtin get m k *)
BuiltinGet(x, m, k) == env[m] # Absent /\ BindTo(x, env[m][k])

Read(x) ==
    \E f \in Fields :
      \/ Kind[x] = Kind[f] /\ Load(x, f)
      \/ \E ks \in Paths(Kind[f]) :
           \/ Kind[x] = Kind[f] - Len(ks) /\ MapFetch(x, f, ks)
           \/ Kind[x] = 0 /\ MapExists(x, f, ks)

Evaluate(x) ==
    \/ Kind[x] = 0 /\ \E s \in Scalars : BindLiteral(x, s)
    \/ Kind[x] > 0 /\ BindLiteral(x, Emp)
    \/ \E m \in Vars, k \in Keys :
         /\ Kind[m] > 0
         /\ \/ Kind[x] = Kind[m] /\ BuiltinRemove(x, m, k)
            \/ Kind[x] = Kind[m] - 1 /\ BuiltinGet(x, m, k)
            \/ \E v \in Vars : /\ Kind[x] = Kind[m] /\ Kind[v] = Kind[m] - 1
                               /\ BuiltinPut(x, m, k, v)

(* The next message runs on the same fields, with no locals. *)
NextMessage == env' = [x \in Vars |-> Absent]

Next ==
    \/ UNCHANGED env /\ \E f \in Fields : Write(f)
    \/ UNCHANGED fields /\ ((\E x \in Vars : Read(x) \/ Evaluate(x)) \/ NextMessage)

Spec == Init /\ [][Next]_vars
=============================================================================
