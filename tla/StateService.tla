---------------------------- MODULE StateService ----------------------------
(***************************************************************************)
(* The state service in local mode (StateService.ml) together with the     *)
(* statements of Eval.ml that read and write fields.                       *)
(*                                                                         *)
(* A map literal of the interpreter is a mutable OCaml hash table, and     *)
(* binding, loading and storing it copy the reference.  The model is a     *)
(* heap of tables: a cell is a scalar or (a reference to) a table.         *)
(*                                                                         *)
(*   - initialize is given tables that the JSON reader just built, one per *)
(*     map in the state file: they are named by the path that leads to     *)
(*     them, <<f>>, <<f, k>>, ...                                          *)
(*   - the literal `Emp kt vt' allocates its table once, when the program  *)
(*     is parsed: that table is EmpLiteral, and every evaluation of the    *)
(*     literal yields it;                                                  *)
(*   - tables created while statements run are named <<1>>, <<2>>, ...     *)
(*                                                                         *)
(* Tables that nothing refers to any more are garbage: they are kept empty *)
(* so that two heaps which differ in garbage only are the same state.      *)
(* The gas context each query returns is the subject of Evaluator.tla.     *)
(***************************************************************************)
EXTENDS Naturals, FiniteSets, Sequences, SequencesExt

CONSTANTS
    Fields, Vars, Keys, Scalars, Yes, No, Absent, Kind, MaxKind,
    MaxFresh,      \* bound on the tables alive that statements created
    InPlaceOnly    \* the contract raises no map_load_store warning

ASSUME KindAssumption ==
    /\ MaxKind \in Nat /\ MaxFresh \in Nat /\ InPlaceOnly \in BOOLEAN
    /\ Kind \in [Fields \cup Vars -> 0..MaxKind]
    /\ Fields \cap Vars = {}
    /\ {Yes, No} \subseteq Scalars
    /\ Absent \notin Scalars

VARIABLES
    fields,        \* ss_cur_state: the cell of every field
    env,           \* the cell of every local, Absent when unbound
    heap           \* the entries of every table

vars == <<fields, env, heap>>

EmpLiteral == <<0>>
FreshTables == {<<n>> : n \in 1..MaxFresh}
ParsedTables == UNION {{<<f>> \o ks : ks \in BoundedSeq(Keys, Kind[f] - 1)} :
                          f \in {g \in Fields : Kind[g] > 0}}
Tables == {EmpLiteral} \cup FreshTables \cup ParsedTables
Cells == Tables \cup Scalars \cup {Absent}

Emp == [k \in Keys |-> Absent]

Paths(d) == UNION {[1..n -> Keys] : n \in 1..d}

-----------------------------------------------------------------------------
(* Reading the heap. *)

(* The tables reached from the cells in R, through up to MaxKind levels. *)
Reached(h, R) ==
    LET from[n \in 0..MaxKind] ==
          IF n = 0 THEN R \cap Tables
          ELSE from[n - 1] \cup
               UNION {{h[t][k] : k \in Keys} \cap Tables : t \in from[n - 1]}
    IN  from[MaxKind]

Roots(fs, e) == {fs[f] : f \in Fields} \cup {e[x] : x \in Vars} \cup {EmpLiteral}

Collect(h, fs, e) ==
    LET live == Reached(h, Roots(fs, e))
    IN  [t \in Tables |-> IF t \in live THEN h[t] ELSE Emp]

(* The names that Caml.Hashtbl.create and Caml.Hashtbl.copy may return.     *)
Free(h, more) == FreshTables \ Reached(h, Roots(fields, env) \cup more)

(* The value a cell of kind d denotes. *)
Deref(h, d, c) ==
    LET value[n \in 0..MaxKind] ==
          [cell \in Cells |->
             IF n = 0 \/ cell \notin Tables THEN cell
             ELSE [k \in Keys |-> value[n - 1][h[cell][k]]]]
    IN  value[d][c]

(* fetch_local's recurser: the cells it meets, Absent from a missing map on. *)
Walk(h, c, ks) ==
    LET at[n \in 0..Len(ks)] ==
          IF n = 0 THEN c ELSE IF at[n - 1] = Absent THEN Absent ELSE h[at[n - 1]][ks[n]]
    IN  at

FetchLocal(h, c, ks) == Walk(h, c, ks)[Len(ks)]

-----------------------------------------------------------------------------
(* Writing the heap. *)

(* Mutant: the intermediate maps are not created.                           *)
UpdateLocalFlat(h, t, ks, v) == [h EXCEPT ![t][Last(ks)] = v]

(* The keys on the way to the last one that have no map. *)
Missing(h, t, ks) == {n \in 1..(Len(ks) - 1) : Walk(h, t, ks)[n] = Absent}

(* The entry of cell n - 1 at key n becomes cell n. *)
Linked(h, at, ks) ==
    [t \in Tables |-> [k \in Keys |->
        LET on == {n \in 1..Len(ks) : at[n - 1] = t /\ ks[n] = k}
        IN  IF on = {} THEN h[t][k] ELSE at[CHOOSE n \in on : TRUE]]]

(* Mutant: one table, made once, serves as every intermediate map.          *)
UpdateLocalShared(h, t, ks, v) ==
    LET old == Walk(h, t, ks)
        at == [n \in 0..Len(ks) |->
                 IF n = Len(ks) THEN v ELSE IF n \in Missing(h, t, ks) THEN EmpLiteral ELSE old[n]]
    IN  Linked(h, at, ks)

(* Bound: statements create tables while there are names for them. *)
NewTables(h, t, ks, v) == Injection(Missing(h, t, ks), Free(h, {v}))
HasRoom(h, t, ks, v) == NewTables(h, t, ks, v) # {}

(* update_local's recurser with Some v: it creates and links an empty map   *)
(* for every key on the way that has none, then replaces the last entry.    *)
UpdateLocal(h, t, ks, v) ==
    LET old == Walk(h, t, ks)
        new == CHOOSE g \in NewTables(h, t, ks, v) : TRUE
        at == [n \in 0..Len(ks) |->
                 IF n = Len(ks) THEN v ELSE IF n \in Missing(h, t, ks) THEN new[n] ELSE old[n]]
    IN  Linked(h, at, ks)

(* Mutant: the whole inner map is removed with its last key.                *)
RemoveLocalFirst(h, t, ks) == [h EXCEPT ![t][Head(ks)] = Absent]

(* update_local's recurser with None: a missing map ends the walk. *)
RemoveLocal(h, t, ks) ==
    LET last == FetchLocal(h, t, Front(ks))
    IN  IF last = Absent THEN h ELSE [h EXCEPT ![last][Last(ks)] = Absent]

-----------------------------------------------------------------------------
(* What the cells denote, and the fields and locals read that way. *)

FieldsIn(h) == [f \in Fields |-> Deref(h, Kind[f], fields[f])]
LocalsIn(h) == [x \in Vars |-> Deref(h, Kind[x], env[x])]
FieldValues == FieldsIn(heap)
EnvValues == LocalsIn(heap)

Values == INSTANCE FieldStore WITH fields <- FieldValues, env <- EnvValues

(* Scalars, tables and maps are told apart from one another and from        *)
(* nothing, like the constructors of literals and of options.               *)
ASSUME CellAssumption ==
    /\ ParsedTables \cap ({EmpLiteral} \cup FreshTables) = {}
    /\ Absent \notin Tables
    /\ Scalars \cap Tables = {}
    /\ \A d \in 1..MaxKind : Absent \notin Values!Value[d]

(* The state file read back: one table for every map of every field. *)
ParsedHeap(values) ==
    [t \in Tables |->
        IF t \notin ParsedTables THEN Emp
        ELSE LET m == Values!Get(values[t[1]], Tail(t))
             IN  IF m = Absent THEN Emp
                 ELSE [k \in Keys |-> IF m[k] = Absent \/ Len(t) = Kind[t[1]]
                                      THEN m[k] ELSE Append(t, k)]]

ParsedFields(values) ==
    [f \in Fields |-> IF Kind[f] = 0 THEN values[f] ELSE <<f>>]

NoLocals == [x \in Vars |-> Absent]

(* main: the state file's values parsed into new tables and handed to       *)
(* initialize, nothing bound yet.                                           *)
Start(values) ==
    /\ fields = ParsedFields(values)
    /\ env = NoLocals
    /\ heap = ParsedHeap(values)

FieldValueSets == {v \in [Fields -> UNION {Values!Value[d] : d \in 0..MaxKind}] :
                      \A f \in Fields : v[f] \in Values!Value[Kind[f]]}

Init == \E values \in FieldValueSets : Start(values)

-----------------------------------------------------------------------------
(* Statements.  The type checker fixes kinds; a name that is not bound      *)
(* fails the transition, and the model has no step for it.                  *)

(* The statements the warning `Consider using in-place Map access' names    *)
(* move a value of kind d > 0 between a field and a local.                  *)
Moves(d) == InPlaceOnly => d = 0

Become(h, fs, e) ==
    /\ fields' = fs
    /\ env' = e
    /\ heap' = Collect(h, fs, e)

BindTo(x, c, h) == Become(h, fields, [env EXCEPT ![x] = c])

Load(x, f) ==
    /\ Kind[x] = Kind[f] /\ Moves(Kind[f])
    /\ BindTo(x, fields[f], heap)

Store(f, x) ==
    /\ Kind[x] = Kind[f] /\ Moves(Kind[f])
    /\ env[x] # Absent
    /\ Become(heap, [fields EXCEPT ![f] = env[x]], env)

MapSet(f, ks, x) ==
    /\ Kind[x] = Kind[f] - Len(ks) /\ Moves(Kind[x])
    /\ env[x] # Absent
    /\ HasRoom(heap, fields[f], ks, env[x])
    /\ Become(UpdateLocal(heap, fields[f], ks, env[x]), fields, env)

MapDelete(f, ks) ==
    Become(RemoveLocal(heap, fields[f], ks), fields, env)

MapFetch(x, f, ks) ==
    /\ Kind[x] = Kind[f] - Len(ks) /\ Moves(Kind[x])
    /\ BindTo(x, FetchLocal(heap, fields[f], ks), heap)

MapExists(x, f, ks) ==
    /\ Kind[x] = 0
    /\ BindTo(x, IF FetchLocal(heap, fields[f], ks) = Absent THEN No ELSE Yes, heap)

BindScalar(x, s) == Kind[x] = 0 /\ BindTo(x, s, heap)

BindEmp(x) == Kind[x] > 0 /\ BindTo(x, EmpLiteral, heap)

(* put and remove copy the table: the copy shares the tables nested in it.  *)
BuiltinPut(x, m, k, v) ==
    /\ Kind[m] > 0 /\ Kind[x] = Kind[m] /\ Kind[v] = Kind[m] - 1
    /\ env[m] # Absent /\ env[v] # Absent /\ Free(heap, {}) # {}
    /\ LET new == CHOOSE t \in Free(heap, {}) : TRUE
       IN  BindTo(x, new, [heap EXCEPT ![new] = [heap[env[m]] EXCEPT ![k] = env[v]]])

BuiltinRemove(x, m, k) ==
    /\ Kind[m] > 0 /\ Kind[x] = Kind[m]
    /\ env[m] # Absent /\ Free(heap, {}) # {}
    /\ LET new == CHOOSE t \in Free(heap, {}) : TRUE
       IN  BindTo(x, new, [heap EXCEPT ![new] = [heap[env[m]] EXCEPT ![k] = Absent]])

BuiltinGet(x, m, k) ==
    /\ Kind[m] > 0 /\ Kind[x] = Kind[m] - 1
    /\ env[m] # Absent
    /\ BindTo(x, heap[env[m]][k], heap)

(* The message ends: get_full_state serialises the fields, and the run for  *)
(* the next message parses what was written.                                *)
NextMessage ==
    /\ fields' = ParsedFields(FieldValues)
    /\ env' = NoLocals
    /\ heap' = ParsedHeap(FieldValues)

Next ==
    \/ \E x \in Vars, f \in Fields : Load(x, f) \/ Store(f, x)
    \/ \E f \in Fields : \E ks \in Paths(Kind[f]) :
         \/ MapDelete(f, ks)
         \/ \E x \in Vars : MapSet(f, ks, x) \/ MapFetch(x, f, ks) \/ MapExists(x, f, ks)
    \/ \E x \in Vars : BindEmp(x) \/ \E s \in Scalars : BindScalar(x, s)
    \/ \E x, m \in Vars, k \in Keys :
         \/ BuiltinRemove(x, m, k)
         \/ BuiltinGet(x, m, k)
         \/ \E v \in Vars : BuiltinPut(x, m, k, v)
    \/ NextMessage

Spec == Init /\ [][Next]_vars

-----------------------------------------------------------------------------
(* Properties. *)

(* Every field holds a value of its declared type and every local one of    *)
(* the type it was given, whatever tables they share (the typ of ss_field). *)
TypeOK ==
    /\ fields \in [Fields -> Cells]
    /\ env \in [Vars -> Cells]
    /\ heap \in [Tables -> [Keys -> Cells]]
    /\ \A f \in Fields : FieldValues[f] \in Values!Value[Kind[f]]
    /\ \A x \in Vars : EnvValues[x] \in Values!Value[Kind[x]] \cup {Absent}

FieldTables == Reached(heap, {fields[f] : f \in Fields})

(* No table is part of two fields, or twice of one, and none that a field   *)
(* is made of can be reached from a local or from the Emp literal: this is  *)
(* what makes the in-place Hashtbl.replace of update_local safe.            *)
FieldsSeparated ==
    /\ \A t \in FieldTables :
         Cardinality({f \in Fields : fields[f] = t})
         + Cardinality({e \in FieldTables \X Keys : heap[e[1]][e[2]] = t}) = 1
    /\ FieldTables \cap Reached(heap, {env[x] : x \in Vars} \cup {EmpLiteral}) = {}

(* The statements implement value semantics: every step of the hash tables  *)
(* is the step FieldStore takes on the values they denote.                  *)
ImplementsValues == Values!Spec

(* A write reaches exactly the entry it names: update_local's walk through  *)
(* the heap is the functional update at that path, of that field alone, and *)
(* it changes no local.                                                     *)
WritesExact ==
    \A f \in Fields : \A ks \in Paths(Kind[f]) :
        LET reaches(h, value) ==
              /\ FieldsIn(h) = [FieldValues EXCEPT ![f] = value]
              /\ LocalsIn(h) = EnvValues
        IN  /\ reaches(RemoveLocal(heap, fields[f], ks), Values!Cut(FieldValues[f], ks))
            /\ \A x \in Vars :
                 Kind[x] = Kind[f] - Len(ks) /\ Moves(Kind[x]) /\ env[x] # Absent
                   /\ HasRoom(heap, fields[f], ks, env[x]) =>
                   reaches(UpdateLocal(heap, fields[f], ks, env[x]),
                           Values!Put(FieldValues[f], ks, EnvValues[x]))

(* A step that binds no name leaves the value of every local as it was:     *)
(* Eval.ml calls them `immutable bindings'.                                 *)
BindingsImmutable == [][env' = env => EnvValues' = EnvValues]_vars
=============================================================================
