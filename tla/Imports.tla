------------------------------ MODULE Imports -------------------------------
(***************************************************************************)
(* RunnerUtil.ml: import_libs, a depth-first walk over library files with  *)
(* the names of the libraries under way, and eliminate_namespaces, which   *)
(* gives everything in the tree of libraries a name of its own.            *)
(*                                                                         *)
(* A library is named by the file that its name is mapped to; what a file  *)
(* says is decided when it is first read.  Every library declares a        *)
(* function, a type and a constructor, and uses those of its imports.      *)
(* A qualified name: the namespaces before it, its sort and what it is.    *)
(***************************************************************************)
EXTENDS Integers, Sequences, SequencesExt, FiniteSetsExt, FiniteSets

CONSTANTS
    Libs,            \* library files
    LibraryName(_),         \* what a library's names are made of
    Namespaces,      \* namespaces of imports: << >> or one identifier
    MaxOwnImports,   \* bound on the imports of the contract
    MaxImports       \* bound on the imports in all library files together

Contract == "contract"      \* who imports first

ASSUME ImportsAssumption ==
    /\ IsFiniteSet(Libs) /\ Contract \notin Libs
    /\ Namespaces \subseteq Seq(STRING)
    /\ MaxOwnImports \in Nat /\ MaxImports \in Nat

VARIABLES
    files,           \* the imports of the files read so far
    stack,           \* imports under way, innermost last
    outcome,         \* "importing", "ok", "cycle", "missing", or "none"
    renaming         \* calls of rename_in_libtree under way, innermost last

importVars == <<files, stack, outcome, renaming>>

Imported == [lib : Libs, ns : Namespaces]
ImportLists(max) == UNION {[1..n -> Imported] : n \in 0..max}

(* A file: whether it is there, and what it imports. *)
Missing == [there |-> FALSE, imports |-> <<>>]
Written == FoldSet(LAMBDA f, n : n + Len(files[f].imports), 0, DOMAIN files)
Contents == {Missing} \cup [there : {TRUE}, imports : ImportLists(MaxImports - Written)]

Frame(lib, ns, names) == [lib |-> lib, ns |-> ns, names |-> names, deps |-> <<>>]
Node(frame) == [lib |-> frame.lib, ns |-> frame.ns, deps |-> frame.deps]

(* A call of rename_in_libtree: the dependencies left to rename, how those  *)
(* before them are called now, and what that makes of uses of their names.  *)
RenameCall(node, outer) ==
    [node |-> node, outer |-> outer, todo |-> node.deps, deps |-> <<>>, env |-> <<>>]

ImportInit ==
    /\ files = [f \in {} |-> <<>>]
    /\ outcome = "importing"
    /\ renaming = <<>>
    /\ \E names \in ImportLists(MaxOwnImports) : stack = <<Frame(Contract, <<>>, names)>>

ImportIdle == files = [f \in {} |-> <<>>] /\ outcome = "none" /\ stack = <<>> /\ renaming = <<>>

Top == Last(stack)
UnderWay == {stack[i].lib : i \in 1..Len(stack)}

(* import_lib: the file of a library. *)
Read(lib, content) ==
    /\ content \in IF lib \in DOMAIN files THEN {files[lib]} ELSE Contents
    /\ files' = [f \in DOMAIN files \cup {lib} |-> IF f = lib THEN content ELSE files[f]]

(* Mutant: only the importing library itself is looked for. *)
ImportNextNear ==
    /\ outcome = "importing" /\ Top.names # <<>>
    /\ LET import == Head(Top.names) IN
       IF import.lib = Top.lib
       THEN outcome' = "cycle" /\ UNCHANGED <<files, stack>>
       ELSE \E content \in Contents \cup Range(files) :
              /\ Read(import.lib, content)
              /\ IF content = Missing THEN outcome' = "missing" /\ UNCHANGED stack
                 ELSE /\ stack' = Append([stack EXCEPT ![Len(stack)].names = Tail(@)],
                                         Frame(import.lib, import.ns, content.imports))
                      /\ UNCHANGED outcome
    /\ UNCHANGED renaming

(* The next import of the innermost library. *)
ImportNext ==
    /\ outcome = "importing" /\ Top.names # <<>>
    /\ LET import == Head(Top.names) IN
       IF import.lib \in UnderWay
       THEN outcome' = "cycle" /\ UNCHANGED <<files, stack>>
       ELSE \E content \in Contents \cup Range(files) :
              /\ Read(import.lib, content)
              /\ IF content = Missing THEN outcome' = "missing" /\ UNCHANGED stack
                 ELSE /\ stack' = Append([stack EXCEPT ![Len(stack)].names = Tail(@)],
                                         Frame(import.lib, import.ns, content.imports))
                      /\ UNCHANGED outcome
    /\ UNCHANGED renaming

(* All imports of a library are there: it becomes a node of the tree.  When *)
(* those of the contract are, import_libs goes on to eliminate_namespaces.  *)
ImportDone ==
    /\ outcome = "importing" /\ Top.names = <<>>
    /\ IF Len(stack) = 1
       THEN /\ outcome' = "ok" /\ UNCHANGED stack
            /\ renaming' = <<RenameCall(Node(Top), <<>>)>>
       ELSE /\ stack' = [Front(stack) EXCEPT ![Len(stack) - 1].deps = Append(@, Node(Top))]
            /\ UNCHANGED <<outcome, renaming>>
    /\ UNCHANGED files

ImportLibs == ImportNext \/ ImportDone

-----------------------------------------------------------------------------
(* eliminate_namespaces *)

Name(sort, lib) == [ns |-> <<>>, sort |-> sort, base |-> LibraryName(lib)]
Function(lib) == Name("function", lib)
Type(lib) == Name("type", lib)
Constructor(lib) == Name("constructor", lib)

In(ns, id) == [id EXCEPT !.ns = ns \o @]

(* check_and_prefix_id: the first entry of an environment counts.           *)
Prefixed(env, id) ==
    LET found == {i \in 1..Len(env) : env[i].id = id}
    IN  IF found = {} THEN id ELSE In(env[Min(found)].ns, id)

(* rename_in_library: what the library's entries are called afterwards, and *)
(* the names it reports to its importers.  A constructor is reported under  *)
(* the new name, the others under the old one.                              *)
RenameInLibrary(env, lib, ns) ==
    LET envT == <<[id |-> Constructor(lib), ns |-> ns], [id |-> Type(lib), ns |-> ns]>> \o env
        envF == <<[id |-> Function(lib), ns |-> ns]>> \o envT
    IN  [env |-> envF,
         called |-> [function |-> Prefixed(envF, Function(lib)),
                     type |-> Prefixed(envT, Type(lib)),
                     constructor |-> Prefixed(envT, Constructor(lib))],
         names |-> <<Type(lib), Prefixed(envT, Constructor(lib)), Function(lib)>>]

(* rename_in_expr: what a name becomes where it occurs in an expression,    *)
(* under local bindings of the names in bound.  "value" stands for          *)
(* variables, arguments, payloads and what is matched, "type" for the types *)
(* of lets, functions, constructors and instances, "constructor" for those  *)
(* applied or matched.  A literal is returned as it is, with the types of   *)
(* an empty map.                                                            *)
RenameInExpr(env, id, place, bound) ==
    IF place = "literal" \/ id \in bound THEN id ELSE Prefixed(env, id)

(* Mutant: importers are told the whole namespace. *)
EntriesFull(names, ns, outer) ==
    [i \in 1..Len(names) |-> [id |-> In(ns, names[i]), ns |-> outer \o ns]]

(* What an importer calls a library's names, and what comes before that.    *)
Entries(names, ns, outer) ==
    [i \in 1..Len(names) |-> [id |-> In(ns, names[i]), ns |-> outer]]

(* rename_in_libtree *)
Inner == Last(renaming)
Full(call) == call.outer \o call.node.ns

(* Rename deps first. *)
RenameDep ==
    /\ renaming # <<>> /\ Inner.todo # <<>>
    /\ renaming' = Append([renaming EXCEPT ![Len(renaming)].todo = Tail(@)],
                          RenameCall(Head(Inner.todo), Full(Inner)))
    /\ UNCHANGED <<files, stack, outcome>>

(* An importer hears how a dependency is called now.                        *)
Told(call, called, entries) == [call EXCEPT !.deps = Append(@, called), !.env = @ \o entries]

(* Then the library itself; the contract is no library.                     *)
RenameDone ==
    /\ renaming # <<>> /\ Inner.todo = <<>>
    /\ IF Len(renaming) = 1 THEN renaming' = <<>>
       ELSE LET renamed == RenameInLibrary(Inner.env, Inner.node.lib, Full(Inner))
            IN  renaming' = [Front(renaming) EXCEPT ![Len(renaming) - 1] =
                    Told(@, renamed.called, Entries(renamed.names, Inner.node.ns, Inner.outer))]
    /\ UNCHANGED <<files, stack, outcome>>

EliminateNamespaces == RenameDep \/ RenameDone

(* The libraries of one contract, on their own. *)
ImportSpec == ImportInit /\ [][ImportLibs \/ EliminateNamespaces]_importVars

-----------------------------------------------------------------------------
(* Properties. *)

ImportsOf(f) == IF f \notin DOMAIN files THEN {} ELSE {i.lib : i \in Range(files[f].imports)}

(* The libraries that a set of libraries needs, themselves included.        *)
Closed(fs) == \A f \in fs : ImportsOf(f) \subseteq fs
Closure(fs) == {f \in Libs : \A more \in SUBSET Libs : fs \subseteq more /\ Closed(more) => f \in more}

Cyclic(f) == f \in Closure(ImportsOf(f))

(* A walk that is never deeper than there are libraries ends; it reports a  *)
(* cycle exactly when the library it comes to needs itself, and if it       *)
(* succeeds the tree is all that the contract needs: every file was read,   *)
(* none needs itself, and each library that is then renamed has its file's  *)
(* imports in their order.                                                  *)
ImportsExact ==
    /\ Len(stack) <= Cardinality(Libs) + 1
    /\ outcome = "importing" => \A f \in DOMAIN files : files[f] # Missing
    /\ outcome = "cycle" => Cyclic(Head(Top.names).lib)
    /\ outcome = "ok" =>
         /\ \A f \in DOMAIN files : ~Cyclic(f) /\ files[f] # Missing
         /\ \A n \in 2..Len(renaming) : LET node == renaming[n].node IN
              [i \in 1..Len(node.deps) |-> [lib |-> node.deps[i].lib, ns |-> node.deps[i].ns]]
              = files[node.lib].imports

(* What a library calls its own names and those of its imports. *)
Scope(node) ==
    {Function(node.lib)} \cup {In(node.deps[i].ns, Function(node.deps[i].lib)) : i \in 1..Len(node.deps)}

Unambiguous(node) == Cardinality(Scope(node)) = 1 + Len(node.deps)

(* A library whose dependencies have been renamed, and what its uses of a   *)
(* name become.                                                             *)
Renaming == Len(renaming) > 1 /\ Inner.todo = <<>>
Use(id, place, bound) ==
    RenameInExpr(RenameInLibrary(Inner.env, Inner.node.lib, Full(Inner)).env, id, place, bound)

(* Local bindings are values without a namespace. *)
LocalNames == {Function(lib) : lib \in Libs}

(* However libraries and namespaces are nested: a library's use of an       *)
(* imported function is renamed to what the imported library now calls it,  *)
(* unless a local binding hides the function, and then it stays; its use of *)
(* an imported type, outside literals, is renamed whatever is bound.        *)
UsesResolve ==
    Renaming => \A i \in 1..Len(Inner.node.deps), bound \in SUBSET LocalNames :
        LET dep == Inner.node.deps[i]
            function == In(dep.ns, Function(dep.lib))
        IN  /\ Use(function, "value", bound)
               = IF function \in bound THEN function ELSE Inner.deps[i].function
            /\ Use(In(dep.ns, Type(dep.lib)), "type", bound) = Inner.deps[i].type

(* The same of the types in the empty maps of a library.                    *)
(* RunnerUtil.ml:72: 'Prefix definitions in lib with namespace (and rewrite *)
(* their uses).  Also, rewrite uses in lib that are in env.  This is for    *)
(* names imported by lib.'                                                  *)
LiteralTypesResolve ==
    Renaming => \A i \in 1..Len(Inner.node.deps) : LET dep == Inner.node.deps[i] IN
        Use(In(dep.ns, Type(dep.lib)), "literal", {}) = Inner.deps[i].type

(* The same of constructors.  RunnerUtil.ml:214: 'An entry "n" in ltnode    *)
(* will be used as "this_namespace.n" in the libraries that import ltnode.  *)
(* Hence rename these uses "this_namespace.n" to "fullns.n"'.               *)
ConstructorsResolve ==
    Renaming /\ Unambiguous(Inner.node) => \A i \in 1..Len(Inner.node.deps) :
        LET dep == Inner.node.deps[i]
        IN  Use(In(dep.ns, Constructor(dep.lib)), "constructor", {}) = Inner.deps[i].constructor
=============================================================================
