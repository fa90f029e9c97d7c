----------------------------- MODULE WalksProofs -----------------------------
(***************************************************************************)
(* Proofs about the walks of Imports.tla and AcceptChecker.tla.            *)
(***************************************************************************)
EXTENDS Imports, AcceptChecker, SequenceTheorems, Lemmas

-----------------------------------------------------------------------------
(* Stacks: the innermost element is changed while another one is put on it, *)
(* or dropped while the one below is changed.                               *)

LEMMA Pushed ==
    ASSUME NEW F, NEW stk \in Seq(F), Len(stk) >= 1, NEW changed \in F, NEW pushed \in F,
           NEW s, s = Append([stk EXCEPT ![Len(stk)] = changed], pushed)
    PROVE  /\ s \in Seq(F) /\ Len(s) = Len(stk) + 1
           /\ s[Len(stk)] = changed /\ s[Len(stk) + 1] = pushed
           /\ \A i \in 1..(Len(stk) - 1) : s[i] = stk[i]
  <1> DEFINE t == [stk EXCEPT ![Len(stk)] = changed]
  <1>1. Len(stk) \in Nat /\ Len(stk) \in 1..Len(stk)
    OBVIOUS
  <1>2. t \in Seq(F) /\ Len(t) = Len(stk)
    BY <1>1, ExceptSeq
  <1>3. t[Len(stk)] = changed /\ \A i \in 1..(Len(stk) - 1) : t[i] = stk[i]
    BY <1>1
  <1> HIDE DEF t
  <1>4. s = Append(t, pushed)
    BY DEF t
  <1> QED
    BY <1>1, <1>2, <1>3, <1>4

LEMMA Changed ==
    ASSUME NEW F, NEW t \in Seq(F), NEW m \in 1..Len(t), NEW changed \in F
    PROVE  /\ [t EXCEPT ![m] = changed] \in Seq(F)
           /\ Len([t EXCEPT ![m] = changed]) = Len(t)
           /\ [t EXCEPT ![m] = changed][m] = changed
           /\ \A i \in 1..Len(t) : i # m => [t EXCEPT ![m] = changed][i] = t[i]
  BY ExceptSeq

LEMMA FrontOf ==
    ASSUME NEW F, NEW stk \in Seq(F), NEW m \in Nat, m >= 1, Len(stk) = m + 1
    PROVE  Front(stk) \in Seq(F) /\ Len(Front(stk)) = m /\ \A i \in 1..m : Front(stk)[i] = stk[i]
  BY DEF Front

-----------------------------------------------------------------------------
(* The libraries that are done with: with all that they need they have been *)
(* read, and none of them needs itself.                                     *)

Agreed(fs) == fs \subseteq DOMAIN files /\ Closed(fs) /\ \A f \in fs : ~Cyclic(f)
Settled == UNION {fs \in SUBSET DOMAIN files : Agreed(fs)}

FileContents == {Missing} \cup [there : {TRUE}, imports : Seq(Imported)]

FilesTyped == files \in [DOMAIN files -> FileContents] /\ DOMAIN files \subseteq Libs

LEMMA ImportsInLibs ==
    ASSUME FilesTyped, NEW f
    PROVE  ImportsOf(f) \subseteq Libs
  <1>1. CASE f \in DOMAIN files
    <2>1. files[f].imports \in Seq(Imported)
      <3>1. files[f] \in FileContents
        BY <1>1 DEF FilesTyped
      <3>2. Missing.imports \in Seq(Imported)
        BY DEF Missing
      <3>3. \A c \in [there : {TRUE}, imports : Seq(Imported)] : c.imports \in Seq(Imported)
        OBVIOUS
      <3> QED
        BY <3>1, <3>2, <3>3, Zenon DEF FileContents
    <2>2. \A i \in Range(files[f].imports) : i \in Imported
      BY <2>1 DEF Range
    <2> QED
      BY <1>1, <2>2 DEF ImportsOf, Imported
  <1>2. CASE f \notin DOMAIN files
    BY <1>2 DEF ImportsOf
  <1> QED
    BY <1>1, <1>2

(* A library outside a set that has all its imports and theirs does not     *)
(* need itself.                                                             *)
LEMMA Acyclic ==
    ASSUME NEW f, NEW fs \in SUBSET Libs, Closed(fs), ImportsOf(f) \subseteq fs, f \notin fs
    PROVE  ~Cyclic(f)
  BY DEF Cyclic, Closure

LEMMA AcyclicWitness ==
    ASSUME NEW f \in Libs, ~Cyclic(f)
    PROVE  \E fs \in SUBSET Libs : Closed(fs) /\ ImportsOf(f) \subseteq fs /\ f \notin fs
  BY DEF Cyclic, Closure

LEMMA SettledAgreed ==
    ASSUME FilesTyped
    PROVE  Agreed(Settled) /\ Settled \subseteq Libs
  <1>1. Settled \subseteq DOMAIN files
    BY DEF Settled
  <1>2. \A f \in Settled : \E fs \in SUBSET DOMAIN files : f \in fs /\ Agreed(fs)
    BY DEF Settled
  <1>3. \A fs \in SUBSET DOMAIN files : Agreed(fs) => fs \subseteq Settled
    BY DEF Settled
  <1>4. \A f \in Settled : ImportsOf(f) \subseteq Settled /\ ~Cyclic(f)
    <2> TAKE f \in Settled
    <2>1. PICK fs \in SUBSET DOMAIN files : f \in fs /\ Agreed(fs)
      BY <1>2
    <2>2. ImportsOf(f) \subseteq fs /\ ~Cyclic(f)
      BY <2>1 DEF Agreed, Closed
    <2> QED
      BY <1>3, <2>1, <2>2
  <1> QED
    BY <1>1, <1>4 DEF Agreed, Closed, FilesTyped

(* Reading one more file settles nothing less.                              *)
LEMMA SettledGrows ==
    ASSUME FilesTyped, FilesTyped', DOMAIN files \subseteq DOMAIN files',
           \A f \in DOMAIN files : files'[f] = files[f]
    PROVE  Settled \subseteq Settled'
  <1>1. PICK old : old = Settled
    OBVIOUS
  <1>2. Closed(old) /\ old \subseteq Libs /\ \A f \in old : ~Cyclic(f)
    BY <1>1, SettledAgreed DEF Agreed
  <1>3. old \subseteq DOMAIN files /\ old \subseteq DOMAIN files'
    BY <1>1, SettledAgreed DEF Agreed
  <1>4. \A f \in old : ImportsOf(f)' = ImportsOf(f)
    BY <1>3 DEF ImportsOf
  <1>5. \A fs \in SUBSET old : Closed(fs) => Closed(fs)'
    BY <1>4 DEF Closed
  <1>6. \A f \in old : ~Cyclic(f)'
    <2> SUFFICES ASSUME NEW f \in old
                 PROVE  ~Cyclic(f)'
      OBVIOUS
    <2>1. f \in Libs /\ ~Cyclic(f) /\ ImportsOf(f) \subseteq old
      BY <1>2 DEF Closed
    <2>2. PICK fs \in SUBSET Libs : Closed(fs) /\ ImportsOf(f) \subseteq fs /\ f \notin fs
      BY <2>1, AcyclicWitness
    <2>3. PICK both : both = fs \cap old
      OBVIOUS
    <2>4. both \in SUBSET Libs /\ ImportsOf(f) \subseteq both /\ f \notin both /\ both \in SUBSET old
      BY <2>1, <2>2, <2>3
    <2>5. Closed(both)
      BY <1>2, <2>2, <2>3 DEF Closed
    <2>6. Closed(both)' /\ ImportsOf(f)' \subseteq both
      BY <1>4, <1>5, <2>4, <2>5
    <2> QED
      BY <2>4, <2>6 DEF Cyclic, Closure
  <1>7. Agreed(old)'
    BY <1>2, <1>3, <1>5, <1>6 DEF Agreed
  <1>8. old \in SUBSET DOMAIN files'
    BY <1>3
  <1> QED
    BY <1>1, <1>7, <1>8 DEF Settled

(* A library settles when all its imports have. *)
LEMMA SettlesLast ==
    ASSUME FilesTyped, NEW f \in DOMAIN files, ImportsOf(f) \subseteq Settled
    PROVE  f \in Settled
  <1>1. Agreed(Settled) /\ Settled \subseteq Libs
    BY SettledAgreed
  <1> SUFFICES ASSUME f \notin Settled
               PROVE  FALSE
    OBVIOUS
  <1>2. ~Cyclic(f)
    BY <1>1, Acyclic DEF Agreed
  <1>3. Agreed(Settled \cup {f})
    BY <1>1, <1>2 DEF Agreed, Closed
  <1>4. Settled \cup {f} \in SUBSET DOMAIN files
    BY <1>3 DEF Agreed
  <1>5. Settled \cup {f} \subseteq Settled
    BY <1>3, <1>4 DEF Settled
  <1> QED
    BY <1>5

-----------------------------------------------------------------------------
(* The walk over the library files.  G holds the nodes that are finished.   *)

Frames(G) == [lib : Libs \cup {Contract}, ns : Seq(STRING), names : Seq(Imported), deps : Seq(G)]
TreeNodes(G) == [lib : Libs \cup {Contract}, ns : Seq(STRING), deps : Seq(G)]

FilesSound ==
    /\ FilesTyped
    /\ outcome \in {"importing", "ok"} => \A f \in DOMAIN files : files[f] # Missing

Import(frame) == [lib |-> frame.lib, ns |-> frame.ns]

Follows(node) ==
    LET imports == files[node.lib].imports
    IN  /\ Len(node.deps) = Len(imports)
        /\ \A k \in 1..Len(imports) : imports[k] = Import(node.deps[k])

NodesSound(G) == G \subseteq TreeNodes(G) /\ \A n \in G : n.lib \in DOMAIN files /\ Follows(n)

(* The imports of a library under way: those that are finished, the one     *)
(* that the frame above is for, and those to come.                          *)
Fits(deps, open, names, imports) ==
    /\ Len(imports) = Len(deps) + Len(open) + Len(names)
    /\ \A k \in 1..Len(deps) : imports[k] = Import(deps[k])
    /\ \A k \in 1..Len(open) : imports[Len(deps) + k] = open[k]
    /\ \A k \in 1..Len(names) : imports[Len(deps) + Len(open) + k] = names[k]

Open(i) == IF i < Len(stack) THEN <<Import(stack[i + 1])>> ELSE <<>>
FrameSound(i) == Fits(stack[i].deps, Open(i), stack[i].names, files[stack[i].lib].imports)

LEMMA FitsOpens ==
    ASSUME NEW G, NEW I, NEW deps \in Seq(G), NEW names \in Seq(I), NEW imports \in Seq(I), names # <<>>,
           Fits(deps, <<>>, names, imports)
    PROVE  Fits(deps, <<Head(names)>>, Tail(names), imports)
  <1> DEFINE tail == Tail(names)
             m == Len(deps)
  <1>1. m \in Nat /\ Len(names) \in Nat \ {0} /\ Head(names) = names[1]
    OBVIOUS
  <1>2. Len(tail) = Len(names) - 1 /\ \A k \in 1..Len(tail) : tail[k] = names[k + 1]
    OBVIOUS
  <1>3. Len(<<>>) = 0 /\ Len(<<Head(names)>>) = 1 /\ <<Head(names)>>[1] = names[1]
    BY <1>1
  <1>4. /\ Len(imports) = m + 0 + Len(names)
        /\ \A k \in 1..m : imports[k] = Import(deps[k])
        /\ \A k \in 1..Len(names) : imports[m + 0 + k] = names[k]
    BY <1>3 DEF Fits
  <1> HIDE DEF tail, m
  <1>5. Len(imports) = m + 1 + Len(tail)
    BY <1>1, <1>2, <1>4
  <1>6. imports[m + 1] = names[1]
    BY <1>1, <1>4
  <1>7. \A k \in 1..Len(tail) : imports[m + 1 + k] = tail[k]
    <2> TAKE k \in 1..Len(tail)
    <2>1. k + 1 \in 1..Len(names) /\ m + 0 + (k + 1) = m + 1 + k
      BY <1>1, <1>2
    <2> QED
      BY <1>2, <1>4, <2>1
  <1>8. \A k \in 1..1 : imports[m + k] = <<Head(names)>>[k]
    BY <1>3, <1>6
  <1> QED
    BY <1>3, <1>4, <1>5, <1>7, <1>8 DEF Fits, m, tail

LEMMA FitsCloses ==
    ASSUME NEW G, NEW I, NEW deps \in Seq(G), NEW node \in G, NEW names \in Seq(I), NEW imports \in Seq(I),
           Fits(deps, <<Import(node)>>, names, imports)
    PROVE  Fits(Append(deps, node), <<>>, names, imports)
  <1> DEFINE more == Append(deps, node)
             m == Len(deps)
  <1>1. m \in Nat /\ Len(names) \in Nat
    OBVIOUS
  <1>2. Len(more) = m + 1 /\ more[m + 1] = node /\ \A k \in 1..m : more[k] = deps[k]
    OBVIOUS
  <1>3. Len(<<>>) = 0 /\ Len(<<Import(node)>>) = 1 /\ <<Import(node)>>[1] = Import(node)
    OBVIOUS
  <1>4. /\ Len(imports) = m + 1 + Len(names)
        /\ \A k \in 1..m : imports[k] = Import(deps[k])
        /\ imports[m + 1] = Import(node)
        /\ \A k \in 1..Len(names) : imports[m + 1 + k] = names[k]
    BY <1>3 DEF Fits
  <1> HIDE DEF more, m
  <1>5. \A k \in 1..(m + 1) : imports[k] = Import(more[k])
    <2> TAKE k \in 1..(m + 1)
    <2>1. k \in 1..m \/ k = m + 1
      BY <1>1
    <2> QED
      BY <1>2, <1>4, <2>1
  <1>6. Len(imports) = (m + 1) + 0 + Len(names)
        /\ \A k \in 1..Len(names) : imports[(m + 1) + 0 + k] = names[k]
    BY <1>1, <1>4
  <1>7. \A k \in 1..0 : imports[(m + 1) + k] = <<>>[k]
    OBVIOUS
  <1> QED
    BY <1>2, <1>3, <1>5, <1>6, <1>7 DEF Fits, more

LEMMA FitsBegins ==
    ASSUME NEW I, NEW imports \in Seq(I)
    PROVE  Fits(<<>>, <<>>, imports, imports)
  <1>1. Len(<<>>) = 0 /\ Len(imports) \in Nat
    OBVIOUS
  <1>2. Len(imports) = 0 + 0 + Len(imports) /\ \A k \in 1..Len(imports) : imports[0 + 0 + k] = imports[k]
    BY <1>1
  <1>3. \A k \in 1..0 : imports[k] = Import(<<>>[k]) /\ imports[0 + k] = <<>>[k]
    OBVIOUS
  <1> QED
    BY <1>1, <1>2, <1>3 DEF Fits

LEMMA FitsOne ==
    ASSUME NEW G, NEW I, NEW deps \in Seq(G), NEW names \in Seq(I), NEW imports \in Seq(I), NEW one,
           Fits(deps, <<one>>, names, imports)
    PROVE  Len(deps) + 1 \in 1..Len(imports) /\ imports[Len(deps) + 1] = one
  <1>1. Len(<<one>>) = 1 /\ <<one>>[1] = one /\ Len(deps) \in Nat /\ Len(names) \in Nat
    OBVIOUS
  <1>2. Len(imports) = Len(deps) + 1 + Len(names) /\ \A k \in 1..1 : imports[Len(deps) + k] = <<one>>[k]
    BY <1>1 DEF Fits
  <1> QED
    BY <1>1, <1>2

LEMMA FitsEnds ==
    ASSUME NEW G, NEW deps \in Seq(G), NEW imports, Fits(deps, <<>>, <<>>, imports)
    PROVE  Len(deps) = Len(imports) /\ \A k \in 1..Len(imports) : imports[k] = Import(deps[k])
  <1>1. Len(<<>>) = 0 /\ Len(deps) \in Nat
    OBVIOUS
  <1>2. Len(imports) = Len(deps) + 0 + 0 /\ \A k \in 1..Len(deps) : imports[k] = Import(deps[k])
    BY <1>1 DEF Fits
  <1>3. Len(imports) = Len(deps)
    BY <1>1, <1>2
  <1> QED
    BY <1>2, <1>3

StackSound(G) ==
    /\ stack \in Seq(Frames(G)) /\ Len(stack) >= 1
    /\ stack[1].lib = Contract
    /\ \A i \in 2..Len(stack) : stack[i].lib \in DOMAIN files /\ FrameSound(i)
    /\ \A i, j \in 2..Len(stack) : stack[i].lib = stack[j].lib => i = j

WalkSound ==
    /\ outcome \in {"importing", "ok"} => DOMAIN files \subseteq Settled \cup UnderWay
    /\ \A i \in 1..Len(stack) : \A k \in 1..Len(stack[i].deps) : stack[i].deps[k].lib \in Settled
    /\ outcome = "ok" => Len(stack) = 1
    /\ outcome = "cycle" => Cyclic(Head(Top.names).lib)

LEMMA FileImports ==
    ASSUME FilesTyped, NEW f \in DOMAIN files
    PROVE  /\ f \in Libs /\ files[f].imports \in Seq(Imported)
           /\ \A k \in 1..Len(files[f].imports) : files[f].imports[k].lib \in ImportsOf(f)
           /\ \A lib \in ImportsOf(f) : \E k \in 1..Len(files[f].imports) : files[f].imports[k].lib = lib
  <1>1. files[f] \in FileContents /\ f \in Libs
    BY DEF FilesTyped
  <1>2. Missing.imports \in Seq(Imported)
    BY DEF Missing
  <1>3. \A c \in [there : {TRUE}, imports : Seq(Imported)] : c.imports \in Seq(Imported)
    OBVIOUS
  <1>4. files[f].imports \in Seq(Imported)
    BY <1>1, <1>2, <1>3, Zenon DEF FileContents
  <1>5. DOMAIN files[f].imports = 1..Len(files[f].imports)
    BY <1>4
  <1>6. ImportsOf(f) = {i.lib : i \in Range(files[f].imports)}
    BY DEF ImportsOf
  <1>7. Range(files[f].imports) = {files[f].imports[k] : k \in 1..Len(files[f].imports)}
    BY <1>5 DEF Range
  <1> HIDE DEF FilesTyped
  <1>8. \A k \in 1..Len(files[f].imports) : files[f].imports[k].lib \in ImportsOf(f)
    BY <1>6, <1>7, Zenon
  <1>9. \A lib \in ImportsOf(f) : \E k \in 1..Len(files[f].imports) : files[f].imports[k].lib = lib
    BY <1>6, <1>7, Zenon
  <1> QED
    BY <1>1, <1>4, <1>8, <1>9

(* What a library under way imports. *)
LEMMA FrameImports ==
    ASSUME FilesTyped, NEW G, StackSound(G), NEW i \in 2..Len(stack)
    PROVE  LET lib == stack[i].lib IN
           /\ i < Len(stack) => stack[i + 1].lib \in ImportsOf(lib)
           /\ i = Len(stack) /\ stack[i].names # <<>> => Head(stack[i].names).lib \in ImportsOf(lib)
           /\ i = Len(stack) /\ stack[i].names = <<>> =>
                 \A l \in ImportsOf(lib) : \E k \in 1..Len(stack[i].deps) : stack[i].deps[k].lib = l
  <1> DEFINE lib == stack[i].lib
             imports == files[lib].imports
             deps == stack[i].deps
             names == stack[i].names
  <1>1. lib \in DOMAIN files /\ FrameSound(i) /\ Len(stack) \in Nat /\ i \in Nat
    BY DEF StackSound
  <1>2. deps \in Seq(G) /\ names \in Seq(Imported)
    <2>1. stack[i] \in Frames(G)
      BY <1>1 DEF StackSound
    <2> QED
      BY <2>1 DEF Frames
  <1>3. /\ imports \in Seq(Imported)
        /\ \A k \in 1..Len(imports) : imports[k].lib \in ImportsOf(lib)
        /\ \A l \in ImportsOf(lib) : \E k \in 1..Len(imports) : imports[k].lib = l
    BY <1>1, FileImports
  <1>4. Fits(deps, Open(i), names, imports)
    BY <1>1 DEF FrameSound
  <1>5. (i < Len(stack) => Open(i) = <<Import(stack[i + 1])>>) /\ (i = Len(stack) => Open(i) = <<>>)
    BY <1>1 DEF Open
  <1>6. Len(deps) \in Nat /\ Len(names) \in Nat
    BY <1>2
  <1> HIDE DEF lib, imports, deps, names
  <1>7. ASSUME i < Len(stack)
        PROVE  stack[i + 1].lib \in ImportsOf(lib)
    <2>1. Fits(deps, <<Import(stack[i + 1])>>, names, imports)
      BY <1>4, <1>5, <1>7
    <2>2. Len(deps) + 1 \in 1..Len(imports) /\ imports[Len(deps) + 1] = Import(stack[i + 1])
      BY <1>2, <1>3, <2>1, FitsOne
    <2>3. Import(stack[i + 1]).lib = stack[i + 1].lib
      BY DEF Import
    <2> QED
      BY <1>3, <2>2, <2>3
  <1>8. ASSUME i = Len(stack), names # <<>>
        PROVE  Head(names).lib \in ImportsOf(lib)
    <2>1. Fits(deps, <<Head(names)>>, Tail(names), imports)
      BY <1>2, <1>3, <1>4, <1>5, <1>8, FitsOpens
    <2>2. PICK one, rest : one = Head(names) /\ rest = Tail(names)
      OBVIOUS
    <2>3. Fits(deps, <<one>>, rest, imports) /\ rest \in Seq(Imported)
      BY <1>2, <1>8, <2>1, <2>2
    <2>4. Len(deps) + 1 \in 1..Len(imports) /\ imports[Len(deps) + 1] = one
      BY <1>2, <1>3, <2>3, FitsOne
    <2> QED
      BY <1>3, <2>2, <2>4
  <1>9. ASSUME i = Len(stack), names = <<>>
        PROVE  \A l \in ImportsOf(lib) : \E k \in 1..Len(deps) : deps[k].lib = l
    <2>0. Fits(deps, <<>>, <<>>, imports)
      BY <1>4, <1>5, <1>9
    <2>1. Len(deps) = Len(imports) /\ \A k \in 1..Len(imports) : imports[k] = Import(deps[k])
      BY <1>2, <2>0, FitsEnds
    <2>2. \A k \in 1..Len(imports) : imports[k].lib = deps[k].lib
      <3> TAKE k \in 1..Len(imports)
      <3>1. imports[k] = [lib |-> deps[k].lib, ns |-> deps[k].ns]
        BY <2>1 DEF Import
      <3> QED
        BY ONLY <3>1
    <2> QED
      BY <1>3, <2>1, <2>2
  <1> QED
    BY <1>7, <1>8, <1>9 DEF lib, names, deps

(* A library that is under way when it is to be imported needs itself.      *)
LEMMA CycleFound ==
    ASSUME ImportsAssumption, FilesTyped, NEW G, StackSound(G),
           Top.names # <<>>, Head(Top.names).lib \in UnderWay
    PROVE  Cyclic(Head(Top.names).lib)
  <1> DEFINE lib == Head(Top.names).lib
  <1>1. Len(stack) \in Nat \ {0} /\ Top = stack[Len(stack)] /\ Top \in Frames(G)
    BY DEF StackSound, Top, Last
  <1>2. lib \in Libs /\ lib # Contract
    <2>1. Top.names \in Seq(Imported)
      BY <1>1 DEF Frames
    <2>2. Head(Top.names) \in Imported
      BY <2>1
    <2> QED
      BY <2>2 DEF Imported, ImportsAssumption
  <1>3. PICK m \in 1..Len(stack) : stack[m].lib = lib
    BY DEF UnderWay
  <1>4. m \in 2..Len(stack) /\ m \in Nat
    BY <1>1, <1>2, <1>3 DEF StackSound
  <1> SUFFICES ASSUME NEW more \in SUBSET Libs, ImportsOf(lib) \subseteq more, Closed(more)
               PROVE  lib \in more
    BY <1>2 DEF Cyclic, Closure
  <1> DEFINE S == {n \in Nat : m + n <= Len(stack) => ImportsOf(stack[m + n].lib) \subseteq more}
  <1>5. 0 \in S
    BY <1>3, <1>4
  <1>6. \A n \in Nat : n \in S => n + 1 \in S
    <2> SUFFICES ASSUME NEW n \in Nat, n \in S, m + (n + 1) <= Len(stack)
                 PROVE  ImportsOf(stack[m + (n + 1)].lib) \subseteq more
      OBVIOUS
    <2>1. PICK i \in 2..Len(stack) : i = m + n
      BY <1>1, <1>4
    <2>2. i < Len(stack) /\ i + 1 = m + (n + 1)
      BY <1>1, <1>4, <2>1
    <2>3. ImportsOf(stack[i].lib) \subseteq more
      BY <2>1, <2>2
    <2>4. stack[i + 1].lib \in more
      BY <2>2, <2>3, FrameImports
    <2> QED
      BY <2>2, <2>4 DEF Closed
  <1>7. Len(stack) - m \in Nat /\ m + (Len(stack) - m) = Len(stack)
    BY <1>1, <1>4
  <1>8. Len(stack) - m \in S
    BY <1>5, <1>6, <1>7, SetInduction
  <1>9. ImportsOf(Top.lib) \subseteq more
    BY <1>1, <1>7, <1>8
  <1>10. Len(stack) \in 2..Len(stack)
    BY <1>1, <1>4
  <1>11. lib \in ImportsOf(Top.lib)
    BY <1>1, <1>10, FrameImports
  <1> QED
    BY <1>9, <1>11

(* Files never change; a library without a file is only read once.          *)
Kept == /\ DOMAIN files \subseteq DOMAIN files'
        /\ \A f \in DOMAIN files : files'[f] = files[f]

LEMMA KeptNodes ==
    ASSUME Kept, NEW G, NodesSound(G)
    PROVE  NodesSound(G)'
  BY DEF Kept, NodesSound, Follows, TreeNodes, Import

LEMMA TopTyped ==
    ASSUME ImportsAssumption, FilesTyped, NEW G, StackSound(G)
    PROVE  /\ Len(stack) \in Nat \ {0} /\ Top = stack[Len(stack)] /\ Top \in Frames(G)
           /\ Top.names \in Seq(Imported) /\ Top.deps \in Seq(G)
           /\ Top.names # <<>> => /\ Head(Top.names) \in Imported
                                  /\ Head(Top.names).lib \in Libs
                                  /\ Head(Top.names).ns \in Seq(STRING)
                                  /\ Tail(Top.names) \in Seq(Imported)
                                  /\ Len(Tail(Top.names)) = Len(Top.names) - 1
                                  /\ \A k \in 1..Len(Tail(Top.names)) : Tail(Top.names)[k] = Top.names[k + 1]
  <1>1. Len(stack) \in Nat \ {0} /\ Top = stack[Len(stack)] /\ Top \in Frames(G)
    BY DEF StackSound, Top, Last
  <1>2. Top.names \in Seq(Imported) /\ Top.deps \in Seq(G)
    BY <1>1 DEF Frames
  <1>3. ASSUME Top.names # <<>>
        PROVE  Head(Top.names) \in Imported
    BY <1>2, <1>3
  <1>4. ASSUME Top.names # <<>>
        PROVE  /\ Tail(Top.names) \in Seq(Imported)
               /\ Len(Tail(Top.names)) = Len(Top.names) - 1
               /\ \A k \in 1..Len(Tail(Top.names)) : Tail(Top.names)[k] = Top.names[k + 1]
    BY <1>2, <1>4
  <1>5. \A i \in Imported : i.lib \in Libs /\ i.ns \in Seq(STRING)
    BY DEF Imported, ImportsAssumption
  <1> QED
    BY <1>1, <1>2, <1>3, <1>4, <1>5

(* Reading the file of a library. *)
LEMMA ReadKeeps ==
    ASSUME FilesTyped, NEW lib \in Libs, NEW content \in Contents \cup Range(files), Read(lib, content)
    PROVE  /\ FilesTyped' /\ Kept
           /\ DOMAIN files' = DOMAIN files \cup {lib} /\ files'[lib] = content
           /\ lib \in DOMAIN files => content = files[lib]
           /\ content = Missing \/ (content.there = TRUE /\ content.imports \in Seq(Imported))
  <1>1. content \in FileContents
    <2>1. \A c \in Range(files) : c \in FileContents
      BY DEF Range, FilesTyped
    <2>2. \A max : ImportLists(max) \subseteq Seq(Imported)
      BY DEF ImportLists
    <2>3. Contents \subseteq FileContents
      BY <2>2 DEF Contents, FileContents
    <2> QED
      BY <2>1, <2>3
  <1>2. /\ files' = [f \in DOMAIN files \cup {lib} |-> IF f = lib THEN content ELSE files[f]]
        /\ lib \in DOMAIN files => content = files[lib]
    BY DEF Read
  <1>3. DOMAIN files' = DOMAIN files \cup {lib} /\ files'[lib] = content
    BY <1>2
  <1>4. FilesTyped'
    BY <1>1, <1>2 DEF FilesTyped
  <1>5. Kept
    BY <1>2 DEF Kept
  <1>6. content = Missing \/ (content.there = TRUE /\ content.imports \in Seq(Imported))
    BY <1>1 DEF FileContents
  <1> QED
    BY <1>2, <1>3, <1>4, <1>5, <1>6

(* One step of import_libs. *)
Sound(G) == FilesSound /\ NodesSound(G) /\ StackSound(G) /\ WalkSound

LEMMA CycleStep ==
    ASSUME ImportsAssumption, NEW G, Sound(G), outcome = "importing", Top.names # <<>>,
           Head(Top.names).lib \in UnderWay, outcome' = "cycle", UNCHANGED <<files, stack>>
    PROVE  Sound(G)'
  <1>1. Cyclic(Head(Top.names).lib)
    BY CycleFound DEF Sound, FilesSound
  <1>2. FilesSound' /\ NodesSound(G)'
    BY DEF Sound, FilesSound, FilesTyped, NodesSound, Follows, TreeNodes
  <1>3. StackSound(G)'
    BY DEF Sound, StackSound, FrameSound, Open, Import
  <1>4. Settled' = Settled /\ Cyclic(Head(Top.names).lib)'
    BY <1>1 DEF Settled, Agreed, Closed, Cyclic, Closure, ImportsOf, Top
  <1>5. WalkSound'
    BY <1>4 DEF Sound, WalkSound
  <1> QED
    BY <1>2, <1>3, <1>5 DEF Sound

LEMMA MissingStep ==
    ASSUME ImportsAssumption, NEW G, Sound(G), outcome = "importing", Top.names # <<>>,
           Head(Top.names).lib \notin UnderWay, Read(Head(Top.names).lib, Missing),
           Missing \in Contents \cup Range(files),
           outcome' = "missing", UNCHANGED stack
    PROVE  Sound(G)'
  <1>1. Head(Top.names).lib \in Libs
    BY TopTyped DEF Sound, FilesSound
  <1>2. FilesTyped' /\ Kept
    BY <1>1, ReadKeeps DEF Sound, FilesSound
  <1>3. NodesSound(G)'
    BY <1>2, KeptNodes DEF Sound
  <1>4. FilesSound'
    BY <1>2 DEF FilesSound
  <1>5. StackSound(G)'
    <2>1. StackSound(G)
      BY DEF Sound
    <2>2. \A i \in 2..Len(stack) : stack[i].lib \in DOMAIN files' /\ FrameSound(i)'
      <3> SUFFICES ASSUME NEW i \in 2..Len(stack)
                   PROVE  stack[i].lib \in DOMAIN files' /\ FrameSound(i)'
        OBVIOUS
      <3>1. stack[i].lib \in DOMAIN files /\ FrameSound(i)
        BY <2>1 DEF StackSound
      <3>2. stack[i].lib \in DOMAIN files' /\ files'[stack[i].lib] = files[stack[i].lib]
        BY <1>2, <3>1 DEF Kept
      <3> QED
        BY <3>1, <3>2 DEF FrameSound, Open, Import
    <2> QED
      BY <2>1, <2>2 DEF StackSound, Frames
  <1>6. Settled \subseteq Settled'
    BY <1>2, SettledGrows DEF Sound, FilesSound, Kept
  <1>7. WalkSound'
    BY <1>6 DEF Sound, WalkSound
  <1> QED
    BY <1>3, <1>4, <1>5, <1>7 DEF Sound

LEMMA PushStep ==
    ASSUME ImportsAssumption, NEW G, Sound(G), outcome = "importing", Top.names # <<>>,
           Head(Top.names).lib \notin UnderWay,
           NEW content \in Contents \cup Range(files), Read(Head(Top.names).lib, content),
           content # Missing,
           stack' = Append([stack EXCEPT ![Len(stack)].names = Tail(@)],
                           Frame(Head(Top.names).lib, Head(Top.names).ns, content.imports)),
           outcome' = outcome
    PROVE  Sound(G)'
  <1>1. PICK import : import = Head(Top.names)
    OBVIOUS
  <1>2. PICK n : n = Len(stack)
    OBVIOUS
  <1>3. PICK changed : changed = [Top EXCEPT !.names = Tail(@)]
    OBVIOUS
  <1>4. PICK new : new = Frame(import.lib, import.ns, content.imports)
    OBVIOUS
  <1>5. FilesTyped /\ StackSound(G) /\ WalkSound /\ FilesSound /\ NodesSound(G)
    BY DEF Sound, FilesSound
  <1>6. /\ n \in Nat \ {0} /\ Top = stack[n] /\ Top \in Frames(G)
        /\ Top.names \in Seq(Imported) /\ Top.deps \in Seq(G)
        /\ import \in Imported /\ import.lib \in Libs /\ import.ns \in Seq(STRING)
        /\ Tail(Top.names) \in Seq(Imported)
        /\ Len(Tail(Top.names)) = Len(Top.names) - 1
        /\ \A k \in 1..Len(Tail(Top.names)) : Tail(Top.names)[k] = Top.names[k + 1]
    BY <1>1, <1>2, <1>5, TopTyped
  <1>7. /\ FilesTyped' /\ Kept
        /\ DOMAIN files' = DOMAIN files \cup {import.lib} /\ files'[import.lib] = content
        /\ content.there = TRUE /\ content.imports \in Seq(Imported)
    BY <1>1, <1>5, <1>6, ReadKeeps
  <1>8. changed \in Frames(G)
    BY <1>3, <1>6 DEF Frames
  <1>9. /\ changed.lib = Top.lib /\ changed.ns = Top.ns /\ changed.deps = Top.deps
        /\ changed.names = Tail(Top.names)
    BY <1>3, <1>6 DEF Frames
  <1>10. new \in Frames(G) /\ new.lib = import.lib /\ new.ns = import.ns
         /\ new.names = content.imports /\ new.deps = <<>>
    BY <1>4, <1>6, <1>7 DEF Frames, Frame
  <1>11. stack' = Append([stack EXCEPT ![n] = changed], new)
    BY <1>1, <1>2, <1>3, <1>4, <1>6
  <1>12. stack \in Seq(Frames(G)) /\ n >= 1
    BY <1>5, <1>6 DEF StackSound
  <1>13. /\ stack' \in Seq(Frames(G)) /\ Len(stack') = n + 1
         /\ stack'[n] = changed /\ stack'[n + 1] = new
         /\ \A i \in 1..(n - 1) : stack'[i] = stack[i]
    <2>1. n = Len(stack)
      BY <1>2
    <2>2. stack' = Append([stack EXCEPT ![Len(stack)] = changed], new) /\ Len(stack) >= 1
      BY <1>11, <1>12, <2>1
    <2>3. /\ stack' \in Seq(Frames(G)) /\ Len(stack') = Len(stack) + 1
          /\ stack'[Len(stack)] = changed /\ stack'[Len(stack) + 1] = new
          /\ \A i \in 1..(Len(stack) - 1) : stack'[i] = stack[i]
      <3>1. PICK s : s = stack'
        OBVIOUS
      <3>2. PICK F : F = Frames(G)
        OBVIOUS
      <3>3. /\ s = Append([stack EXCEPT ![Len(stack)] = changed], new) /\ Len(stack) >= 1
            /\ stack \in Seq(F) /\ changed \in F /\ new \in F
        BY <1>8, <1>10, <1>12, <2>2, <3>1, <3>2
      <3>4. /\ s \in Seq(F) /\ Len(s) = Len(stack) + 1
            /\ s[Len(stack)] = changed /\ s[Len(stack) + 1] = new
            /\ \A i \in 1..(Len(stack) - 1) : s[i] = stack[i]
        BY ONLY <3>3, Pushed
      <3> QED
        BY <3>1, <3>2, <3>4
    <2> QED
      BY <2>1, <2>3
  <1>14. \A i \in 1..n : /\ stack'[i].lib = stack[i].lib /\ stack'[i].ns = stack[i].ns
                         /\ stack'[i].deps = stack[i].deps
    BY <1>6, <1>9, <1>13
  <1>15. NodesSound(G)'
    BY <1>5, <1>7, KeptNodes
  <1>16. FilesSound'
    BY <1>5, <1>7 DEF FilesSound, Kept
  <1>17. \A i \in 2..n : stack[i].lib \in DOMAIN files /\ files'[stack[i].lib] = files[stack[i].lib]
    BY <1>2, <1>5, <1>7 DEF StackSound, Kept
  <1>18. \A i \in 2..(n - 1) : FrameSound(i)'
    <2> SUFFICES ASSUME NEW i \in 2..(n - 1)
                 PROVE  FrameSound(i)'
      OBVIOUS
    <2>1. FrameSound(i) /\ i \in 2..n /\ i + 1 \in 1..n /\ i \in 1..(n - 1)
      BY <1>2, <1>5, <1>6 DEF StackSound
    <2>2. stack'[i] = stack[i] /\ stack'[i + 1].lib = stack[i + 1].lib /\ stack'[i + 1].ns = stack[i + 1].ns
      BY <1>13, <1>14, <2>1
    <2>3. i < Len(stack) /\ i < Len(stack')
      BY <1>2, <1>6, <1>13, <2>1
    <2>4. Open(i)' = Open(i)
      BY <2>2, <2>3 DEF Open, Import
    <2>5. files'[stack'[i].lib] = files[stack[i].lib]
      BY <1>17, <2>1, <2>2
    <2> QED
      BY <2>1, <2>2, <2>4, <2>5 DEF FrameSound
  <1>19. n \in 2..n => FrameSound(n)'
    <2> SUFFICES ASSUME n \in 2..n
                 PROVE  FrameSound(n)'
      OBVIOUS
    <2> DEFINE imports == files[Top.lib].imports
    <2>1. FrameSound(n) /\ Open(n) = <<>>
      BY <1>2, <1>5 DEF StackSound, Open
    <2>2. Fits(Top.deps, <<>>, Top.names, imports)
      BY <1>6, <2>1 DEF FrameSound
    <2>3. imports \in Seq(Imported)
      BY <1>2, <1>5, <1>6, FileImports DEF StackSound
    <2> HIDE DEF imports
    <2>4. Fits(Top.deps, <<import>>, Tail(Top.names), imports)
      BY <1>1, <1>6, <2>2, <2>3, FitsOpens
    <2>5. Open(n)' = <<import>>
      <3>1. import = [lib |-> import.lib, ns |-> import.ns]
        BY <1>6 DEF Imported
      <3>2. Import(stack'[n + 1]) = import
        BY <1>10, <1>13, <3>1 DEF Import
      <3>3. n < Len(stack')
        BY <1>6, <1>13
      <3> QED
        BY <3>2, <3>3 DEF Open, Import
    <2>6. /\ stack'[n].deps = Top.deps /\ stack'[n].names = Tail(Top.names)
          /\ files'[stack'[n].lib].imports = imports
      BY <1>6, <1>9, <1>13, <1>17 DEF imports
    <2> QED
      BY <2>4, <2>5, <2>6 DEF FrameSound
  <1>20. FrameSound(n + 1)'
    <2>1. Open(n + 1)' = <<>>
      BY <1>6, <1>13 DEF Open
    <2>2. stack'[n + 1].deps = <<>> /\ stack'[n + 1].names = content.imports
          /\ files'[stack'[n + 1].lib].imports = content.imports
      BY <1>7, <1>10, <1>13
    <2>3. Fits(<<>>, <<>>, content.imports, content.imports)
      BY <1>7, FitsBegins
    <2> QED
      BY <2>1, <2>2, <2>3 DEF FrameSound
  <1>21. StackSound(G)'
    <2>1. stack' \in Seq(Frames(G)') /\ Len(stack') >= 1 /\ stack'[1].lib = Contract
      <3>1. 1 \in 1..n /\ n + 1 >= 1
        BY <1>6
      <3>2. stack[1].lib = Contract
        BY <1>5 DEF StackSound
      <3>3. Frames(G)' = Frames(G)
        BY DEF Frames
      <3> QED
        BY <1>13, <1>14, <3>1, <3>2, <3>3
    <2>2. \A i \in 2..(n + 1) : i \in 2..(n - 1) \/ (i = n /\ n \in 2..n) \/ i = n + 1
      BY <1>6
    <2>3. \A i \in 2..(n + 1) : FrameSound(i)'
      BY <1>18, <1>19, <1>20, <2>2
    <2>4. \A i \in 2..(n + 1) : stack'[i].lib \in DOMAIN files'
      <3> SUFFICES ASSUME NEW i \in 2..(n + 1)
                   PROVE  stack'[i].lib \in DOMAIN files'
        OBVIOUS
      <3>1. (i \in 2..n /\ i \in 1..n) \/ i = n + 1
        BY <1>6
      <3>2. CASE i \in 2..n /\ i \in 1..n
        BY <1>7, <1>14, <1>17, <3>2
      <3>3. CASE i = n + 1
        BY <1>7, <1>10, <1>13, <3>3
      <3> QED
        BY <3>1, <3>2, <3>3
    <2>5. \A i \in 1..n : stack'[i].lib # import.lib
      BY <1>1, <1>2, <1>14 DEF UnderWay
    <2>6. \A i, j \in 2..(n + 1) : stack'[i].lib = stack'[j].lib => i = j
      <3> SUFFICES ASSUME NEW i \in 2..(n + 1), NEW j \in 2..(n + 1), stack'[i].lib = stack'[j].lib
                   PROVE  i = j
        OBVIOUS
      <3>1. (i \in 1..n \/ i = n + 1) /\ (j \in 1..n \/ j = n + 1)
        BY <1>6
      <3>2. stack'[n + 1].lib = import.lib
        BY <1>10, <1>13
      <3>3. CASE i \in 1..n /\ j \in 1..n
        <4>1. i \in 2..n /\ j \in 2..n
          BY <1>6, <3>3
        <4>2. stack[i].lib = stack[j].lib
          BY <1>14, <3>3
        <4> QED
          BY <1>2, <1>5, <4>1, <4>2 DEF StackSound
      <3> QED
        BY <2>5, <3>1, <3>2, <3>3
    <2> QED
      BY <1>13, <2>1, <2>3, <2>4, <2>6 DEF StackSound
  <1>22. WalkSound'
    <2>1. Settled \subseteq Settled'
      BY <1>5, <1>7, SettledGrows DEF Kept
    <2>2. UnderWay' = UnderWay \cup {import.lib}
      <3>1. \A i \in 1..(n + 1) : i \in 1..n \/ i = n + 1
        BY <1>6
      <3>2. \A i \in 1..n : i \in 1..(n + 1)
        BY <1>6
      <3>3. n + 1 \in 1..(n + 1)
        BY <1>6
      <3> QED
        BY <1>2, <1>10, <1>13, <1>14, <3>1, <3>2, <3>3 DEF UnderWay
    <2>3. DOMAIN files' \subseteq Settled' \cup UnderWay'
      BY <1>5, <1>7, <2>1, <2>2 DEF WalkSound
    <2>4. \A i \in 1..(n + 1) : \A k \in 1..Len(stack'[i].deps) : stack'[i].deps[k].lib \in Settled'
      <3> SUFFICES ASSUME NEW i \in 1..(n + 1), NEW k \in 1..Len(stack'[i].deps)
                   PROVE  stack'[i].deps[k].lib \in Settled'
        OBVIOUS
      <3>1. i \in 1..n \/ i = n + 1
        BY <1>6
      <3>2. CASE i \in 1..n
        BY <1>2, <1>5, <1>14, <2>1, <3>2 DEF WalkSound
      <3>3. CASE i = n + 1
        BY <1>10, <1>13, <3>3
      <3> QED
        BY <3>1, <3>2, <3>3
    <2> QED
      BY <1>13, <2>3, <2>4 DEF WalkSound
  <1> QED
    BY <1>15, <1>16, <1>21, <1>22 DEF Sound

(* The innermost library is finished: all that it needs is settled.         *)
LEMMA TopSettles ==
    ASSUME ImportsAssumption, NEW G, Sound(G), outcome = "importing", Top.names = <<>>, Len(stack) >= 2
    PROVE  /\ Top.lib \in Settled /\ Top.lib \in DOMAIN files
           /\ Node(Top) \in TreeNodes(G) /\ Follows(Node(Top))
           /\ Node(Top).lib = Top.lib /\ Node(Top).ns = Top.ns
  <1>1. FilesTyped /\ StackSound(G) /\ WalkSound
    BY DEF Sound, FilesSound
  <1>2. Len(stack) \in 2..Len(stack) /\ Top = stack[Len(stack)] /\ Top \in Frames(G) /\ Top.deps \in Seq(G)
    BY <1>1, TopTyped
  <1>3. Top.lib \in DOMAIN files /\ FrameSound(Len(stack)) /\ Open(Len(stack)) = <<>>
    BY <1>1, <1>2 DEF StackSound, Open
  <1>4. \A l \in ImportsOf(Top.lib) : \E k \in 1..Len(Top.deps) : Top.deps[k].lib = l
    BY <1>1, <1>2, FrameImports
  <1>5. \A k \in 1..Len(Top.deps) : Top.deps[k].lib \in Settled
    BY <1>1, <1>2 DEF WalkSound
  <1>6. ImportsOf(Top.lib) \subseteq Settled
    BY <1>4, <1>5
  <1>7. Top.lib \in Settled
    BY <1>1, <1>3, <1>6, SettlesLast
  <1>8. Node(Top) \in TreeNodes(G) /\ Node(Top).lib = Top.lib /\ Node(Top).ns = Top.ns /\ Node(Top).deps = Top.deps
    BY <1>2 DEF Frames, TreeNodes, Node
  <1>9. Fits(Top.deps, <<>>, <<>>, files[Top.lib].imports)
    BY <1>2, <1>3 DEF FrameSound
  <1>10. Follows(Node(Top))
    BY <1>2, <1>8, <1>9, FitsEnds DEF Follows
  <1> QED
    BY <1>3, <1>7, <1>8, <1>10

LEMMA MoreNodes ==
    ASSUME NEW G, NEW H, G \subseteq H
    PROVE  TreeNodes(G) \subseteq TreeNodes(H) /\ Frames(G) \subseteq Frames(H) /\ Seq(Frames(G)) \subseteq Seq(Frames(H))
  <1>1. Seq(G) \subseteq Seq(H)
    OBVIOUS
  <1>2. Frames(G) \subseteq Frames(H)
    BY <1>1 DEF Frames
  <1> QED
    BY <1>1, <1>2 DEF TreeNodes

LEMMA PopStep ==
    ASSUME ImportsAssumption, NEW G, Sound(G), outcome = "importing", Top.names = <<>>, Len(stack) >= 2,
           NEW node, node = Node(Top),
           stack' = [Front(stack) EXCEPT ![Len(stack) - 1].deps = Append(@, Node(Top))],
           UNCHANGED <<files, outcome>>
    PROVE  Sound(G \cup {node})'
  <1>1. node = Node(Top)
    OBVIOUS
  <1>2. PICK H : H = G \cup {node}
    OBVIOUS
  <1>3. PICK m : m = Len(stack) - 1
    OBVIOUS
  <1>4. PICK changed : changed = [stack[m] EXCEPT !.deps = Append(@, node)]
    OBVIOUS
  <1>5. FilesTyped /\ StackSound(G) /\ WalkSound /\ FilesSound /\ NodesSound(G)
    BY DEF Sound, FilesSound
  <1>6. /\ Top.lib \in Settled /\ Top.lib \in DOMAIN files
        /\ node \in TreeNodes(G) /\ Follows(node) /\ node.lib = Top.lib /\ node.ns = Top.ns
    BY <1>1, TopSettles
  <1>7. G \subseteq H /\ node \in H
    BY <1>2
  <1>8. TreeNodes(G) \subseteq TreeNodes(H) /\ Frames(G) \subseteq Frames(H)
    BY <1>7, MoreNodes
  <1>9. NodesSound(H)'
    BY <1>2, <1>5, <1>6, <1>8 DEF NodesSound, Follows, TreeNodes
  <1>10. FilesSound'
    BY <1>5 DEF FilesSound, FilesTyped
  <1>11. /\ m \in Nat /\ m >= 1 /\ Len(stack) = m + 1 /\ Top = stack[m + 1]
         /\ stack \in Seq(Frames(G)) /\ stack \in Seq(Frames(H))
         /\ stack[m] \in Frames(G) /\ stack[m].deps \in Seq(G)
    <2>1. stack \in Seq(Frames(G)) /\ Len(stack) \in Nat /\ Top = stack[Len(stack)]
      BY <1>5, TopTyped DEF StackSound
    <2>2. m \in Nat /\ m >= 1 /\ Len(stack) = m + 1 /\ m \in 1..Len(stack)
      BY <1>3, <2>1
    <2>3. stack[m] \in Frames(G)
      BY <2>1, <2>2
    <2>4. stack[m].deps \in Seq(G)
      BY <2>3 DEF Frames
    <2> QED
      BY <1>7, <2>1, <2>2, <2>3, <2>4, MoreNodes
  <1>12. /\ changed \in Frames(H) /\ changed.lib = stack[m].lib /\ changed.ns = stack[m].ns
         /\ changed.names = stack[m].names /\ changed.deps = Append(stack[m].deps, node)
    <2>1. Append(stack[m].deps, node) \in Seq(H)
      BY <1>7, <1>11
    <2>2. stack[m] \in Frames(H)
      BY <1>8, <1>11
    <2> QED
      BY <1>4, <2>1, <2>2 DEF Frames
  <1>13. /\ stack' \in Seq(Frames(H)) /\ Len(stack') = m /\ stack'[m] = changed
         /\ \A i \in 1..(m - 1) : stack'[i] = stack[i]
    <2>1. PICK s : s = stack'
      OBVIOUS
    <2>2. PICK F : F = Frames(H)
      OBVIOUS
    <2>3. Front(stack)[m] = stack[m]
      BY <1>3, <1>11 DEF Front
    <2>. PICK t : t = Front(stack)
      OBVIOUS
    <2>4. t = Front(stack) /\ s = [t EXCEPT ![m] = changed]
      BY <1>1, <1>3, <1>4, <1>11, <2>1, <2>3
    <2>5. t \in Seq(F) /\ Len(t) = m /\ \A i \in 1..m : t[i] = stack[i]
      BY <1>11, <2>2, <2>4, FrontOf
    <2>6. m \in 1..Len(t) /\ changed \in F /\ \A i \in 1..(m - 1) : i \in 1..Len(t) /\ i # m /\ i \in 1..m
      BY <1>11, <1>12, <2>2, <2>5
    <2>7. /\ s \in Seq(F) /\ Len(s) = Len(t) /\ s[m] = changed
          /\ \A i \in 1..Len(t) : i # m => s[i] = t[i]
      BY <2>4, <2>5, <2>6, Changed
    <2> QED
      BY <2>1, <2>2, <2>5, <2>6, <2>7
  <1>14. \A i \in 1..m : /\ stack'[i].lib = stack[i].lib /\ stack'[i].ns = stack[i].ns
                         /\ stack'[i].names = stack[i].names
    <2>1. \A i \in 1..m : i \in 1..(m - 1) \/ i = m
      BY <1>11
    <2> QED
      BY <1>12, <1>13, <2>1
  <1>15. \A i \in 2..m : stack[i].lib \in DOMAIN files /\ FrameSound(i) /\ i \in 1..m
    BY <1>5, <1>11 DEF StackSound
  <1>16. \A i \in 2..(m - 1) : FrameSound(i)'
    <2> SUFFICES ASSUME NEW i \in 2..(m - 1)
                 PROVE  FrameSound(i)'
      OBVIOUS
    <2>1. i \in 2..m /\ i + 1 \in 1..m /\ i \in 1..(m - 1) /\ i < Len(stack) /\ i < Len(stack')
      BY <1>11, <1>13
    <2>2. Open(i)' = Open(i)
      BY <1>14, <2>1 DEF Open, Import
    <2>3. stack'[i] = stack[i]
      BY <1>13, <2>1
    <2> QED
      BY <1>15, <2>1, <2>2, <2>3 DEF FrameSound
  <1>17. m \in 2..m => FrameSound(m)'
    <2> SUFFICES ASSUME m \in 2..m
                 PROVE  FrameSound(m)'
      OBVIOUS
    <2> DEFINE imports == files[stack[m].lib].imports
    <2>1. FrameSound(m) /\ stack[m].lib \in DOMAIN files
      BY <1>15
    <2>2. Open(m) = <<Import(node)>>
      BY <1>6, <1>11 DEF Open, Import
    <2>3. Open(m)' = <<>>
      BY <1>11, <1>13 DEF Open
    <2>4. Fits(stack[m].deps, <<Import(node)>>, stack[m].names, imports)
      BY <2>1, <2>2 DEF FrameSound
    <2>5. imports \in Seq(Imported) /\ stack[m].names \in Seq(Imported)
      BY <1>5, <1>11, <2>1, FileImports DEF Frames
    <2>6. stack[m].deps \in Seq(H) /\ node \in H
      BY <1>7, <1>11
    <2> HIDE DEF imports
    <2>7. Fits(Append(stack[m].deps, node), <<>>, stack[m].names, imports)
      BY <2>4, <2>5, <2>6, FitsCloses
    <2>8. /\ stack'[m].deps = Append(stack[m].deps, node) /\ stack'[m].names = stack[m].names
          /\ files'[stack'[m].lib].imports = imports
      BY <1>12, <1>13 DEF imports
    <2> QED
      BY <2>3, <2>7, <2>8 DEF FrameSound
  <1>18. StackSound(H)'
    <2>1. stack' \in Seq(Frames(H)') /\ Len(stack') >= 1 /\ stack'[1].lib = Contract
      <3>1. 1 \in 1..m /\ Frames(H)' = Frames(H)
        BY <1>11 DEF Frames
      <3>2. stack[1].lib = Contract
        BY <1>5 DEF StackSound
      <3> QED
        BY <1>11, <1>13, <1>14, <3>1, <3>2
    <2>2. \A i \in 2..m : i \in 2..(m - 1) \/ (i = m /\ m \in 2..m)
      BY <1>11
    <2>3. \A i \in 2..m : FrameSound(i)' /\ stack'[i].lib \in DOMAIN files'
      BY <1>14, <1>15, <1>16, <1>17, <2>2
    <2>4. \A i, j \in 2..m : stack'[i].lib = stack'[j].lib => i = j
      <3>1. \A i \in 2..m : i \in 1..m /\ i \in 2..Len(stack)
        BY <1>11
      <3> QED
        BY <1>5, <1>14, <3>1 DEF StackSound
    <2> QED
      BY <1>13, <2>1, <2>3, <2>4 DEF StackSound
  <1>19. WalkSound'
    <2>1. Settled' = Settled
      BY DEF Settled, Agreed, Closed, Cyclic, Closure, ImportsOf
    <2>2. UnderWay \subseteq UnderWay' \cup {Top.lib}
      <3>1. \A i \in 1..Len(stack) : i \in 1..m \/ i = m + 1
        BY <1>11
      <3> QED
        BY <1>11, <1>13, <1>14, <3>1 DEF UnderWay
    <2>3. DOMAIN files' \subseteq Settled' \cup UnderWay'
      BY <1>5, <1>6, <2>1, <2>2 DEF WalkSound
    <2>4. \A i \in 1..m : \A k \in 1..Len(stack'[i].deps) : stack'[i].deps[k].lib \in Settled'
      <3> SUFFICES ASSUME NEW i \in 1..m, NEW k \in 1..Len(stack'[i].deps)
                   PROVE  stack'[i].deps[k].lib \in Settled'
        OBVIOUS
      <3>1. i \in 1..(m - 1) \/ i = m
        BY <1>11
      <3>2. \A j \in 1..m : \A l \in 1..Len(stack[j].deps) : stack[j].deps[l].lib \in Settled
        <4>1. \A j \in 1..m : j \in 1..Len(stack)
          BY <1>11
        <4> QED
          BY <1>5, <4>1 DEF WalkSound
      <3>3. CASE i \in 1..(m - 1)
        <4>1. stack'[i] = stack[i]
          BY <1>13, <3>3
        <4>2. k \in 1..Len(stack[i].deps)
          BY <4>1
        <4>3. stack[i].deps[k].lib \in Settled
          BY <3>2, <4>2
        <4>4. stack'[i].deps[k].lib = stack[i].deps[k].lib
          BY <4>1
        <4>5. Settled \subseteq Settled'
          BY <2>1
        <4> QED
          BY ONLY <4>3, <4>4, <4>5
      <3>4. CASE i = m
        <4>1. stack'[i].deps = Append(stack[m].deps, node)
          BY <1>12, <1>13, <3>4
        <4>2. k \in 1..Len(stack[m].deps) \/ k = Len(stack[m].deps) + 1
          <5>1. Len(Append(stack[m].deps, node)) = Len(stack[m].deps) + 1 /\ Len(stack[m].deps) \in Nat
            BY <1>11
          <5>2. k \in 1..(Len(stack[m].deps) + 1)
            BY <4>1, <5>1
          <5> QED
            BY <5>1, <5>2
        <4>0. Settled \subseteq Settled'
          BY <2>1
        <4>3. CASE k \in 1..Len(stack[m].deps)
          <5>1. stack'[i].deps[k] = stack[m].deps[k]
            BY <1>11, <4>1, <4>3
          <5>2. m \in 1..m
            BY <1>11
          <5>3. stack[m].deps[k].lib \in Settled
            BY <3>2, <4>3, <5>2
          <5> QED
            BY <4>0, <5>1, <5>3
        <4>4. CASE k = Len(stack[m].deps) + 1
          <5>1. PICK ds : ds = stack[m].deps
            OBVIOUS
          <5>2. Append(ds, node)[Len(ds) + 1] = node
            BY <1>11, <5>1
          <5>3. stack'[i].deps[k] = node
            BY <4>1, <4>4, <5>1, <5>2
          <5> QED
            BY <1>6, <4>0, <5>3
        <4> QED
          BY <4>2, <4>3, <4>4
      <3> QED
        BY <3>1, <3>3, <3>4
    <2> QED
      BY <1>13, <2>3, <2>4 DEF WalkSound
  <1>20. Sound(H)'
    BY <1>9, <1>10, <1>18, <1>19 DEF Sound
  <1> QED
    BY <1>2, <1>20

-----------------------------------------------------------------------------
(* The walk over the tree of libraries: every call is for a finished node.  *)

Bases == {LibraryName(lib) : lib \in Libs \cup {Contract}}
Ids == [ns : Seq(STRING), sort : {"function", "type", "constructor"}, base : Bases]
EnvEntries == [id : Ids, ns : Seq(STRING)]
CalledNames == [function : Ids, type : Ids, constructor : Ids]
Calls(G) == [node : TreeNodes(G), outer : Seq(STRING), todo : Seq(G), deps : Seq(CalledNames),
             env : Seq(EnvEntries)]

CallsSound(G) ==
    /\ renaming \in Seq(Calls(G))
    /\ renaming # <<>> => outcome = "ok"
    /\ \A j \in 2..Len(renaming) : renaming[j].node \in G

LEMMA InTyped ==
    ASSUME NEW ns \in Seq(STRING), NEW id \in Ids
    PROVE  /\ In(ns, id) \in Ids /\ In(ns, id).ns = ns \o id.ns
           /\ In(ns, id).sort = id.sort /\ In(ns, id).base = id.base
  <1>1. id.ns \in Seq(STRING)
    BY DEF Ids
  <1>2. ns \o id.ns \in Seq(STRING)
    BY <1>1, ConcatProperties
  <1>3. In(ns, id) = [id EXCEPT !.ns = ns \o id.ns]
    BY DEF In
  <1> QED
    BY <1>2, <1>3 DEF Ids

LEMMA NamesTyped ==
    ASSUME NEW lib \in Libs \cup {Contract}
    PROVE  Function(lib) \in Ids /\ Type(lib) \in Ids /\ Constructor(lib) \in Ids
  <1>1. LibraryName(lib) \in Bases /\ <<>> \in Seq(STRING)
    BY DEF Bases
  <1> QED
    BY <1>1 DEF Function, Type, Constructor, Name, Ids

LEMMA FoundFirst ==
    ASSUME NEW env \in Seq(EnvEntries), NEW id
    PROVE  LET found == {i \in 1..Len(env) : env[i].id = id}
           IN  found # {} => Min(found) \in found
  <1> DEFINE found == {i \in 1..Len(env) : env[i].id = id}
  <1>1. found \in SUBSET Nat
    OBVIOUS
  <1> HIDE DEF found
  <1>2. ASSUME found # {}
        PROVE  Min(found) \in found
    <2>1. PICK m \in found : \A k \in found : m <= k
      BY <1>1, <1>2, LeastNumber
    <2> QED
      BY <2>1 DEF Min
  <1> QED
    BY <1>2 DEF found

LEMMA PrefixedTyped ==
    ASSUME NEW env \in Seq(EnvEntries), NEW id \in Ids
    PROVE  Prefixed(env, id) \in Ids
  <1> DEFINE found == {i \in 1..Len(env) : env[i].id = id}
  <1>1. CASE found = {}
    BY <1>1 DEF Prefixed
  <1>2. CASE found # {}
    <2>1. Min(found) \in found
      BY <1>2, FoundFirst
    <2>2. env[Min(found)] \in EnvEntries
      BY <2>1
    <2>3. env[Min(found)].ns \in Seq(STRING)
      BY <2>2 DEF EnvEntries
    <2> QED
      BY <1>2, <2>3, InTyped DEF Prefixed
  <1> QED
    BY <1>1, <1>2

LEMMA RenamedTyped ==
    ASSUME NEW env \in Seq(EnvEntries), NEW lib \in Libs \cup {Contract}, NEW ns \in Seq(STRING)
    PROVE  /\ RenameInLibrary(env, lib, ns).env \in Seq(EnvEntries)
           /\ RenameInLibrary(env, lib, ns).called \in CalledNames
           /\ RenameInLibrary(env, lib, ns).names \in Seq(Ids)
  <1> DEFINE own == <<[id |-> Constructor(lib), ns |-> ns], [id |-> Type(lib), ns |-> ns]>>
             envT == own \o env
             envF == <<[id |-> Function(lib), ns |-> ns]>> \o envT
  <1>1. Function(lib) \in Ids /\ Type(lib) \in Ids /\ Constructor(lib) \in Ids
    BY NamesTyped
  <1>2. \A id \in Ids : [id |-> id, ns |-> ns] \in EnvEntries
    BY DEF EnvEntries
  <1>3. own \in Seq(EnvEntries) /\ <<[id |-> Function(lib), ns |-> ns]>> \in Seq(EnvEntries)
    BY <1>1, <1>2
  <1>4. envT \in Seq(EnvEntries) /\ envF \in Seq(EnvEntries)
    BY <1>3, ConcatProperties
  <1>5. /\ Prefixed(envF, Function(lib)) \in Ids /\ Prefixed(envT, Type(lib)) \in Ids
        /\ Prefixed(envT, Constructor(lib)) \in Ids
    BY <1>1, <1>4, PrefixedTyped
  <1>6. <<Type(lib), Prefixed(envT, Constructor(lib)), Function(lib)>> \in Seq(Ids)
    BY <1>1, <1>5
  <1>7. [function |-> Prefixed(envF, Function(lib)), type |-> Prefixed(envT, Type(lib)),
         constructor |-> Prefixed(envT, Constructor(lib))] \in CalledNames
    BY <1>5 DEF CalledNames
  <1> QED
    BY <1>4, <1>6, <1>7 DEF RenameInLibrary

LEMMA EntriesTyped ==
    ASSUME NEW names \in Seq(Ids), NEW ns \in Seq(STRING), NEW outer \in Seq(STRING)
    PROVE  /\ Entries(names, ns, outer) \in Seq(EnvEntries) /\ Len(Entries(names, ns, outer)) = Len(names)
           /\ \A i \in 1..Len(names) : Entries(names, ns, outer)[i] = [id |-> In(ns, names[i]), ns |-> outer]
  <1>1. \A i \in 1..Len(names) : In(ns, names[i]) \in Ids
    BY InTyped
  <1>2. \A i \in 1..Len(names) : [id |-> In(ns, names[i]), ns |-> outer] \in EnvEntries
    BY <1>1 DEF EnvEntries
  <1> QED
    BY <1>2, IsASeq DEF Entries

LEMMA RenameCallTyped ==
    ASSUME NEW G, NEW node \in TreeNodes(G), NEW outer \in Seq(STRING)
    PROVE  RenameCall(node, outer) \in Calls(G)
  BY DEF RenameCall, Calls, TreeNodes

LEMMA MoreCalls ==
    ASSUME NEW G, NEW H, G \subseteq H
    PROVE  Seq(Calls(G)) \subseteq Seq(Calls(H))
  <1>1. Seq(G) \subseteq Seq(H) /\ TreeNodes(G) \subseteq TreeNodes(H)
    BY MoreNodes
  <1>2. Calls(G) \subseteq Calls(H)
    BY <1>1 DEF Calls
  <1> QED
    BY <1>2

LEMMA InnerTyped ==
    ASSUME NEW G, CallsSound(G), G \subseteq TreeNodes(G), renaming # <<>>
    PROVE  /\ Len(renaming) \in Nat \ {0} /\ Inner = renaming[Len(renaming)] /\ Inner \in Calls(G)
           /\ Inner.node \in TreeNodes(G) /\ Full(Inner) \in Seq(STRING) /\ Inner.outer \in Seq(STRING)
           /\ Inner.env \in Seq(EnvEntries) /\ Inner.node.ns \in Seq(STRING)
           /\ Inner.node.lib \in Libs \cup {Contract}
           /\ Inner.todo # <<>> => /\ Head(Inner.todo) \in G /\ Head(Inner.todo) \in TreeNodes(G)
                                   /\ Tail(Inner.todo) \in Seq(G)
  <1>1. Len(renaming) \in Nat \ {0} /\ Inner = renaming[Len(renaming)] /\ Inner \in Calls(G)
    BY DEF CallsSound, Inner, Last
  <1>2. /\ Inner.node \in TreeNodes(G) /\ Inner.outer \in Seq(STRING)
        /\ Inner.env \in Seq(EnvEntries) /\ Inner.todo \in Seq(G)
    BY <1>1 DEF Calls
  <1>3. Inner.node.ns \in Seq(STRING) /\ Inner.node.lib \in Libs \cup {Contract}
    BY <1>2 DEF TreeNodes
  <1>4. Full(Inner) \in Seq(STRING)
    BY <1>2, <1>3, ConcatProperties DEF Full
  <1> QED
    BY <1>1, <1>2, <1>3, <1>4

(* What RenameDep and RenameDone make of the calls. *)
LEMMA DepCalls ==
    ASSUME NEW G, CallsSound(G), G \subseteq TreeNodes(G), RenameDep
    PROVE  /\ CallsSound(G)'
           /\ Len(renaming') = Len(renaming) + 1
           /\ renaming'[Len(renaming)] = [Inner EXCEPT !.todo = Tail(@)]
           /\ renaming'[Len(renaming) + 1] = RenameCall(Head(Inner.todo), Full(Inner))
           /\ \A j \in 1..(Len(renaming) - 1) : renaming'[j] = renaming[j]
  <1>1. /\ renaming # <<>> /\ Inner.todo # <<>> /\ outcome' = outcome
        /\ renaming' = Append([renaming EXCEPT ![Len(renaming)].todo = Tail(@)],
                              RenameCall(Head(Inner.todo), Full(Inner)))
    BY DEF RenameDep
  <1>2. PICK s, F, n, changed, pushed : /\ s = renaming' /\ F = Calls(G) /\ n = Len(renaming)
                                        /\ changed = [Inner EXCEPT !.todo = Tail(@)]
                                        /\ pushed = RenameCall(Head(Inner.todo), Full(Inner))
    OBVIOUS
  <1>3. /\ n \in Nat \ {0} /\ Inner = renaming[n] /\ Inner \in F /\ Full(Inner) \in Seq(STRING)
        /\ Head(Inner.todo) \in G /\ Head(Inner.todo) \in TreeNodes(G) /\ Tail(Inner.todo) \in Seq(G)
    BY <1>1, <1>2, InnerTyped
  <1>4. changed \in F /\ changed.node = Inner.node
    BY <1>2, <1>3 DEF Calls
  <1>5. pushed \in F /\ pushed.node = Head(Inner.todo)
    BY <1>2, <1>3, RenameCallTyped DEF RenameCall
  <1>6. renaming \in Seq(F) /\ Len(renaming) >= 1 /\ s = Append([renaming EXCEPT ![Len(renaming)] = changed], pushed)
    BY <1>1, <1>2, <1>3 DEF CallsSound
  <1>7. /\ s \in Seq(F) /\ Len(s) = Len(renaming) + 1
        /\ s[Len(renaming)] = changed /\ s[Len(renaming) + 1] = pushed
        /\ \A j \in 1..(Len(renaming) - 1) : s[j] = renaming[j]
    BY ONLY <1>4, <1>5, <1>6, Pushed
  <1>8. \A j \in 2..(n + 1) : s[j].node \in G
    <2> SUFFICES ASSUME NEW j \in 2..(n + 1)
                 PROVE  s[j].node \in G
      OBVIOUS
    <2>1. j \in 1..(n - 1) \/ j = n \/ j = n + 1
      BY <1>3
    <2>2. CASE j = n + 1
      BY <1>2, <1>3, <1>5, <1>7, <2>2
    <2>3. CASE j = n
      <3>1. j \in 2..Len(renaming) /\ Inner.node \in G
        BY <1>2, <1>3, <2>3 DEF CallsSound
      <3> QED
        BY <1>2, <1>4, <1>7, <2>3, <3>1
    <2>4. CASE j \in 1..(n - 1)
      <3>1. j \in 2..Len(renaming)
        BY <1>2, <1>3, <2>4
      <3> QED
        BY <1>2, <1>7, <2>4, <3>1 DEF CallsSound
    <2> QED
      BY <2>1, <2>2, <2>3, <2>4
  <1>9. CallsSound(G)'
    <2>1. Calls(G)' = Calls(G) /\ outcome' = "ok"
      BY <1>1 DEF CallsSound, Calls, TreeNodes, CalledNames, EnvEntries, Ids, Bases
    <2> QED
      BY <1>2, <1>7, <1>8, <2>1 DEF CallsSound
  <1> QED
    BY <1>2, <1>7, <1>9

LEMMA DoneCalls ==
    ASSUME ImportsAssumption, NEW G, CallsSound(G), G \subseteq TreeNodes(G), RenameDone, Len(renaming) # 1,
           NEW m, m = Len(renaming) - 1, NEW renamed,
           renamed = RenameInLibrary(Inner.env, Inner.node.lib, Full(Inner))
    PROVE  /\ CallsSound(G)'
           /\ m \in Nat /\ m >= 1 /\ Len(renaming) = m + 1 /\ Len(renaming') = m
           /\ renaming'[m] = Told(renaming[m], renamed.called,
                                  Entries(renamed.names, Inner.node.ns, Inner.outer))
           /\ \A j \in 1..(m - 1) : renaming'[j] = renaming[j]
  <1>1. /\ renaming # <<>> /\ outcome' = outcome
        /\ renaming' = [Front(renaming) EXCEPT ![m] =
               Told(@, renamed.called, Entries(renamed.names, Inner.node.ns, Inner.outer))]
    BY DEF RenameDone
  <1>2. /\ m \in Nat /\ m >= 1 /\ Len(renaming) = m + 1
        /\ Inner.env \in Seq(EnvEntries) /\ Inner.node.ns \in Seq(STRING) /\ Inner.outer \in Seq(STRING)
        /\ Inner.node.lib \in Libs \cup {Contract} /\ Full(Inner) \in Seq(STRING)
    <2>1. /\ Len(renaming) \in Nat \ {0}
          /\ Inner.env \in Seq(EnvEntries) /\ Inner.node.ns \in Seq(STRING) /\ Inner.outer \in Seq(STRING)
          /\ Inner.node.lib \in Libs \cup {Contract} /\ Full(Inner) \in Seq(STRING)
      BY <1>1, InnerTyped
    <2>2. Len(renaming) \in Nat \ {0}
      BY <2>1
    <2>3. m \in Nat /\ m >= 1 /\ Len(renaming) = m + 1
      BY <2>2
    <2> QED
      BY <2>1, <2>3
  <1>3. renamed.called \in CalledNames /\ renamed.names \in Seq(Ids)
    BY <1>2, RenamedTyped
  <1>4. PICK entries \in Seq(EnvEntries) : entries = Entries(renamed.names, Inner.node.ns, Inner.outer)
    BY <1>2, <1>3, EntriesTyped
  <1>5. PICK s, F, t, call, changed :
            /\ s = renaming' /\ F = Calls(G) /\ t = Front(renaming) /\ call = renaming[m]
            /\ changed = Told(call, renamed.called, entries)
    OBVIOUS
  <1>6. renaming \in Seq(F) /\ m \in 1..Len(renaming) /\ call \in F
    BY <1>2, <1>5 DEF CallsSound
  <1>7. changed \in F /\ changed.node = call.node
    <2>1. call.deps \in Seq(CalledNames) /\ call.env \in Seq(EnvEntries)
      BY <1>5, <1>6 DEF Calls
    <2>2. Append(call.deps, renamed.called) \in Seq(CalledNames) /\ call.env \o entries \in Seq(EnvEntries)
      BY <1>3, <2>1, ConcatProperties
    <2> QED
      BY <1>5, <1>6, <2>2 DEF Calls, Told
  <1>8. t \in Seq(F) /\ Len(t) = m /\ \A i \in 1..m : t[i] = renaming[i]
    <2>1. t = Front(renaming)
      BY <1>5
    <2> QED
      BY ONLY <1>2, <1>6, <2>1, FrontOf
  <1>9. m \in 1..Len(t) /\ t[m] = call /\ \A i \in 1..(m - 1) : i \in 1..Len(t) /\ i # m /\ i \in 1..m
    BY <1>2, <1>5, <1>8
  <1>10. s = [t EXCEPT ![m] = changed]
    <2>1. /\ t = Front(renaming) /\ s = renaming' /\ entries = Entries(renamed.names, Inner.node.ns, Inner.outer)
          /\ renaming' = [Front(renaming) EXCEPT ![m] =
                 Told(@, renamed.called, Entries(renamed.names, Inner.node.ns, Inner.outer))]
      BY ONLY <1>1, <1>4, <1>5
    <2>2. s = [t EXCEPT ![m] = Told(@, renamed.called, entries)]
      BY ONLY <2>1
    <2>3. changed = Told(t[m], renamed.called, entries)
      BY <1>5, <1>9
    <2> QED
      BY ONLY <2>2, <2>3
  <1>11. /\ s \in Seq(F) /\ Len(s) = Len(t) /\ s[m] = changed
         /\ \A i \in 1..Len(t) : i # m => s[i] = t[i]
    BY <1>7, <1>8, <1>9, <1>10, Changed
  <1>12. \A j \in 1..(m - 1) : s[j] = renaming[j]
    BY <1>8, <1>9, <1>11
  <1>13. \A j \in 2..m : s[j].node \in G
    <2> SUFFICES ASSUME NEW j \in 2..m
                 PROVE  s[j].node \in G
      OBVIOUS
    <2>1. j \in 2..(m + 1) /\ (j = m \/ j \in 1..(m - 1))
      BY <1>2
    <2>2. renaming[j].node \in G
      BY <1>2, <2>1 DEF CallsSound
    <2>3. CASE j = m
      BY <1>5, <1>7, <1>11, <2>2, <2>3
    <2>4. CASE j \in 1..(m - 1)
      BY <1>12, <2>2, <2>4
    <2> QED
      BY <2>1, <2>3, <2>4
  <1>14. CallsSound(G)'
    <2>1. Calls(G)' = Calls(G) /\ outcome' = "ok"
      BY <1>1 DEF CallsSound, Calls, TreeNodes, CalledNames, EnvEntries, Ids, Bases
    <2> QED
      BY <1>5, <1>8, <1>11, <1>13, <2>1 DEF CallsSound
  <1> QED
    BY <1>2, <1>4, <1>5, <1>8, <1>11, <1>12, <1>14

-----------------------------------------------------------------------------
(* The invariant of the walks. *)

ImportInv == \E G : Sound(G) /\ CallsSound(G)

LEMMA ImportInitInv ==
    ASSUME ImportsAssumption, ImportInit
    PROVE  ImportInv
  <1>1. PICK names \in ImportLists(MaxOwnImports) : stack = <<Frame(Contract, <<>>, names)>>
    BY DEF ImportInit
  <1>2. names \in Seq(Imported)
    BY <1>1 DEF ImportLists
  <1>3. Frame(Contract, <<>>, names) \in Frames({})
    BY <1>2 DEF Frame, Frames
  <1>4. /\ stack \in Seq(Frames({})) /\ Len(stack) = 1 /\ stack[1] = Frame(Contract, <<>>, names)
        /\ stack[1].lib = Contract /\ stack[1].deps = <<>>
    BY <1>1, <1>3 DEF Frame
  <1>5. /\ DOMAIN files = {} /\ files = [f \in {} |-> <<>>] /\ outcome = "importing" /\ renaming = <<>>
    BY DEF ImportInit
  <1>6. FilesSound
    BY <1>5 DEF FilesSound, FilesTyped
  <1>7. StackSound({})
    BY <1>4 DEF StackSound
  <1>8. WalkSound
    BY <1>4, <1>5 DEF WalkSound
  <1>9. NodesSound({})
    BY DEF NodesSound
  <1>10. CallsSound({})
    BY <1>5 DEF CallsSound
  <1> QED
    BY <1>6, <1>7, <1>8, <1>9, <1>10 DEF Sound, ImportInv

LEMMA ImportNextInv ==
    ASSUME ImportsAssumption, ImportInv, ImportNext
    PROVE  ImportInv'
  <1>1. PICK G : Sound(G) /\ CallsSound(G)
    BY DEF ImportInv
  <1>2. outcome = "importing" /\ Top.names # <<>> /\ renaming' = renaming
    BY DEF ImportNext
  <1>3. renaming = <<>>
    BY <1>1, <1>2 DEF CallsSound
  <1>4. CallsSound(G)'
    BY <1>2, <1>3 DEF CallsSound
  <1>5. Sound(G)'
    <2>1. CASE Head(Top.names).lib \in UnderWay
      BY <1>1, <1>2, <2>1, CycleStep DEF ImportNext
    <2>2. CASE Head(Top.names).lib \notin UnderWay
      <3>1. PICK content \in Contents \cup Range(files) :
              /\ Read(Head(Top.names).lib, content)
              /\ IF content = Missing THEN outcome' = "missing" /\ UNCHANGED stack
                 ELSE /\ stack' = Append([stack EXCEPT ![Len(stack)].names = Tail(@)],
                                         Frame(Head(Top.names).lib, Head(Top.names).ns, content.imports))
                      /\ UNCHANGED outcome
        BY <2>2 DEF ImportNext
      <3>2. CASE content = Missing
        BY <1>1, <1>2, <2>2, <3>1, <3>2, MissingStep
      <3>3. CASE content # Missing
        <4>1. /\ Read(Head(Top.names).lib, content) /\ outcome' = outcome
              /\ stack' = Append([stack EXCEPT ![Len(stack)].names = Tail(@)],
                                 Frame(Head(Top.names).lib, Head(Top.names).ns, content.imports))
          BY <3>1, <3>3
        <4> QED
          BY ONLY <1>1, <1>2, <2>2, <3>3, <4>1, ImportsAssumption, content \in Contents \cup Range(files), PushStep
      <3> QED
        BY <3>2, <3>3
    <2> QED
      BY <2>1, <2>2
  <1> QED
    BY <1>4, <1>5 DEF ImportInv

LEMMA ImportDoneInv ==
    ASSUME ImportsAssumption, ImportInv, ImportDone
    PROVE  ImportInv'
  <1>1. PICK G : Sound(G) /\ CallsSound(G)
    BY DEF ImportInv
  <1>2. outcome = "importing" /\ Top.names = <<>> /\ files' = files
    BY DEF ImportDone
  <1>3. renaming = <<>>
    BY <1>1, <1>2 DEF CallsSound
  <1>4. StackSound(G) /\ FilesTyped /\ FilesSound /\ NodesSound(G) /\ WalkSound
    BY <1>1 DEF Sound, FilesSound
  <1>5. /\ Len(stack) \in Nat \ {0} /\ Top \in Frames(G) /\ stack \in Seq(Frames(G))
    BY <1>4, TopTyped DEF StackSound
  <1>6. CASE Len(stack) = 1
    <2>1. outcome' = "ok" /\ stack' = stack /\ renaming' = <<RenameCall(Node(Top), <<>>)>>
      BY <1>6 DEF ImportDone
    <2>2. Node(Top) \in TreeNodes(G)
      BY <1>5 DEF Node, Frames, TreeNodes
    <2>3. RenameCall(Node(Top), <<>>) \in Calls(G)
      <3>1. PICK node : node = Node(Top)
        OBVIOUS
      <3>2. node \in TreeNodes(G) /\ <<>> \in Seq(STRING)
        BY <2>2, <3>1
      <3> QED
        BY ONLY <3>1, <3>2, RenameCallTyped
    <2>4. CallsSound(G)'
      <3>1. PICK call \in Calls(G) : renaming' = <<call>>
        BY <2>1, <2>3
      <3>2. renaming' \in Seq(Calls(G)) /\ Len(renaming') = 1
        BY <3>1
      <3>3. Calls(G)' = Calls(G)
        BY DEF Calls, TreeNodes, CalledNames, EnvEntries, Ids, Bases
      <3> QED
        BY <2>1, <3>2, <3>3 DEF CallsSound
    <2>5. FilesSound'
      BY <1>2, <1>4 DEF FilesSound, FilesTyped
    <2>6. NodesSound(G)'
      BY <1>2, <1>4 DEF NodesSound, Follows, TreeNodes, Import
    <2>7. StackSound(G)'
      BY <1>2, <1>4, <2>1 DEF StackSound, FrameSound, Open, Import, Frames
    <2>8. Settled' = Settled /\ UnderWay' = UnderWay
      BY <1>2, <2>1 DEF Settled, Agreed, Closed, Cyclic, Closure, ImportsOf, UnderWay
    <2>9. WalkSound'
      BY <1>2, <1>4, <1>6, <2>1, <2>8 DEF WalkSound
    <2> QED
      BY <2>4, <2>5, <2>6, <2>7, <2>9 DEF ImportInv, Sound
  <1>7. CASE Len(stack) # 1
    <2>1. /\ stack' = [Front(stack) EXCEPT ![Len(stack) - 1].deps = Append(@, Node(Top))]
          /\ outcome' = outcome /\ renaming' = renaming
      BY <1>7 DEF ImportDone
    <2>2. Len(stack) >= 2
      <3>1. PICK n : n = Len(stack)
        OBVIOUS
      <3>2. n \in Nat /\ n # 0 /\ n # 1
        BY <1>5, <1>7, <3>1
      <3> QED
        BY ONLY <3>1, <3>2
    <2>3. PICK node : node = Node(Top)
      OBVIOUS
    <2>4. Sound(G \cup {node})'
      BY ONLY <1>1, <1>2, <2>1, <2>2, <2>3, ImportsAssumption, PopStep
    <2>5. CallsSound(G \cup {node})'
      BY <1>2, <1>3, <2>1 DEF CallsSound
    <2> QED
      BY <2>4, <2>5 DEF ImportInv
  <1> QED
    BY <1>6, <1>7

(* Renaming touches neither the files nor the imports. *)
LEMMA SoundKept ==
    ASSUME NEW G, Sound(G), UNCHANGED <<files, stack, outcome>>
    PROVE  Sound(G)'
  <1>1. FilesSound'
    BY DEF Sound, FilesSound, FilesTyped
  <1>2. NodesSound(G)'
    BY DEF Sound, NodesSound, Follows, TreeNodes, Import
  <1>3. StackSound(G)'
    BY DEF Sound, StackSound, FrameSound, Open, Import, Frames
  <1>4. Settled' = Settled /\ UnderWay' = UnderWay /\ \A lib : Cyclic(lib)' = Cyclic(lib)
    BY DEF Settled, Agreed, Closed, Cyclic, Closure, ImportsOf, UnderWay
  <1>5. WalkSound'
    BY <1>4 DEF Sound, WalkSound, Top
  <1> QED
    BY <1>1, <1>2, <1>3, <1>5 DEF Sound

LEMMA EliminateInv ==
    ASSUME ImportsAssumption, ImportInv, EliminateNamespaces
    PROVE  ImportInv'
  <1>1. PICK G : Sound(G) /\ CallsSound(G)
    BY DEF ImportInv
  <1>2. Sound(G)'
    BY <1>1, SoundKept DEF EliminateNamespaces, RenameDep, RenameDone
  <1>3. G \subseteq TreeNodes(G)
    BY <1>1 DEF Sound, NodesSound
  <1>4. CallsSound(G)'
    <2>1. CASE RenameDep
      BY <1>1, <1>3, <2>1, DepCalls
    <2>2. CASE RenameDone /\ Len(renaming) = 1
      <3>1. renaming' = <<>>
        BY <2>2 DEF RenameDone
      <3> QED
        BY <3>1 DEF CallsSound
    <2>3. CASE RenameDone /\ Len(renaming) # 1
      <3>1. PICK m, renamed : /\ m = Len(renaming) - 1
                              /\ renamed = RenameInLibrary(Inner.env, Inner.node.lib, Full(Inner))
        OBVIOUS
      <3> QED
        BY <1>1, <1>3, <2>3, <3>1, DoneCalls
    <2> QED
      BY <2>1, <2>2, <2>3 DEF EliminateNamespaces
  <1> QED
    BY <1>2, <1>4 DEF ImportInv

LEMMA ImportInvInductive ==
    ASSUME ImportsAssumption
    PROVE  ImportInv /\ [ImportLibs \/ EliminateNamespaces]_importVars => ImportInv'
  <1> SUFFICES ASSUME ImportInv, [ImportLibs \/ EliminateNamespaces]_importVars
               PROVE  ImportInv'
    OBVIOUS
  <1>1. CASE ImportLibs
    BY <1>1, ImportNextInv, ImportDoneInv DEF ImportLibs
  <1>2. CASE EliminateNamespaces
    BY <1>2, EliminateInv
  <1>3. CASE UNCHANGED importVars
    <2>1. PICK G : Sound(G) /\ CallsSound(G)
      BY DEF ImportInv
    <2>2. Sound(G)'
      BY <1>3, <2>1, SoundKept DEF importVars
    <2>3. CallsSound(G)'
      BY <1>3, <2>1 DEF importVars, CallsSound, Calls, TreeNodes, CalledNames, EnvEntries, Ids, Bases
    <2> QED
      BY <2>2, <2>3 DEF ImportInv
  <1> QED
    BY <1>1, <1>2, <1>3

LEMMA ImportInvHolds ==
    ImportSpec => []ImportInv
  <1>1. ImportInit => ImportInv
    BY ImportsAssumption, ImportInitInv
  <1>2. ImportInv /\ [ImportLibs \/ EliminateNamespaces]_importVars => ImportInv'
    BY ImportsAssumption, ImportInvInductive
  <1> QED
    BY <1>1, <1>2, PTL DEF ImportSpec

(* The stack is no deeper than there are libraries, and the contract.       *)
LEMMA StackBounded ==
    ASSUME ImportsAssumption, FilesTyped, NEW G, StackSound(G)
    PROVE  Len(stack) <= Cardinality(Libs) + 1
  <1> DEFINE lib == [i \in 2..Len(stack) |-> stack[i].lib]
  <1>1. Len(stack) \in Nat /\ Len(stack) >= 1
    BY DEF StackSound
  <1>2. \A i \in 2..Len(stack) : stack[i].lib \in Libs
    BY DEF StackSound, FilesTyped
  <1>3. lib \in Injection(2..Len(stack), Libs)
    <2>1. lib \in [2..Len(stack) -> Libs]
      BY <1>2
    <2>2. \A i, j \in 2..Len(stack) : stack[i].lib = stack[j].lib => i = j
      BY DEF StackSound
    <2>3. IsInjective(lib)
      BY <2>2 DEF IsInjective
    <2> QED
      BY <2>1, <2>3 DEF Injection
  <1>4. IsFiniteSet(Libs)
    BY DEF ImportsAssumption
  <1> HIDE DEF lib
  <1>5. Cardinality(2..Len(stack)) <= Cardinality(Libs)
    BY <1>3, <1>4, FS_Injection
  <1>6. Cardinality(2..Len(stack)) = Len(stack) - 1
    BY <1>1, FS_Interval
  <1>7. Cardinality(Libs) \in Nat
    BY <1>4, FS_CardinalityType
  <1> QED
    BY <1>1, <1>5, <1>6, <1>7

LEMMA ImportInvExact ==
    ASSUME ImportsAssumption, ImportInv
    PROVE  ImportsExact
  <1>1. PICK G : Sound(G) /\ CallsSound(G)
    BY DEF ImportInv
  <1>2. FilesTyped /\ FilesSound /\ NodesSound(G) /\ StackSound(G) /\ WalkSound
    BY <1>1 DEF Sound, FilesSound
  <1>3. Len(stack) <= Cardinality(Libs) + 1
    BY <1>2, StackBounded
  <1>4. outcome = "importing" => \A f \in DOMAIN files : files[f] # Missing
    BY <1>2 DEF FilesSound
  <1>5. outcome = "cycle" => Cyclic(Head(Top.names).lib)
    BY <1>2 DEF WalkSound
  <1>6. ASSUME outcome = "ok", NEW f \in DOMAIN files
        PROVE  ~Cyclic(f) /\ files[f] # Missing
    <2>1. UnderWay = {Contract}
      <3>1. Len(stack) = 1 /\ stack[1].lib = Contract
        BY <1>2, <1>6 DEF WalkSound, StackSound
      <3>2. \A i : i \in 1..Len(stack) <=> i = 1
        BY <3>1
      <3> QED
        BY <3>1, <3>2 DEF UnderWay
    <2>2. f \in Settled
      BY <1>2, <1>6, <2>1 DEF WalkSound, FilesTyped, ImportsAssumption
    <2>3. ~Cyclic(f)
      BY <1>2, <2>2, SettledAgreed DEF Agreed
    <2> QED
      BY <1>2, <1>6, <2>3 DEF FilesSound
  <1>7. ASSUME NEW n \in 2..Len(renaming)
        PROVE  LET node == renaming[n].node IN
                 [i \in 1..Len(node.deps) |-> [lib |-> node.deps[i].lib, ns |-> node.deps[i].ns]]
                 = files[node.lib].imports
    <2> DEFINE node == renaming[n].node
               imports == files[node.lib].imports
    <2>1. node \in G /\ node.lib \in DOMAIN files /\ Follows(node)
      BY <1>1, <1>2 DEF CallsSound, NodesSound
    <2>2. Len(node.deps) = Len(imports) /\ \A k \in 1..Len(imports) : imports[k] = Import(node.deps[k])
      BY <2>1 DEF Follows
    <2>3. imports \in Seq(Imported)
      BY <1>2, <2>1, FileImports
    <2> HIDE DEF node, imports
    <2>4. imports = [i \in 1..Len(imports) |-> imports[i]]
      BY <2>3
    <2>5. imports = [i \in 1..Len(node.deps) |-> Import(node.deps[i])]
      BY <2>2, <2>4
    <2> QED
      BY <2>5 DEF node, imports, Import
  <1> QED
    BY <1>3, <1>4, <1>5, <1>6, <1>7 DEF ImportsExact

(* Importing the libraries of a contract ends, and ends rightly: the walk   *)
(* of import_libs is never deeper than there are libraries, reports a cycle *)
(* only where there is one, and hands on exactly the tree of imports.       *)
THEOREM ImportsAreExact == ImportSpec => []ImportsExact
  <1>1. ImportInv => ImportsExact
    BY ImportsAssumption, ImportInvExact
  <1> QED
    BY <1>1, ImportInvHolds, PTL

-----------------------------------------------------------------------------
(* How uses are renamed: within one call every name that is known is put    *)
(* into the same namespace, that of the library under way.                  *)

LEMMA InTwice ==
    ASSUME NEW a \in Seq(STRING), NEW b \in Seq(STRING), NEW id \in Ids
    PROVE  In(a, In(b, id)) = In(a \o b, id)
  <1>1. id.ns \in Seq(STRING)
    BY DEF Ids
  <1>2. PICK inner : inner = In(b, id)
    OBVIOUS
  <1>3. inner \in Ids /\ inner.ns = b \o id.ns /\ inner.sort = id.sort /\ inner.base = id.base
    BY <1>2, InTyped
  <1>4. PICK x, y : x = In(a, inner) /\ y = In(a \o b, id)
    OBVIOUS
  <1>5. x \in Ids /\ x.ns = a \o inner.ns /\ x.sort = inner.sort /\ x.base = inner.base
    BY ONLY <1>3, <1>4, InTyped, a \in Seq(STRING)
  <1>6. PICK ab \in Seq(STRING) : ab = a \o b
    BY ConcatProperties
  <1>7. y \in Ids /\ y.ns = ab \o id.ns /\ y.sort = id.sort /\ y.base = id.base
    <2>1. y = In(ab, id)
      BY <1>4, <1>6
    <2>2. \A ns \in Seq(STRING) : /\ In(ns, id) \in Ids /\ In(ns, id).ns = ns \o id.ns
                                 /\ In(ns, id).sort = id.sort /\ In(ns, id).base = id.base
      BY InTyped
    <2> QED
      BY ONLY <2>1, <2>2, ab \in Seq(STRING)
  <1>8. ab \o id.ns = a \o (b \o id.ns)
    <2>1. PICK n \in Seq(STRING) : n = id.ns
      BY <1>1
    <2>2. (a \o b) \o n = a \o (b \o n)
      BY ConcatAssociative
    <2> QED
      BY <1>6, <2>1, <2>2
  <1>9. x.ns = y.ns /\ x.sort = y.sort /\ x.base = y.base
    BY <1>3, <1>5, <1>7, <1>8
  <1>10. \A i \in Ids : i = [ns |-> i.ns, sort |-> i.sort, base |-> i.base]
    BY DEF Ids
  <1>11. x = y
    BY ONLY <1>5, <1>7, <1>9, <1>10
  <1> QED
    BY <1>2, <1>4, <1>11

(* An environment that puts every name into one namespace. *)
Uniform(env, ns) == \A i \in 1..Len(env) : env[i].ns = ns
Knows(env, id) == \E i \in 1..Len(env) : env[i].id = id

LEMMA PrefixedUniform ==
    ASSUME NEW env \in Seq(EnvEntries), NEW ns, NEW id, Uniform(env, ns), Knows(env, id)
    PROVE  Prefixed(env, id) = In(ns, id)
  <1> DEFINE found == {i \in 1..Len(env) : env[i].id = id}
  <1>1. found # {}
    BY DEF Knows
  <1>2. Min(found) \in found
    BY <1>1, FoundFirst
  <1>3. env[Min(found)].ns = ns
    BY <1>2 DEF Uniform
  <1> QED
    BY <1>1, <1>3 DEF Prefixed

LEMMA UniformConcat ==
    ASSUME NEW env \in Seq(EnvEntries), NEW more \in Seq(EnvEntries), NEW ns
    PROVE  /\ env \o more \in Seq(EnvEntries)
           /\ Uniform(env, ns) /\ Uniform(more, ns) => Uniform(env \o more, ns)
           /\ \A id : Knows(env, id) \/ Knows(more, id) => Knows(env \o more, id)
  <1>1. /\ env \o more \in Seq(EnvEntries) /\ Len(env) \in Nat /\ Len(more) \in Nat
        /\ Len(env \o more) = Len(env) + Len(more)
        /\ \A i \in 1..(Len(env) + Len(more)) :
              (env \o more)[i] = IF i <= Len(env) THEN env[i] ELSE more[i - Len(env)]
    BY ConcatProperties
  <1>2. ASSUME Uniform(env, ns), Uniform(more, ns)
        PROVE  Uniform(env \o more, ns)
    <2> SUFFICES ASSUME NEW i \in 1..Len(env \o more)
                 PROVE  (env \o more)[i].ns = ns
      BY DEF Uniform
    <2>1. i \in 1..Len(env) \/ (i - Len(env) \in 1..Len(more) /\ ~(i <= Len(env)))
      BY <1>1
    <2>2. i \in 1..(Len(env) + Len(more))
      BY <1>1
    <2>3. CASE i \in 1..Len(env)
      <3>1. i <= Len(env)
        BY <1>1, <2>3
      <3> QED
        BY <1>1, <1>2, <2>2, <2>3, <3>1 DEF Uniform
    <2>4. CASE i - Len(env) \in 1..Len(more) /\ ~(i <= Len(env))
      BY <1>1, <1>2, <2>2, <2>4 DEF Uniform
    <2> QED
      BY <2>1, <2>3, <2>4
  <1>3. ASSUME NEW id, Knows(env, id)
        PROVE  Knows(env \o more, id)
    <2>1. PICK i \in 1..Len(env) : env[i].id = id
      BY <1>3 DEF Knows
    <2>2. i \in 1..(Len(env) + Len(more)) /\ i <= Len(env)
      BY <1>1
    <2> QED
      BY <1>1, <2>1, <2>2 DEF Knows
  <1>4. ASSUME NEW id, Knows(more, id)
        PROVE  Knows(env \o more, id)
    <2>1. PICK i \in 1..Len(more) : more[i].id = id
      BY <1>4 DEF Knows
    <2>2. PICK j : j = i + Len(env)
      OBVIOUS
    <2>3. j \in 1..(Len(env) + Len(more)) /\ ~(j <= Len(env)) /\ j - Len(env) = i
      BY <1>1, <2>2
    <2> QED
      BY <1>1, <2>1, <2>3 DEF Knows
  <1> QED
    BY <1>1, <1>2, <1>3, <1>4

(* rename_in_library puts the library's own names into its namespace, too.  *)
LEMMA RenamedUniform ==
    ASSUME NEW env \in Seq(EnvEntries), NEW lib \in Libs \cup {Contract}, NEW ns \in Seq(STRING),
           Uniform(env, ns), NEW renamed, renamed = RenameInLibrary(env, lib, ns)
    PROVE  /\ renamed.env \in Seq(EnvEntries) /\ Uniform(renamed.env, ns)
           /\ \A id : Knows(env, id) => Knows(renamed.env, id)
           /\ renamed.called.function = In(ns, Function(lib)) /\ renamed.called.type = In(ns, Type(lib))
           /\ renamed.names \in Seq(Ids) /\ Len(renamed.names) = 3
           /\ renamed.names[1] = Type(lib) /\ renamed.names[3] = Function(lib)
  <1> DEFINE fun == <<[id |-> Function(lib), ns |-> ns]>>
             own == <<[id |-> Constructor(lib), ns |-> ns], [id |-> Type(lib), ns |-> ns]>>
             envT == own \o env
             envF == fun \o envT
  <1>1. Function(lib) \in Ids /\ Type(lib) \in Ids /\ Constructor(lib) \in Ids
    BY NamesTyped
  <1>2. \A id \in Ids : [id |-> id, ns |-> ns] \in EnvEntries
    BY DEF EnvEntries
  <1>3. own \in Seq(EnvEntries) /\ fun \in Seq(EnvEntries)
    BY <1>1, <1>2
  <1>4. /\ Len(own) = 2 /\ own[1] = [id |-> Constructor(lib), ns |-> ns]
        /\ own[2] = [id |-> Type(lib), ns |-> ns]
        /\ Len(fun) = 1 /\ fun[1] = [id |-> Function(lib), ns |-> ns]
    OBVIOUS
  <1>5. renamed = [env |-> envF,
                   called |-> [function |-> Prefixed(envF, Function(lib)),
                               type |-> Prefixed(envT, Type(lib)),
                               constructor |-> Prefixed(envT, Constructor(lib))],
                   names |-> <<Type(lib), Prefixed(envT, Constructor(lib)), Function(lib)>>]
    BY DEF RenameInLibrary
  <1> HIDE DEF own, fun
  <1>6. Uniform(own, ns) /\ Uniform(fun, ns)
    <2>1. \A i \in 1..2 : i = 1 \/ i = 2
      OBVIOUS
    <2>2. \A i \in 1..1 : i = 1
      OBVIOUS
    <2> QED
      BY <1>4, <2>1, <2>2 DEF Uniform
  <1>7. Knows(own, Type(lib)) /\ Knows(fun, Function(lib))
    <2>1. 2 \in 1..2 /\ 1 \in 1..1
      OBVIOUS
    <2> QED
      BY <1>4, <2>1 DEF Knows
  <1>8. /\ envT \in Seq(EnvEntries) /\ Uniform(envT, ns)
        /\ \A id : Knows(own, id) \/ Knows(env, id) => Knows(envT, id)
    BY <1>3, <1>6, UniformConcat
  <1> HIDE DEF envT
  <1>9. /\ envF \in Seq(EnvEntries) /\ Uniform(envF, ns)
        /\ \A id : Knows(fun, id) \/ Knows(envT, id) => Knows(envF, id)
    BY <1>3, <1>6, <1>8, UniformConcat
  <1> HIDE DEF envF
  <1>10. Prefixed(envF, Function(lib)) = In(ns, Function(lib)) /\ Prefixed(envT, Type(lib)) = In(ns, Type(lib))
    BY <1>7, <1>8, <1>9, PrefixedUniform
  <1>11. Prefixed(envT, Constructor(lib)) \in Ids
    BY <1>1, <1>8, PrefixedTyped
  <1>12. /\ renamed.env = envF /\ renamed.called.function = Prefixed(envF, Function(lib))
         /\ renamed.called.type = Prefixed(envT, Type(lib))
         /\ renamed.names = <<Type(lib), Prefixed(envT, Constructor(lib)), Function(lib)>>
    BY <1>5
  <1>13. /\ renamed.names \in Seq(Ids) /\ Len(renamed.names) = 3
         /\ renamed.names[1] = Type(lib) /\ renamed.names[3] = Function(lib)
    BY <1>1, <1>11, <1>12
  <1> QED
    BY <1>8, <1>9, <1>10, <1>12, <1>13

-----------------------------------------------------------------------------
(* A call of rename_in_libtree: which dependencies it still waits for, and  *)
(* what it knows of the others.                                             *)

Awaits(c, open) ==
    /\ Len(c.node.deps) = Len(c.deps) + Len(open) + Len(c.todo)
    /\ \A k \in 1..Len(open) : open[k] = c.node.deps[Len(c.deps) + k]
    /\ \A k \in 1..Len(c.todo) : c.todo[k] = c.node.deps[Len(c.deps) + Len(open) + k]

Resolved(c, k) ==
    LET dep == c.node.deps[k] IN
      /\ c.deps[k].function = In(Full(c), In(dep.ns, Function(dep.lib)))
      /\ c.deps[k].type = In(Full(c), In(dep.ns, Type(dep.lib)))
      /\ Knows(c.env, In(dep.ns, Function(dep.lib))) /\ Knows(c.env, In(dep.ns, Type(dep.lib)))

Tells(c) ==
    /\ Uniform(c.env, Full(c))
    /\ \A k \in 1..Len(c.deps) : Resolved(c, k)

LEMMA CallBegins ==
    ASSUME NEW G, NEW node \in TreeNodes(G), NEW outer
    PROVE  /\ Awaits(RenameCall(node, outer), <<>>) /\ Tells(RenameCall(node, outer))
           /\ RenameCall(node, outer).outer = outer /\ RenameCall(node, outer).node = node
  <1>1. PICK c : c = RenameCall(node, outer)
    OBVIOUS
  <1>2. /\ c.node = node /\ c.outer = outer /\ c.todo = node.deps /\ c.deps = <<>> /\ c.env = <<>>
    BY <1>1 DEF RenameCall
  <1>3. Len(<<>>) = 0 /\ Len(node.deps) \in Nat /\ \A k : k \notin 1..0
    BY DEF TreeNodes
  <1>4. Awaits(c, <<>>)
    BY <1>2, <1>3 DEF Awaits
  <1>5. Tells(c)
    BY <1>2, <1>3 DEF Tells, Uniform
  <1> QED
    BY <1>1, <1>2, <1>4, <1>5

LEMMA CallOpens ==
    ASSUME NEW G, NEW c \in Calls(G), c.todo # <<>>, Awaits(c, <<>>), Tells(c),
           NEW d, d = [c EXCEPT !.todo = Tail(@)]
    PROVE  Awaits(d, <<Head(c.todo)>>) /\ Tells(d) /\ Full(d) = Full(c)
  <1>1. /\ d.node = c.node /\ d.outer = c.outer /\ d.deps = c.deps /\ d.env = c.env /\ d.todo = Tail(c.todo)
    BY DEF Calls
  <1>2. /\ Len(c.deps) \in Nat /\ c.todo \in Seq(G)
    BY DEF Calls
  <1>3. PICK l, m, h, t : l = Len(c.deps) /\ m = Len(c.todo) /\ h = Head(c.todo) /\ t = Tail(c.todo)
    OBVIOUS
  <1>4. /\ l \in Nat /\ m \in Nat /\ m >= 1 /\ h = c.todo[1] /\ Len(t) = m - 1
        /\ \A k \in 1..(m - 1) : t[k] = c.todo[k + 1]
    BY <1>2, <1>3
  <1>5. /\ Len(c.node.deps) = l + m
        /\ \A k \in 1..m : c.todo[k] = c.node.deps[l + k]
    <2>1. Len(<<>>) = 0
      OBVIOUS
    <2> QED
      BY <1>3, <1>4, <2>1 DEF Awaits
  <1>6. Len(<<h>>) = 1 /\ <<h>>[1] = h
    OBVIOUS
  <1>7. h = c.node.deps[l + 1] /\ \A k \in 1..(m - 1) : t[k] = c.node.deps[l + 1 + k]
    <2>1. 1 \in 1..m /\ \A k \in 1..(m - 1) : k + 1 \in 1..m /\ l + (k + 1) = l + 1 + k
      BY <1>4
    <2> QED
      BY <1>4, <1>5, <2>1
  <1>8. Awaits(d, <<h>>)
    <2>1. Len(c.node.deps) = l + 1 + (m - 1)
      BY <1>4, <1>5
    <2>2. \A k \in 1..1 : k = 1
      OBVIOUS
    <2> QED
      BY <1>1, <1>3, <1>4, <1>6, <1>7, <2>1, <2>2 DEF Awaits
  <1>9. Full(d) = Full(c)
    BY <1>1 DEF Full
  <1>10. Tells(d)
    BY <1>1, <1>9 DEF Tells, Resolved
  <1> QED
    BY <1>3, <1>8, <1>9, <1>10

LEMMA CallCloses ==
    ASSUME NEW G, G \subseteq TreeNodes(G), NEW c \in Calls(G), NEW inner \in Calls(G),
           Awaits(c, <<inner.node>>), Tells(c), Tells(inner), inner.outer = Full(c),
           NEW renamed, renamed = RenameInLibrary(inner.env, inner.node.lib, Full(inner)),
           NEW e, e = Told(c, renamed.called, Entries(renamed.names, inner.node.ns, inner.outer))
    PROVE  Awaits(e, <<>>) /\ Tells(e) /\ Full(e) = Full(c)
  <1>1. PICK l, m, dep, full, entries :
          /\ l = Len(c.deps) /\ m = Len(c.todo) /\ dep = inner.node /\ full = Full(c)
          /\ entries = Entries(renamed.names, inner.node.ns, inner.outer)
    OBVIOUS
  <1>2. /\ c.deps \in Seq(CalledNames) /\ c.env \in Seq(EnvEntries) /\ l \in Nat /\ m \in Nat
        /\ inner.env \in Seq(EnvEntries) /\ dep \in TreeNodes(G) /\ inner.outer \in Seq(STRING)
    BY <1>1 DEF Calls
  <1>3. dep.ns \in Seq(STRING) /\ dep.lib \in Libs \cup {Contract} /\ full \in Seq(STRING)
    BY <1>1, <1>2 DEF TreeNodes
  <1>4. Full(inner) = full \o dep.ns /\ Full(inner) \in Seq(STRING)
    <2>1. Full(inner) = full \o dep.ns
      BY <1>1 DEF Full
    <2>2. full \o dep.ns \in Seq(STRING)
      BY <1>3, ConcatProperties
    <2> QED
      BY <2>1, <2>2
  <1>5. /\ renamed.called.function = In(Full(inner), Function(dep.lib))
        /\ renamed.called.type = In(Full(inner), Type(dep.lib))
        /\ renamed.names \in Seq(Ids) /\ Len(renamed.names) = 3
        /\ renamed.names[1] = Type(dep.lib) /\ renamed.names[3] = Function(dep.lib)
    <2>1. PICK env, ns, lib : env = inner.env /\ ns = Full(inner) /\ lib = dep.lib
      OBVIOUS
    <2>2. /\ env \in Seq(EnvEntries) /\ lib \in Libs \cup {Contract} /\ ns \in Seq(STRING)
          /\ Uniform(env, ns) /\ renamed = RenameInLibrary(env, lib, ns)
      BY <1>1, <1>2, <1>3, <1>4, <2>1 DEF Tells
    <2>3. /\ renamed.called.function = In(ns, Function(lib))
          /\ renamed.called.type = In(ns, Type(lib))
          /\ renamed.names \in Seq(Ids) /\ Len(renamed.names) = 3
          /\ renamed.names[1] = Type(lib) /\ renamed.names[3] = Function(lib)
      BY ONLY <2>2, RenamedUniform
    <2> QED
      BY <2>1, <2>3
  <1>6. renamed.called \in CalledNames
    BY <1>1, <1>2, <1>3, <1>4, RenamedTyped
  <1>7. Function(dep.lib) \in Ids /\ Type(dep.lib) \in Ids
    BY <1>3, NamesTyped
  <1>8. /\ renamed.called.function = In(full, In(dep.ns, Function(dep.lib)))
        /\ renamed.called.type = In(full, In(dep.ns, Type(dep.lib)))
    BY <1>3, <1>4, <1>5, <1>7, InTwice
  <1>9. /\ entries \in Seq(EnvEntries) /\ Len(entries) = 3
        /\ \A i \in 1..3 : entries[i] = [id |-> In(dep.ns, renamed.names[i]), ns |-> full]
    <2>1. entries = Entries(renamed.names, dep.ns, full)
      BY <1>1
    <2>2. PICK names, ns : names = renamed.names /\ ns = dep.ns
      OBVIOUS
    <2>3. names \in Seq(Ids) /\ ns \in Seq(STRING) /\ full \in Seq(STRING) /\ entries = Entries(names, ns, full)
      BY <1>3, <1>5, <2>1, <2>2
    <2>4. /\ entries \in Seq(EnvEntries) /\ Len(entries) = Len(names)
          /\ \A i \in 1..Len(names) : entries[i] = [id |-> In(ns, names[i]), ns |-> full]
      BY ONLY <2>3, EntriesTyped
    <2> QED
      BY <1>5, <2>2, <2>4
  <1>10. /\ Uniform(entries, full) /\ Knows(entries, In(dep.ns, Function(dep.lib)))
         /\ Knows(entries, In(dep.ns, Type(dep.lib)))
    <2>1. 1 \in 1..3 /\ 3 \in 1..3
      OBVIOUS
    <2> QED
      BY <1>5, <1>9, <2>1 DEF Uniform, Knows
  <1>11. e = [c EXCEPT !.deps = Append(@, renamed.called), !.env = @ \o entries]
    BY <1>1 DEF Told
  <1>12. /\ e.node = c.node /\ e.outer = c.outer /\ e.todo = c.todo
         /\ e.deps = Append(c.deps, renamed.called) /\ e.env = c.env \o entries
    BY <1>11 DEF Calls
  <1>13. Full(e) = full
    BY <1>1, <1>12 DEF Full
  <1>14. /\ Len(e.deps) = l + 1 /\ e.deps[l + 1] = renamed.called
         /\ \A k \in 1..l : e.deps[k] = c.deps[k]
    <2>1. PICK deps, called : deps = c.deps /\ called = renamed.called
      OBVIOUS
    <2>2. deps \in Seq(CalledNames) /\ called \in CalledNames /\ l = Len(deps)
      BY <1>1, <1>2, <1>6, <2>1
    <2>3. /\ Len(Append(deps, called)) = l + 1 /\ Append(deps, called)[l + 1] = called
          /\ \A k \in 1..l : Append(deps, called)[k] = deps[k]
      BY ONLY <2>2, AppendProperties
    <2> QED
      BY <1>12, <2>1, <2>3
  <1>15. /\ Len(c.node.deps) = l + 1 + m /\ c.node.deps[l + 1] = dep
         /\ \A k \in 1..m : c.todo[k] = c.node.deps[l + 1 + k]
    <2>1. Len(<<dep>>) = 1 /\ <<dep>>[1] = dep /\ 1 \in 1..1
      OBVIOUS
    <2>2. Awaits(c, <<dep>>)
      BY <1>1
    <2> QED
      BY <1>1, <2>1, <2>2 DEF Awaits
  <1>16. Awaits(e, <<>>)
    <2>1. /\ Len(<<>>) = 0 /\ l + 1 + 0 = l + 1 /\ \A k : k \notin 1..0
      BY <1>2
    <2>2. /\ e.node = c.node /\ e.todo = c.todo /\ Len(c.todo) = m /\ Len(e.deps) = l + 1
      BY <1>1, <1>12, <1>14
    <2> QED
      BY ONLY <1>15, <2>1, <2>2 DEF Awaits
  <1>17. /\ Uniform(e.env, full)
         /\ \A id : Knows(c.env, id) \/ Knows(entries, id) => Knows(e.env, id)
    <2>1. Uniform(c.env, full)
      BY <1>1 DEF Tells
    <2> QED
      BY <1>2, <1>9, <1>10, <1>12, <2>1, UniformConcat
  <1>18. ASSUME NEW k \in 1..Len(e.deps)
         PROVE  Resolved(e, k)
    <2>1. k \in 1..l \/ k = l + 1
      BY <1>2, <1>14
    <2>2. CASE k \in 1..l
      <3>1. Resolved(c, k)
        BY <1>1, <2>2 DEF Tells
      <3>2. e.deps[k] = c.deps[k] /\ e.node = c.node /\ Full(e) = Full(c)
        BY <1>1, <1>12, <1>13, <1>14, <2>2
      <3> QED
        BY <1>17, <3>1, <3>2 DEF Resolved
    <2>3. CASE k = l + 1
      <3>1. e.deps[k] = renamed.called /\ e.node.deps[k] = dep
        BY <1>12, <1>14, <1>15, <2>3
      <3> QED
        BY <1>8, <1>10, <1>13, <1>17, <3>1 DEF Resolved
    <2> QED
      BY <2>1, <2>2, <2>3
  <1>19. Tells(e)
    BY <1>13, <1>17, <1>18 DEF Tells
  <1> QED
    BY <1>1, <1>13, <1>16, <1>19

-----------------------------------------------------------------------------
(* The invariant of the calls under way. *)

Opened(j) == IF j < Len(renaming) THEN <<renaming[j + 1].node>> ELSE <<>>

Resolving(j) ==
    /\ Awaits(renaming[j], Opened(j)) /\ Tells(renaming[j])
    /\ j < Len(renaming) => renaming[j + 1].outer = Full(renaming[j])

UsesInv == \A j \in 1..Len(renaming) : Resolving(j)

(* Calls that a step leaves alone, with the node and the outer namespace of *)
(* the one above.                                                           *)
LEMMA ResolvingKept ==
    ASSUME NEW j, Resolving(j), j < Len(renaming), j < Len(renaming'),
           renaming'[j] = renaming[j], renaming'[j + 1].node = renaming[j + 1].node,
           renaming'[j + 1].outer = renaming[j + 1].outer
    PROVE  Resolving(j)'
  <1>1. Opened(j)' = Opened(j)
    BY DEF Opened
  <1> QED
    BY <1>1 DEF Resolving

LEMMA DepUses ==
    ASSUME NEW G, CallsSound(G), G \subseteq TreeNodes(G), UsesInv, RenameDep
    PROVE  UsesInv'
  <1>1. PICK n, c, d, new : /\ n = Len(renaming) /\ c = Inner /\ d = [c EXCEPT !.todo = Tail(@)]
                            /\ new = RenameCall(Head(Inner.todo), Full(Inner))
    OBVIOUS
  <1>2. renaming # <<>> /\ c.todo # <<>>
    BY <1>1 DEF RenameDep
  <1>3. /\ n \in Nat /\ n >= 1 /\ c = renaming[n] /\ c \in Calls(G) /\ Head(c.todo) \in TreeNodes(G)
    BY <1>1, <1>2, InnerTyped
  <1>4. /\ Len(renaming') = n + 1 /\ renaming'[n] = d /\ renaming'[n + 1] = new
        /\ \A j \in 1..(n - 1) : renaming'[j] = renaming[j]
    BY <1>1, DepCalls
  <1>5. Awaits(c, <<>>) /\ Tells(c)
    <2>1. Resolving(n) /\ ~(n < Len(renaming))
      BY <1>1, <1>3 DEF UsesInv
    <2> QED
      BY <1>3, <2>1 DEF Resolving, Opened
  <1>6. Awaits(d, <<Head(c.todo)>>) /\ Tells(d) /\ Full(d) = Full(c)
    BY <1>1, <1>2, <1>3, <1>5, CallOpens
  <1>7. d.node = c.node /\ d.outer = c.outer
    BY <1>1, <1>3 DEF Calls
  <1>8. Awaits(new, <<>>) /\ Tells(new) /\ new.outer = Full(c) /\ new.node = Head(c.todo)
    BY <1>1, <1>3, CallBegins
  <1>9. SUFFICES ASSUME NEW j \in 1..(n + 1)
                 PROVE  Resolving(j)'
    BY <1>4 DEF UsesInv
  <1>10. j \in 1..(n - 1) \/ j = n \/ j = n + 1
    BY <1>3
  <1>11. CASE j \in 1..(n - 1)
    <2>1. /\ Resolving(j) /\ j < Len(renaming) /\ j < Len(renaming') /\ j + 1 \in 1..n
      BY <1>1, <1>3, <1>4, <1>11 DEF UsesInv
    <2>2. renaming'[j + 1].node = renaming[j + 1].node /\ renaming'[j + 1].outer = renaming[j + 1].outer
      <3>1. j + 1 = n \/ j + 1 \in 1..(n - 1)
        BY <1>3, <2>1
      <3> QED
        BY <1>3, <1>4, <1>7, <3>1
    <2>3. renaming'[j] = renaming[j]
      BY <1>4, <1>11
    <2> QED
      BY <2>1, <2>2, <2>3, ResolvingKept
  <1>12. CASE j = n
    <2>1. n < Len(renaming')
      BY <1>3, <1>4
    <2>2. Opened(n)' = <<Head(c.todo)>>
      BY <1>4, <1>8, <2>1 DEF Opened
    <2> QED
      BY <1>4, <1>6, <1>8, <1>12, <2>2 DEF Resolving
  <1>13. CASE j = n + 1
    <2>1. ~(n + 1 < Len(renaming'))
      BY <1>3, <1>4
    <2>2. Opened(n + 1)' = <<>>
      BY <2>1 DEF Opened
    <2> QED
      BY <1>4, <1>8, <1>13, <2>1, <2>2 DEF Resolving
  <1> QED
    BY <1>10, <1>11, <1>12, <1>13

LEMMA DoneUses ==
    ASSUME ImportsAssumption, NEW G, CallsSound(G), G \subseteq TreeNodes(G), UsesInv, RenameDone
    PROVE  UsesInv'
  <1>1. CASE Len(renaming) = 1
    <2>1. renaming' = <<>>
      BY <1>1 DEF RenameDone
    <2>2. \A j : j \notin 1..Len(renaming')
      BY <2>1
    <2> QED
      BY <2>2 DEF UsesInv
  <1>2. CASE Len(renaming) # 1
    <2>1. PICK m, inner, renamed : /\ m = Len(renaming) - 1 /\ inner = Inner
                                   /\ renamed = RenameInLibrary(Inner.env, Inner.node.lib, Full(Inner))
      OBVIOUS
    <2>2. PICK c, e : /\ c = renaming[m]
                      /\ e = Told(c, renamed.called, Entries(renamed.names, inner.node.ns, inner.outer))
      OBVIOUS
    <2>3. /\ m \in Nat /\ m >= 1 /\ Len(renaming) = m + 1 /\ Len(renaming') = m
          /\ renaming'[m] = e /\ \A j \in 1..(m - 1) : renaming'[j] = renaming[j]
      BY <1>2, <2>1, <2>2, DoneCalls
    <2>4. inner = renaming[m + 1] /\ inner \in Calls(G) /\ c \in Calls(G)
      <3>1. m \in 1..Len(renaming) /\ renaming # <<>>
        BY <2>3
      <3> QED
        BY <2>1, <2>2, <2>3, <3>1, InnerTyped DEF CallsSound
    <2>5. /\ Awaits(c, <<inner.node>>) /\ Tells(c) /\ inner.outer = Full(c) /\ Tells(inner)
      <3>1. /\ Resolving(m) /\ Resolving(m + 1) /\ m < Len(renaming)
        BY <2>3 DEF UsesInv
      <3> QED
        BY <2>2, <2>4, <3>1 DEF Resolving, Opened
    <2>6. renamed = RenameInLibrary(inner.env, inner.node.lib, Full(inner))
      BY <2>1
    <2>7. Awaits(e, <<>>) /\ Tells(e) /\ Full(e) = Full(c)
      BY ONLY <2>2, <2>4, <2>5, <2>6, CallCloses, G \subseteq TreeNodes(G)
    <2>8. e.node = c.node /\ e.outer = c.outer
      BY <2>2, <2>4 DEF Told, Calls
    <2>9. SUFFICES ASSUME NEW j \in 1..m
                   PROVE  Resolving(j)'
      BY <2>3 DEF UsesInv
    <2>10. CASE j = m
      <3>1. ~(m < Len(renaming'))
        BY <2>3
      <3>2. Opened(m)' = <<>>
        BY <3>1 DEF Opened
      <3> QED
        BY <2>3, <2>7, <2>10, <3>1, <3>2 DEF Resolving
    <2>11. CASE j # m
      <3>1. /\ Resolving(j) /\ j < Len(renaming) /\ j < Len(renaming') /\ j \in 1..(m - 1)
        BY <2>3, <2>11 DEF UsesInv
      <3>2. j + 1 = m \/ j + 1 \in 1..(m - 1)
        BY <2>3, <3>1
      <3>3. renaming'[j + 1].node = renaming[j + 1].node /\ renaming'[j + 1].outer = renaming[j + 1].outer
        BY <2>2, <2>3, <2>8, <3>2
      <3>4. renaming'[j] = renaming[j]
        BY <2>3, <3>1
      <3> QED
        BY <3>1, <3>3, <3>4, ResolvingKept
    <2> QED
      BY <2>10, <2>11
  <1> QED
    BY <1>1, <1>2

LEMMA UsesInvKept ==
    ASSUME UsesInv, renaming' = renaming
    PROVE  UsesInv'
  BY DEF UsesInv, Resolving, Opened

LEMMA UsesInvInductive ==
    ASSUME ImportsAssumption, ImportInv, UsesInv, [ImportLibs \/ EliminateNamespaces]_importVars
    PROVE  UsesInv'
  <1>1. PICK G : Sound(G) /\ CallsSound(G)
    BY DEF ImportInv
  <1>2. G \subseteq TreeNodes(G)
    BY <1>1 DEF Sound, NodesSound
  <1>3. CASE renaming' = renaming
    BY <1>3, UsesInvKept
  <1>4. CASE ImportDone /\ renaming' # renaming
    <2>1. outcome = "importing" /\ renaming' = <<RenameCall(Node(Top), <<>>)>>
      BY <1>4 DEF ImportDone
    <2>2. PICK node, call : node = Node(Top) /\ call = RenameCall(node, <<>>)
      OBVIOUS
    <2>3. node \in TreeNodes(G)
      <3>1. Top \in Frames(G)
        BY <1>1, TopTyped DEF Sound, FilesSound
      <3> QED
        BY <2>2, <3>1 DEF Node, Frames, TreeNodes
    <2>4. Awaits(call, <<>>) /\ Tells(call)
      BY <2>2, <2>3, CallBegins
    <2>5. Len(renaming') = 1 /\ renaming'[1] = call /\ ~(1 < Len(renaming')) /\ \A j \in 1..1 : j = 1
      BY <2>1, <2>2
    <2>6. Opened(1)' = <<>>
      BY <2>5 DEF Opened
    <2> QED
      BY <2>4, <2>5, <2>6 DEF UsesInv, Resolving
  <1>5. CASE RenameDep
    BY <1>1, <1>2, <1>5, DepUses
  <1>6. CASE RenameDone
    BY <1>1, <1>2, <1>6, DoneUses
  <1> QED
    BY <1>3, <1>4, <1>5, <1>6 DEF ImportLibs, ImportNext, EliminateNamespaces, importVars

LEMMA UsesInvResolve ==
    ASSUME ImportsAssumption, ImportInv, UsesInv
    PROVE  UsesResolve
  <1> SUFFICES ASSUME Renaming, NEW i \in 1..Len(Inner.node.deps), NEW bound \in SUBSET LocalNames
               PROVE  LET dep == Inner.node.deps[i]
                          function == In(dep.ns, Function(dep.lib))
                      IN  /\ Use(function, "value", bound)
                             = IF function \in bound THEN function ELSE Inner.deps[i].function
                          /\ Use(In(dep.ns, Type(dep.lib)), "type", bound) = Inner.deps[i].type
    BY DEF UsesResolve
  <1>1. PICK G : Sound(G) /\ CallsSound(G)
    BY DEF ImportInv
  <1>2. G \subseteq TreeNodes(G)
    BY <1>1 DEF Sound, NodesSound
  <1>3. PICK c, n, dep : c = Inner /\ n = Len(renaming) /\ dep = Inner.node.deps[i]
    OBVIOUS
  <1>4. renaming # <<>> /\ c.todo = <<>>
    BY <1>3 DEF Renaming
  <1>5. /\ n \in Nat /\ n >= 1 /\ c = renaming[n] /\ c \in Calls(G)
        /\ c.node.lib \in Libs \cup {Contract} /\ c.env \in Seq(EnvEntries) /\ Full(c) \in Seq(STRING)
    BY <1>1, <1>2, <1>3, <1>4, InnerTyped
  <1>6. Awaits(c, <<>>) /\ Tells(c)
    <2>1. Resolving(n) /\ ~(n < Len(renaming))
      BY <1>3, <1>5 DEF UsesInv
    <2> QED
      BY <1>5, <2>1 DEF Resolving, Opened
  <1>7. Len(c.node.deps) = Len(c.deps)
    <2>1. Len(<<>>) = 0 /\ Len(c.deps) \in Nat
      BY <1>5 DEF Calls
    <2> QED
      BY <1>4, <1>6, <2>1 DEF Awaits
  <1>8. Resolved(c, i)
    BY <1>3, <1>6, <1>7 DEF Tells
  <1>9. PICK renamed : renamed = RenameInLibrary(c.env, c.node.lib, Full(c))
    OBVIOUS
  <1>10. /\ renamed.env \in Seq(EnvEntries) /\ Uniform(renamed.env, Full(c))
         /\ \A id : Knows(c.env, id) => Knows(renamed.env, id)
    <2>1. PICK env, lib, ns : env = c.env /\ lib = c.node.lib /\ ns = Full(c)
      OBVIOUS
    <2>2. /\ env \in Seq(EnvEntries) /\ lib \in Libs \cup {Contract} /\ ns \in Seq(STRING)
          /\ Uniform(env, ns) /\ renamed = RenameInLibrary(env, lib, ns)
      BY <1>5, <1>6, <1>9, <2>1 DEF Tells
    <2>3. /\ renamed.env \in Seq(EnvEntries) /\ Uniform(renamed.env, ns)
          /\ \A id : Knows(env, id) => Knows(renamed.env, id)
      BY ONLY <2>2, RenamedUniform
    <2> QED
      BY <2>1, <2>3
  <1>11. ASSUME NEW id, Knows(c.env, id), NEW place, place # "literal"
         PROVE  Use(id, place, bound) = IF id \in bound THEN id ELSE In(Full(c), id)
    <2>1. Prefixed(renamed.env, id) = In(Full(c), id)
      BY <1>10, <1>11, PrefixedUniform
    <2>2. Use(id, place, bound) = RenameInExpr(renamed.env, id, place, bound)
      BY <1>3, <1>9 DEF Use
    <2> QED
      BY <1>11, <2>1, <2>2 DEF RenameInExpr
  <1>12. In(dep.ns, Type(dep.lib)) \notin bound
    <2>1. In(dep.ns, Type(dep.lib)).sort = "type"
      BY DEF In, Type, Name
    <2>2. \A id \in bound : id.sort = "function"
      BY DEF LocalNames, Function, Name
    <2> QED
      BY <2>1, <2>2
  <1>13. /\ Use(In(dep.ns, Function(dep.lib)), "value", bound)
            = IF In(dep.ns, Function(dep.lib)) \in bound THEN In(dep.ns, Function(dep.lib))
              ELSE c.deps[i].function
         /\ Use(In(dep.ns, Type(dep.lib)), "type", bound) = c.deps[i].type
    <2>1. dep = c.node.deps[i]
      BY <1>3
    <2> DEFINE function == In(dep.ns, Function(dep.lib))
               type == In(dep.ns, Type(dep.lib))
    <2>2. /\ Knows(c.env, function) /\ In(Full(c), function) = c.deps[i].function
          /\ Knows(c.env, type) /\ In(Full(c), type) = c.deps[i].type
      BY <1>8, <2>1 DEF Resolved
    <2>3. type \notin bound
      BY <1>12
    <2> HIDE DEF function, type
    <2>4. /\ Use(function, "value", bound) = IF function \in bound THEN function ELSE In(Full(c), function)
          /\ Use(type, "type", bound) = IF type \in bound THEN type ELSE In(Full(c), type)
      BY <1>11, <2>2
    <2>5. /\ Use(function, "value", bound) = IF function \in bound THEN function ELSE c.deps[i].function
          /\ Use(type, "type", bound) = c.deps[i].type
      BY <2>2, <2>3, <2>4
    <2> QED
      BY <2>5 DEF function, type
  <1> QED
    BY <1>3, <1>13

(* However libraries and namespaces are nested, eliminate_namespaces lets a *)
(* library's uses of an imported function follow what the imported library  *)
(* calls it from then on, unless a local binding hides it, and its uses of  *)
(* an imported type too, outside the types of empty maps.                   *)
THEOREM UsesAlwaysResolve == ImportSpec => []UsesResolve
  <1>1. ImportInit => UsesInv
    <2>1. ImportInit => \A j : j \notin 1..Len(renaming)
      BY DEF ImportInit
    <2> QED
      BY <2>1 DEF UsesInv
  <1>2. ImportInv /\ UsesInv /\ [ImportLibs \/ EliminateNamespaces]_importVars => UsesInv'
    BY ImportsAssumption, UsesInvInductive
  <1>3. ImportInv /\ UsesInv => UsesResolve
    BY ImportsAssumption, UsesInvResolve
  <1> QED
    BY <1>1, <1>2, <1>3, ImportInvHolds, PTL DEF ImportSpec

-----------------------------------------------------------------------------
(* What AcceptChecker defines along the nesting of matches is defined by    *)
(* its equation.                                                            *)

LEMMA StatementsEquation ==
    Statements = [depth \in Nat |->
        {Accept, Throw} \cup
        IF depth = 0 THEN {}
        ELSE [kind : {"match"}, branches : Seq(Seq(Statements[depth - 1])) \ {<<>>}]]
  <1> DEFINE Body(f, d) == {Accept, Throw} \cup
                 IF d = 0 THEN {} ELSE [kind : {"match"}, branches : Seq(Seq(f[d - 1])) \ {<<>>}]
             Upto(n, g) == g = [d \in 0..n |-> Body(g, d)]
             S == {n \in Nat : \E g : Upto(n, g)}
             Least(n) == CHOOSE g : Upto(n, g)
             full == [d \in Nat |-> Least(d)[d]]
  <1>1. \A f, g : \A d \in Nat : (d # 0 => f[d - 1] = g[d - 1]) => Body(f, d) = Body(g, d)
    OBVIOUS
  <1>2. Statements = CHOOSE f : f = [d \in Nat |-> Body(f, d)]
    BY DEF Statements
  <1> HIDE DEF Body
  <1>3. 0 \in S
    <2> DEFINE g == [d \in 0..0 |-> Body(<<>>, d)]
    <2>1. \A d \in 0..0 : d \in Nat /\ d = 0
      OBVIOUS
    <2>2. \A d \in 0..0 : Body(<<>>, d) = Body(g, d)
      <3> HIDE DEF g
      <3> QED
        BY <1>1, <2>1
    <2> QED
      BY <2>2
  <1>4. ASSUME NEW n \in Nat, n \in S
        PROVE  n + 1 \in S
    <2>1. PICK g : Upto(n, g)
      BY <1>4
    <2>2. PICK h : h = [d \in 0..(n + 1) |-> IF d = n + 1 THEN Body(g, n + 1) ELSE g[d]]
      OBVIOUS
    <2>3. \A d \in 0..n : d \in 0..(n + 1) /\ d # n + 1 /\ d \in Nat
      OBVIOUS
    <2>4. \A d \in 0..n : h[d] = g[d]
      BY <2>2, <2>3
    <2>5. \A d \in 0..(n + 1) : d \in Nat /\ (d # 0 => d - 1 \in 0..n) /\ (d # n + 1 => d \in 0..n)
      OBVIOUS
    <2>6. \A d \in 0..(n + 1) : Body(g, d) = Body(h, d)
      BY <1>1, <2>4, <2>5
    <2>7. \A d \in 0..n : g[d] = Body(g, d)
      BY <2>1
    <2>8. \A d \in 0..(n + 1) : h[d] = Body(h, d)
      BY <2>2, <2>5, <2>6, <2>7
    <2>9. Upto(n + 1, h)
      BY <2>2, <2>8
    <2> QED
      BY <2>9
  <1>5. Nat \subseteq S
    <2> HIDE DEF S
    <2> QED
      BY <1>3, <1>4, SetInduction
  <1>6. \A n \in Nat : Upto(n, Least(n))
    <2> HIDE DEF Upto
    <2> QED
      BY <1>5
  <1>7. ASSUME NEW m \in Nat, NEW n \in Nat, NEW g, NEW h, Upto(m, g), Upto(n, h)
        PROVE  \A d \in Nat : d <= m /\ d <= n => g[d] = h[d]
    <2> DEFINE T == {d \in Nat : d <= m /\ d <= n => g[d] = h[d]}
    <2>1. \A d \in 0..m : g[d] = Body(g, d)
      BY <1>7
    <2>2. \A d \in 0..n : h[d] = Body(h, d)
      BY <1>7
    <2>3. 0 \in T
      <3>1. Body(g, 0) = Body(h, 0)
        BY <1>1
      <3> QED
        BY <2>1, <2>2, <3>1
    <2>4. ASSUME NEW d \in Nat, d \in T
          PROVE  d + 1 \in T
      <3> SUFFICES ASSUME d + 1 <= m, d + 1 <= n
                   PROVE  g[d + 1] = h[d + 1]
        OBVIOUS
      <3>1. d + 1 \in 0..m /\ d + 1 \in 0..n /\ (d + 1) - 1 = d /\ g[d] = h[d] /\ d + 1 \in Nat
        BY <2>4
      <3>2. Body(g, d + 1) = Body(h, d + 1)
        BY <1>1, <3>1
      <3> QED
        BY <2>1, <2>2, <3>1, <3>2
    <2> HIDE DEF T
    <2>5. Nat \subseteq T
      BY <2>3, <2>4, SetInduction
    <2> QED
      BY <2>5 DEF T
  <1>8. \A d \in Nat : full[d] = Body(full, d)
    <2> TAKE d \in Nat
    <2>1. Upto(d, Least(d)) /\ d \in 0..d
      BY <1>6
    <2>2. full[d] = Body(Least(d), d)
      <3>1. full[d] = Least(d)[d]
        OBVIOUS
      <3> HIDE DEF Least
      <3> QED
        BY <2>1, <3>1
    <2>3. d # 0 => Least(d)[d - 1] = full[d - 1]
      <3> SUFFICES ASSUME d # 0
                   PROVE  Least(d)[d - 1] = Least(d - 1)[d - 1]
        OBVIOUS
      <3>1. d - 1 \in Nat /\ d - 1 <= d
        OBVIOUS
      <3>2. Upto(d - 1, Least(d - 1))
        BY <1>6, <3>1
      <3> HIDE DEF Upto, Least
      <3> QED
        BY <1>7, <2>1, <3>1, <3>2
    <2> HIDE DEF full, Least
    <2> QED
      BY <1>1, <2>2, <2>3
  <1>9. full = [d \in Nat |-> Body(full, d)]
    BY <1>8
  <1>10. Statements = [d \in Nat |-> Body(Statements, d)]
    <2> HIDE DEF full
    <2> QED
      BY <1>2, <1>9, Zenon
  <1> QED
    BY <1>10 DEF Body

LEMMA StatementLevels ==
    /\ Statements[0] = {Accept, Throw}
    /\ \A n \in Nat : Statements[n + 1] =
          {Accept, Throw} \cup [kind : {"match"}, branches : Seq(Seq(Statements[n])) \ {<<>>}]
  <1> DEFINE Level(d) == {Accept, Throw} \cup
                 IF d = 0 THEN {}
                 ELSE [kind : {"match"}, branches : Seq(Seq(Statements[d - 1])) \ {<<>>}]
  <1>1. \A d \in Nat : Statements[d] = Level(d)
    BY StatementsEquation, Zenon
  <1>2. Level(0) = {Accept, Throw}
    OBVIOUS
  <1>3. ASSUME NEW n \in Nat
        PROVE  Level(n + 1) =
                 {Accept, Throw} \cup [kind : {"match"}, branches : Seq(Seq(Statements[n])) \ {<<>>}]
    <2>1. n + 1 # 0 /\ (n + 1) - 1 = n
      OBVIOUS
    <2> QED
      BY <2>1
  <1> HIDE DEF Level
  <1>4. 0 \in Nat /\ \A n \in Nat : n + 1 \in Nat
    OBVIOUS
  <1> QED
    BY <1>1, <1>2, <1>3, <1>4

LEMMA AfterEquation ==
    After = [depth \in Nat |->
        [stmt \in Statements[depth] |-> [seen \in Seq(Nat) |->
            IF stmt.kind = "accept" THEN [i \in 1..Len(seen) |-> seen[i] + 1]
            ELSE IF stmt.kind = "match" THEN WalkBranches(After[depth - 1], seen, stmt.branches)
            ELSE seen]]]
  <1> DEFINE Body(f, d) ==
                 [stmt \in Statements[d] |-> [seen \in Seq(Nat) |->
                     IF stmt.kind = "accept" THEN [i \in 1..Len(seen) |-> seen[i] + 1]
                     ELSE IF stmt.kind = "match" THEN WalkBranches(f[d - 1], seen, stmt.branches)
                     ELSE seen]]
             Upto(n, g) == g = [d \in 0..n |-> Body(g, d)]
             S == {n \in Nat : \E g : Upto(n, g)}
             Least(n) == CHOOSE g : Upto(n, g)
             full == [d \in Nat |-> Least(d)[d]]
  <1>1. \A f, g : \A d \in Nat : (d # 0 => f[d - 1] = g[d - 1]) => Body(f, d) = Body(g, d)
    <2> SUFFICES ASSUME NEW f, NEW g, NEW d \in Nat, d # 0 => f[d - 1] = g[d - 1]
                 PROVE  Body(f, d) = Body(g, d)
      OBVIOUS
    <2>1. CASE d # 0
      <3>1. PICK before : before = f[d - 1] /\ before = g[d - 1]
        BY <2>1
      <3> QED
        BY <3>1
    <2>2. CASE d = 0
      <3>1. \A stmt \in Statements[d] : stmt.kind # "match"
        BY <2>2, StatementLevels DEF Accept, Throw
      <3> QED
        BY <3>1
    <2> QED
      BY <2>1, <2>2
  <1>2. After = CHOOSE f : f = [d \in Nat |-> Body(f, d)]
    BY DEF After
  <1> HIDE DEF Body
  <1>3. 0 \in S
    <2> DEFINE g == [d \in 0..0 |-> Body(<<>>, d)]
    <2>1. \A d \in 0..0 : d \in Nat /\ d = 0
      OBVIOUS
    <2>2. \A d \in 0..0 : Body(<<>>, d) = Body(g, d)
      <3> HIDE DEF g
      <3> QED
        BY <1>1, <2>1
    <2> QED
      BY <2>2
  <1>4. ASSUME NEW n \in Nat, n \in S
        PROVE  n + 1 \in S
    <2>1. PICK g : Upto(n, g)
      BY <1>4
    <2>2. PICK h : h = [d \in 0..(n + 1) |-> IF d = n + 1 THEN Body(g, n + 1) ELSE g[d]]
      OBVIOUS
    <2>3. \A d \in 0..n : d \in 0..(n + 1) /\ d # n + 1 /\ d \in Nat
      OBVIOUS
    <2>4. \A d \in 0..n : h[d] = g[d]
      BY <2>2, <2>3
    <2>5. \A d \in 0..(n + 1) : d \in Nat /\ (d # 0 => d - 1 \in 0..n) /\ (d # n + 1 => d \in 0..n)
      OBVIOUS
    <2>6. \A d \in 0..(n + 1) : Body(g, d) = Body(h, d)
      BY <1>1, <2>4, <2>5
    <2>7. \A d \in 0..n : g[d] = Body(g, d)
      BY <2>1
    <2>8. \A d \in 0..(n + 1) : h[d] = Body(h, d)
      BY <2>2, <2>5, <2>6, <2>7
    <2>9. Upto(n + 1, h)
      BY <2>2, <2>8
    <2> QED
      BY <2>9
  <1>5. Nat \subseteq S
    <2> HIDE DEF S
    <2> QED
      BY <1>3, <1>4, SetInduction
  <1>6. \A n \in Nat : Upto(n, Least(n))
    <2> HIDE DEF Upto
    <2> QED
      BY <1>5
  <1>7. ASSUME NEW m \in Nat, NEW n \in Nat, NEW g, NEW h, Upto(m, g), Upto(n, h)
        PROVE  \A d \in Nat : d <= m /\ d <= n => g[d] = h[d]
    <2> DEFINE T == {d \in Nat : d <= m /\ d <= n => g[d] = h[d]}
    <2>1. \A d \in 0..m : g[d] = Body(g, d)
      BY <1>7
    <2>2. \A d \in 0..n : h[d] = Body(h, d)
      BY <1>7
    <2>3. 0 \in T
      <3>1. Body(g, 0) = Body(h, 0)
        BY <1>1
      <3> QED
        BY <2>1, <2>2, <3>1
    <2>4. ASSUME NEW d \in Nat, d \in T
          PROVE  d + 1 \in T
      <3> SUFFICES ASSUME d + 1 <= m, d + 1 <= n
                   PROVE  g[d + 1] = h[d + 1]
        OBVIOUS
      <3>1. d + 1 \in 0..m /\ d + 1 \in 0..n /\ (d + 1) - 1 = d /\ g[d] = h[d] /\ d + 1 \in Nat
        BY <2>4
      <3>2. Body(g, d + 1) = Body(h, d + 1)
        BY <1>1, <3>1
      <3> QED
        BY <2>1, <2>2, <3>1, <3>2
    <2> HIDE DEF T
    <2>5. Nat \subseteq T
      BY <2>3, <2>4, SetInduction
    <2> QED
      BY <2>5 DEF T
  <1>8. \A d \in Nat : full[d] = Body(full, d)
    <2> TAKE d \in Nat
    <2>1. Upto(d, Least(d)) /\ d \in 0..d
      BY <1>6
    <2>2. full[d] = Body(Least(d), d)
      <3>1. full[d] = Least(d)[d]
        OBVIOUS
      <3> HIDE DEF Least
      <3> QED
        BY <2>1, <3>1
    <2>3. d # 0 => Least(d)[d - 1] = full[d - 1]
      <3> SUFFICES ASSUME d # 0
                   PROVE  Least(d)[d - 1] = Least(d - 1)[d - 1]
        OBVIOUS
      <3>1. d - 1 \in Nat /\ d - 1 <= d
        OBVIOUS
      <3>2. Upto(d - 1, Least(d - 1))
        BY <1>6, <3>1
      <3> HIDE DEF Upto, Least
      <3> QED
        BY <1>7, <2>1, <3>1, <3>2
    <2> HIDE DEF full, Least
    <2> QED
      BY <1>1, <2>2, <2>3
  <1>9. full = [d \in Nat |-> Body(full, d)]
    BY <1>8
  <1>10. After = [d \in Nat |-> Body(After, d)]
    <2> HIDE DEF full
    <2> QED
      BY <1>2, <1>9, Zenon
  <1> QED
    BY <1>10 DEF Body

LEMMA MostEquation ==
    Most = [depth \in Nat |->
        [stmt \in Statements[depth] |->
            IF stmt.kind = "accept" THEN 1
            ELSE IF stmt.kind = "match" THEN Max({InAll(Most[depth - 1], branch) : branch \in Range(stmt.branches)})
            ELSE 0]]
  <1> DEFINE Body(f, d) ==
                 [stmt \in Statements[d] |->
            IF stmt.kind = "accept" THEN 1
            ELSE IF stmt.kind = "match" THEN Max({InAll(f[d - 1], branch) : branch \in Range(stmt.branches)})
            ELSE 0]
             Upto(n, g) == g = [d \in 0..n |-> Body(g, d)]
             S == {n \in Nat : \E g : Upto(n, g)}
             Least(n) == CHOOSE g : Upto(n, g)
             full == [d \in Nat |-> Least(d)[d]]
  <1>1. \A f, g : \A d \in Nat : (d # 0 => f[d - 1] = g[d - 1]) => Body(f, d) = Body(g, d)
    <2> SUFFICES ASSUME NEW f, NEW g, NEW d \in Nat, d # 0 => f[d - 1] = g[d - 1]
                 PROVE  Body(f, d) = Body(g, d)
      OBVIOUS
    <2>1. CASE d # 0
      <3>1. PICK before : before = f[d - 1] /\ before = g[d - 1]
        BY <2>1
      <3> QED
        BY <3>1
    <2>2. CASE d = 0
      <3>1. \A stmt \in Statements[d] : stmt.kind # "match"
        BY <2>2, StatementLevels DEF Accept, Throw
      <3> QED
        BY <3>1
    <2> QED
      BY <2>1, <2>2
  <1>2. Most = CHOOSE f : f = [d \in Nat |-> Body(f, d)]
    BY DEF Most
  <1> HIDE DEF Body
  <1>3. 0 \in S
    <2> DEFINE g == [d \in 0..0 |-> Body(<<>>, d)]
    <2>1. \A d \in 0..0 : d \in Nat /\ d = 0
      OBVIOUS
    <2>2. \A d \in 0..0 : Body(<<>>, d) = Body(g, d)
      <3> HIDE DEF g
      <3> QED
        BY <1>1, <2>1
    <2> QED
      BY <2>2
  <1>4. ASSUME NEW n \in Nat, n \in S
        PROVE  n + 1 \in S
    <2>1. PICK g : Upto(n, g)
      BY <1>4
    <2>2. PICK h : h = [d \in 0..(n + 1) |-> IF d = n + 1 THEN Body(g, n + 1) ELSE g[d]]
      OBVIOUS
    <2>3. \A d \in 0..n : d \in 0..(n + 1) /\ d # n + 1 /\ d \in Nat
      OBVIOUS
    <2>4. \A d \in 0..n : h[d] = g[d]
      BY <2>2, <2>3
    <2>5. \A d \in 0..(n + 1) : d \in Nat /\ (d # 0 => d - 1 \in 0..n) /\ (d # n + 1 => d \in 0..n)
      OBVIOUS
    <2>6. \A d \in 0..(n + 1) : Body(g, d) = Body(h, d)
      BY <1>1, <2>4, <2>5
    <2>7. \A d \in 0..n : g[d] = Body(g, d)
      BY <2>1
    <2>8. \A d \in 0..(n + 1) : h[d] = Body(h, d)
      BY <2>2, <2>5, <2>6, <2>7
    <2>9. Upto(n + 1, h)
      BY <2>2, <2>8
    <2> QED
      BY <2>9
  <1>5. Nat \subseteq S
    <2> HIDE DEF S
    <2> QED
      BY <1>3, <1>4, SetInduction
  <1>6. \A n \in Nat : Upto(n, Least(n))
    <2> HIDE DEF Upto
    <2> QED
      BY <1>5
  <1>7. ASSUME NEW m \in Nat, NEW n \in Nat, NEW g, NEW h, Upto(m, g), Upto(n, h)
        PROVE  \A d \in Nat : d <= m /\ d <= n => g[d] = h[d]
    <2> DEFINE T == {d \in Nat : d <= m /\ d <= n => g[d] = h[d]}
    <2>1. \A d \in 0..m : g[d] = Body(g, d)
      BY <1>7
    <2>2. \A d \in 0..n : h[d] = Body(h, d)
      BY <1>7
    <2>3. 0 \in T
      <3>1. Body(g, 0) = Body(h, 0)
        BY <1>1
      <3> QED
        BY <2>1, <2>2, <3>1
    <2>4. ASSUME NEW d \in Nat, d \in T
          PROVE  d + 1 \in T
      <3> SUFFICES ASSUME d + 1 <= m, d + 1 <= n
                   PROVE  g[d + 1] = h[d + 1]
        OBVIOUS
      <3>1. d + 1 \in 0..m /\ d + 1 \in 0..n /\ (d + 1) - 1 = d /\ g[d] = h[d] /\ d + 1 \in Nat
        BY <2>4
      <3>2. Body(g, d + 1) = Body(h, d + 1)
        BY <1>1, <3>1
      <3> QED
        BY <2>1, <2>2, <3>1, <3>2
    <2> HIDE DEF T
    <2>5. Nat \subseteq T
      BY <2>3, <2>4, SetInduction
    <2> QED
      BY <2>5 DEF T
  <1>8. \A d \in Nat : full[d] = Body(full, d)
    <2> TAKE d \in Nat
    <2>1. Upto(d, Least(d)) /\ d \in 0..d
      BY <1>6
    <2>2. full[d] = Body(Least(d), d)
      <3>1. full[d] = Least(d)[d]
        OBVIOUS
      <3> HIDE DEF Least
      <3> QED
        BY <2>1, <3>1
    <2>3. d # 0 => Least(d)[d - 1] = full[d - 1]
      <3> SUFFICES ASSUME d # 0
                   PROVE  Least(d)[d - 1] = Least(d - 1)[d - 1]
        OBVIOUS
      <3>1. d - 1 \in Nat /\ d - 1 <= d
        OBVIOUS
      <3>2. Upto(d - 1, Least(d - 1))
        BY <1>6, <3>1
      <3> HIDE DEF Upto, Least
      <3> QED
        BY <1>7, <2>1, <3>1, <3>2
    <2> HIDE DEF full, Least
    <2> QED
      BY <1>1, <2>2, <2>3
  <1>9. full = [d \in Nat |-> Body(full, d)]
    BY <1>8
  <1>10. Most = [d \in Nat |-> Body(Most, d)]
    <2> HIDE DEF full
    <2> QED
      BY <1>2, <1>9, Zenon
  <1> QED
    BY <1>10 DEF Body

-----------------------------------------------------------------------------
(* The statements of one depth, and what becomes of each.                   *)

LEMMA StatementSorts ==
    ASSUME NEW n \in Nat, NEW stmt \in Statements[n]
    PROVE  \/ stmt = Accept
           \/ stmt = Throw
           \/ /\ n - 1 \in Nat /\ stmt.kind = "match"
              /\ stmt.branches \in Seq(Seq(Statements[n - 1])) \ {<<>>}
  <1>1. CASE n = 0
    BY <1>1, StatementLevels
  <1>2. CASE n # 0
    <2>1. n - 1 \in Nat /\ (n - 1) + 1 = n
      BY <1>2
    <2>2. stmt \in {Accept, Throw} \cup [kind : {"match"}, branches : Seq(Seq(Statements[n - 1])) \ {<<>>}]
      BY <2>1, StatementLevels
    <2> QED
      BY <2>1, <2>2
  <1> QED
    BY <1>1, <1>2

LEMMA SimpleStatements ==
    ASSUME NEW n \in Nat
    PROVE  /\ Accept \in Statements[n] /\ Throw \in Statements[n]
           /\ Accept.kind = "accept" /\ Throw.kind = "throw"
  <1>1. Accept \in Statements[n] /\ Throw \in Statements[n]
    <2>1. CASE n = 0
      BY <2>1, StatementLevels
    <2>2. CASE n # 0
      <3>1. n - 1 \in Nat /\ (n - 1) + 1 = n
        BY <2>2
      <3>2. Statements[n] =
               {Accept, Throw} \cup [kind : {"match"}, branches : Seq(Seq(Statements[n - 1])) \ {<<>>}]
        BY <3>1, StatementLevels
      <3> QED
        BY <3>2
    <2> QED
      BY <2>1, <2>2
  <1> QED
    BY <1>1 DEF Accept, Throw

LEMMA MatchStatements ==
    ASSUME NEW n \in Nat, NEW stmt \in Statements[n + 1], stmt.kind = "match"
    PROVE  stmt.branches \in Seq(Seq(Statements[n])) \ {<<>>}
  <1>1. n + 1 \in Nat /\ (n + 1) - 1 = n
    OBVIOUS
  <1> QED
    BY <1>1, StatementSorts, SimpleStatements

LEMMA AfterStatement ==
    ASSUME NEW n \in Nat, NEW seen \in Seq(Nat)
    PROVE  /\ After[n][Accept][seen] = [i \in 1..Len(seen) |-> seen[i] + 1]
           /\ After[n][Throw][seen] = seen
           /\ \A stmt \in Statements[n] :
                stmt.kind = "match" => After[n][stmt][seen] = WalkBranches(After[n - 1], seen, stmt.branches)
  <1>1. After[n] = [stmt \in Statements[n] |-> [seen_1 \in Seq(Nat) |->
            IF stmt.kind = "accept" THEN [i \in 1..Len(seen_1) |-> seen_1[i] + 1]
            ELSE IF stmt.kind = "match" THEN WalkBranches(After[n - 1], seen_1, stmt.branches)
            ELSE seen_1]]
    BY AfterEquation, Zenon
  <1>2. ASSUME NEW stmt \in Statements[n]
        PROVE  After[n][stmt][seen] =
                 IF stmt.kind = "accept" THEN [i \in 1..Len(seen) |-> seen[i] + 1]
                 ELSE IF stmt.kind = "match" THEN WalkBranches(After[n - 1], seen, stmt.branches)
                 ELSE seen
    <2>1. PICK before : before = After[n - 1]
      OBVIOUS
    <2> QED
      BY <1>1, <2>1
  <1> QED
    BY <1>2, SimpleStatements

LEMMA MostOfStatement ==
    ASSUME NEW n \in Nat
    PROVE  /\ Most[n][Accept] = 1 /\ Most[n][Throw] = 0
           /\ \A stmt \in Statements[n] :
                stmt.kind = "match" =>
                  Most[n][stmt] = Max({InAll(Most[n - 1], branch) : branch \in Range(stmt.branches)})
  <1>1. Most[n] = [stmt \in Statements[n] |->
            IF stmt.kind = "accept" THEN 1
            ELSE IF stmt.kind = "match" THEN Max({InAll(Most[n - 1], branch) : branch \in Range(stmt.branches)})
            ELSE 0]
    BY MostEquation, Zenon
  <1>2. ASSUME NEW stmt \in Statements[n]
        PROVE  Most[n][stmt] =
                 IF stmt.kind = "accept" THEN 1
                 ELSE IF stmt.kind = "match" THEN Max({InAll(Most[n - 1], branch) : branch \in Range(stmt.branches)})
                 ELSE 0
    BY <1>1, Zenon
  <1> QED
    BY <1>2, SimpleStatements

LEMMA LevelDomains ==
    ASSUME NEW n \in Nat
    PROVE  /\ After[n] = [stmt \in Statements[n] |-> After[n][stmt]]
           /\ \A stmt \in Statements[n] : After[n][stmt] = [seen \in Seq(Nat) |-> After[n][stmt][seen]]
           /\ Most[n] = [stmt \in Statements[n] |-> Most[n][stmt]]
  <1>1. After[n] = [stmt \in Statements[n] |-> [seen_1 \in Seq(Nat) |->
            IF stmt.kind = "accept" THEN [i \in 1..Len(seen_1) |-> seen_1[i] + 1]
            ELSE IF stmt.kind = "match" THEN WalkBranches(After[n - 1], seen_1, stmt.branches)
            ELSE seen_1]]
    BY AfterEquation, Zenon
  <1>2. Most[n] = [stmt \in Statements[n] |->
            IF stmt.kind = "accept" THEN 1
            ELSE IF stmt.kind = "match" THEN Max({InAll(Most[n - 1], branch) : branch \in Range(stmt.branches)})
            ELSE 0]
    BY MostEquation, Zenon
  <1> QED
    BY <1>1, <1>2

-----------------------------------------------------------------------------
(* Sums and joins. *)

LEMMA SumExists ==
    ASSUME NEW n \in Nat, NEW s \in [1..n -> Nat]
    PROVE  \E g \in [0..n -> Nat] :
              g[0] = 0 /\ (\A k \in 1..n : g[k] = g[k - 1] + s[k]) /\ FoldLeft(+, 0, s) = g[n]
  <1> DEFINE Step == [b \in Nat |-> [z \in Nat |-> z + b]]
  <1>1. Step \in [Nat -> [Nat -> Nat]] /\ \A b \in Nat, z \in Nat : Step[b][z] = z + b
    OBVIOUS
  <1> HIDE DEF Step
  <1>2. PICK g : Accumulates(g, Nat, Step, 0, n, s)
    <2>1. 0 \in Nat
      OBVIOUS
    <2> QED
      BY <1>1, <2>1, FoldSteps
  <1>3. g \in [0..n -> Nat] /\ g[0] = 0
    BY <1>2 DEF Accumulates
  <1>4. \A k \in 1..n : g[k] = g[k - 1] + s[k]
    <2> TAKE k \in 1..n
    <2>1. s[k] \in Nat /\ k - 1 \in 0..n /\ g[k - 1] \in Nat
      BY <1>3
    <2>2. g[k] = Step[s[k]][g[k - 1]]
      BY <1>2 DEF Accumulates
    <2> QED
      BY <1>1, <2>1, <2>2
  <1> QED
    BY <1>3, <1>4, Sums

LEMMA JoinedRange ==
    ASSUME NEW F, NEW s \in Seq(F), NEW t \in Seq(F), NEW e
    PROVE  e \in Range(s \o t) <=> e \in Range(s) \/ e \in Range(t)
  <1>1. s \o t \in Seq(F) /\ Len(s \o t) = Len(s) + Len(t) /\ Len(s) \in Nat /\ Len(t) \in Nat
    OBVIOUS
  <1>2. \A i \in 1..Len(s) : i \in 1..Len(s \o t) /\ (s \o t)[i] = s[i]
    BY <1>1
  <1>3. \A i \in 1..Len(t) : Len(s) + i \in 1..Len(s \o t) /\ (s \o t)[Len(s) + i] = t[i]
    BY <1>1
  <1>4. \A i \in 1..Len(s \o t) : i \in 1..Len(s) \/ (i - Len(s) \in 1..Len(t) /\ i = Len(s) + (i - Len(s)))
    BY <1>1
  <1>5. /\ DOMAIN s = 1..Len(s) /\ DOMAIN t = 1..Len(t) /\ DOMAIN (s \o t) = 1..Len(s \o t)
    BY <1>1
  <1>6. PICK u : u = s \o t
    OBVIOUS
  <1>7. /\ \A i \in 1..Len(s) : i \in DOMAIN u /\ u[i] = s[i]
        /\ \A i \in 1..Len(t) : Len(s) + i \in DOMAIN u /\ u[Len(s) + i] = t[i]
        /\ \A i \in DOMAIN u : i \in 1..Len(s) \/ (i - Len(s) \in 1..Len(t) /\ i = Len(s) + (i - Len(s)))
    BY <1>2, <1>3, <1>4, <1>5, <1>6
  <1>8. e \in Range(u) <=> e \in Range(s) \/ e \in Range(t)
    BY ONLY <1>5, <1>7 DEF Range
  <1> QED
    BY <1>6, <1>8

LEMMA JoinOf ==
    ASSUME NEW F, NEW n \in Nat, NEW s \in [1..n -> Seq(F)]
    PROVE  /\ FoldLeft(\o, <<>>, s) \in Seq(F)
           /\ \A e : e \in Range(FoldLeft(\o, <<>>, s)) <=> \E i \in 1..n : e \in Range(s[i])
  <1> DEFINE Step == [b \in Seq(F) |-> [z \in Seq(F) |-> z \o b]]
  <1>1. Step \in [Seq(F) -> [Seq(F) -> Seq(F)]] /\ \A b \in Seq(F), z \in Seq(F) : Step[b][z] = z \o b
    OBVIOUS
  <1> HIDE DEF Step
  <1>2. PICK g : Accumulates(g, Seq(F), Step, <<>>, n, s)
    <2>1. <<>> \in Seq(F)
      OBVIOUS
    <2> QED
      BY <1>1, <2>1, FoldSteps
  <1>3. g \in [0..n -> Seq(F)] /\ g[0] = <<>>
    BY <1>2 DEF Accumulates
  <1>4. \A k \in 1..n : g[k] = g[k - 1] \o s[k]
    <2> TAKE k \in 1..n
    <2>1. s[k] \in Seq(F) /\ k - 1 \in 0..n /\ g[k - 1] \in Seq(F)
      BY <1>3
    <2>2. g[k] = Step[s[k]][g[k - 1]]
      BY <1>2 DEF Accumulates
    <2> QED
      BY <1>1, <2>1, <2>2
  <1>5. FoldLeft(\o, <<>>, s) = g[n]
    BY <1>3, <1>4, Concatenation
  <1> DEFINE S == {k \in Nat : k <= n => \A e : e \in Range(g[k]) <=> \E i \in 1..k : e \in Range(s[i])}
  <1>6. 0 \in S
    BY <1>3 DEF Range
  <1>7. ASSUME NEW k \in Nat, k \in S
        PROVE  k + 1 \in S
    <2> SUFFICES ASSUME k + 1 <= n, NEW e
                 PROVE  e \in Range(g[k + 1]) <=> \E i \in 1..(k + 1) : e \in Range(s[i])
      OBVIOUS
    <2>1. k + 1 \in 1..n /\ (k + 1) - 1 = k /\ k \in 0..n
      OBVIOUS
    <2>2. g[k] \in Seq(F) /\ s[k + 1] \in Seq(F) /\ g[k + 1] = g[k] \o s[k + 1]
      BY <1>3, <1>4, <2>1
    <2>3. e \in Range(g[k + 1]) <=> e \in Range(g[k]) \/ e \in Range(s[k + 1])
      BY <2>2, JoinedRange
    <2>4. e \in Range(g[k]) <=> \E i \in 1..k : e \in Range(s[i])
      BY <1>7, <2>1
    <2>5. \A i : i \in 1..(k + 1) <=> i \in 1..k \/ i = k + 1
      OBVIOUS
    <2> QED
      BY <2>3, <2>4, <2>5
  <1> HIDE DEF S
  <1>8. n \in S
    BY <1>6, <1>7, SetInduction
  <1>9. n \in 0..n /\ n <= n
    OBVIOUS
  <1>10. \A e : e \in Range(g[n]) <=> \E i \in 1..n : e \in Range(s[i])
    BY <1>8, <1>9 DEF S
  <1> QED
    BY <1>3, <1>5, <1>9, <1>10

-----------------------------------------------------------------------------
(* From the paths seen to the paths r, at most m accepts are added, and to  *)
(* every path there is one on which m are.                                  *)
Raised(r, seen, m) ==
    /\ r \in Seq(Nat)
    /\ \A p \in Range(r) : \E q \in Range(seen) : p <= q + m
    /\ \A q \in Range(seen) : q + m \in Range(r)

LEMMA PathsAreNumbers ==
    ASSUME NEW seen \in Seq(Nat), NEW q \in Range(seen)
    PROVE  q \in Nat
  BY DEF Range

LEMMA NothingRaised ==
    ASSUME NEW seen \in Seq(Nat)
    PROVE  Raised(seen, seen, 0)
  <1>1. \A q \in Range(seen) : q \in Nat /\ q + 0 = q /\ q <= q + 0
    BY PathsAreNumbers
  <1> QED
    BY <1>1 DEF Raised

LEMMA OneRaised ==
    ASSUME NEW seen \in Seq(Nat)
    PROVE  Raised([i \in 1..Len(seen) |-> seen[i] + 1], seen, 1)
  <1> DEFINE r == [i \in 1..Len(seen) |-> seen[i] + 1]
  <1>1. Len(seen) \in Nat /\ DOMAIN seen = 1..Len(seen) /\ \A i \in 1..Len(seen) : seen[i] \in Nat
    OBVIOUS
  <1>2. r \in [1..Len(seen) -> Nat]
    BY <1>1
  <1>3. r \in Seq(Nat)
    BY <1>1, <1>2, SeqDef
  <1>4. DOMAIN r = 1..Len(seen) /\ \A i \in 1..Len(seen) : r[i] = seen[i] + 1
    OBVIOUS
  <1> HIDE DEF r
  <1>5. \A p \in Range(r) : \E q \in Range(seen) : p <= q + 1
    BY <1>1, <1>4 DEF Range
  <1>6. \A q \in Range(seen) : q + 1 \in Range(r)
    BY <1>1, <1>4 DEF Range
  <1>7. Raised(r, seen, 1)
    BY <1>3, <1>5, <1>6 DEF Raised
  <1> QED
    BY <1>7 DEF r

LEMMA RaisedTwice ==
    ASSUME NEW seen \in Seq(Nat), NEW r, NEW t, NEW m \in Nat, NEW n \in Nat,
           Raised(r, seen, m), Raised(t, r, n)
    PROVE  Raised(t, seen, m + n)
  <1>1. r \in Seq(Nat) /\ t \in Seq(Nat)
    BY DEF Raised
  <1>2. ASSUME NEW p \in Range(t)
        PROVE  \E q \in Range(seen) : p <= q + (m + n)
    <2>1. PICK o \in Range(r) : p <= o + n
      BY DEF Raised
    <2>2. PICK q \in Range(seen) : o <= q + m
      BY DEF Raised
    <2>3. p \in Nat /\ o \in Nat /\ q \in Nat
      BY <1>1, PathsAreNumbers
    <2>4. p <= q + (m + n)
      BY <2>1, <2>2, <2>3
    <2> QED
      BY <2>4
  <1>3. ASSUME NEW q \in Range(seen)
        PROVE  q + (m + n) \in Range(t)
    <2>1. q \in Nat /\ (q + m) + n = q + (m + n)
      BY PathsAreNumbers
    <2>2. q + m \in Range(r)
      BY DEF Raised
    <2>3. (q + m) + n \in Range(t)
      BY <2>2 DEF Raised
    <2> QED
      BY <2>1, <2>3
  <1> QED
    BY <1>1, <1>2, <1>3 DEF Raised

(* after and most fit: what after makes of the paths is most more.          *)
Fit(S, after, most) ==
    /\ after \in [S -> [Seq(Nat) -> Seq(Nat)]] /\ most \in [S -> Nat]
    /\ \A stmt \in S, seen \in Seq(Nat) : Raised(after[stmt][seen], seen, most[stmt])

(* The accepts of the first statements, for each number of them.            *)
Totals(g, most, stmts) ==
    /\ g \in [0..Len(stmts) -> Nat] /\ g[0] = 0 /\ InAll(most, stmts) = g[Len(stmts)]
    /\ \A k \in 1..Len(stmts) : g[k] = g[k - 1] + most[stmts[k]]

LEMMA TotalsExist ==
    ASSUME NEW S, NEW most \in [S -> Nat], NEW stmts \in Seq(S)
    PROVE  \E g : Totals(g, most, stmts)
  <1>1. PICK n \in Nat : n = Len(stmts)
    OBVIOUS
  <1>2. \A i \in 1..n : stmts[i] \in S /\ most[stmts[i]] \in Nat
    BY <1>1
  <1>3. PICK s : s = [i \in 1..n |-> most[stmts[i]]]
    OBVIOUS
  <1>4. s \in [1..n -> Nat] /\ \A i \in 1..n : s[i] = most[stmts[i]]
    BY <1>2, <1>3
  <1>5. PICK g \in [0..n -> Nat] :
          g[0] = 0 /\ (\A k \in 1..n : g[k] = g[k - 1] + s[k]) /\ FoldLeft(+, 0, s) = g[n]
    BY <1>4, SumExists
  <1>6. InAll(most, stmts) = g[n]
    BY <1>1, <1>3, <1>5 DEF InAll
  <1>7. \A k \in 1..n : g[k] = g[k - 1] + most[stmts[k]]
    BY <1>4, <1>5
  <1> QED
    BY <1>1, <1>5, <1>6, <1>7 DEF Totals

LEMMA StepsOfFold ==
    ASSUME NEW S, NEW R, NEW after \in [S -> [R -> R]], NEW n \in Nat, NEW stmts \in Seq(S),
           n = Len(stmts), NEW seen \in R
    PROVE  \E g : Accumulates(g, R, after, seen, n, stmts) /\ FoldWith(after, seen, stmts) = g[n]
  <1>1. stmts \in [1..n -> S]
    OBVIOUS
  <1> QED
    BY <1>1, FoldSteps

LEMMA WalkRaises ==
    ASSUME NEW S, NEW after, NEW most, Fit(S, after, most), NEW stmts \in Seq(S), NEW seen \in Seq(Nat)
    PROVE  /\ InAll(most, stmts) \in Nat
           /\ Raised(Walk(after, seen, stmts), seen, InAll(most, stmts))
  <1>1. PICK n \in Nat : n = Len(stmts)
    OBVIOUS
  <1>2. /\ after \in [S -> [Seq(Nat) -> Seq(Nat)]] /\ most \in [S -> Nat]
        /\ \A stmt \in S, some \in Seq(Nat) : Raised(after[stmt][some], some, most[stmt])
    BY DEF Fit
  <1>3. stmts \in [1..n -> S]
    BY <1>1
  <1>4. PICK g : Accumulates(g, Seq(Nat), after, seen, n, stmts) /\ FoldWith(after, seen, stmts) = g[n]
    <2>1. \A R : after \in [S -> [R -> R]] /\ seen \in R =>
              \E f : Accumulates(f, R, after, seen, n, stmts) /\ FoldWith(after, seen, stmts) = f[n]
      BY <1>1, StepsOfFold
    <2> QED
      BY <1>2, <2>1
  <1>5. PICK h \in [0..n -> Nat] :
          /\ h[0] = 0 /\ InAll(most, stmts) = h[n]
          /\ \A k \in 1..n : h[k] = h[k - 1] + most[stmts[k]]
    <2>1. \E f : Totals(f, most, stmts)
      BY <1>2, TotalsExist
    <2> QED
      BY ONLY <1>1, <2>1 DEF Totals
  <1>6. Walk(after, seen, stmts) = g[n]
    BY <1>4 DEF Walk, FoldWith
  <1>7. /\ g \in [0..n -> Seq(Nat)] /\ g[0] = seen
        /\ \A k \in 1..n : g[k] = after[stmts[k]][g[k - 1]]
    BY <1>4 DEF Accumulates
  <1> DEFINE T == {k \in Nat : k <= n => Raised(g[k], seen, h[k])}
  <1>8. 0 \in T
    BY <1>5, <1>7, NothingRaised
  <1>9. ASSUME NEW k \in Nat, k \in T
        PROVE  k + 1 \in T
    <2> SUFFICES ASSUME k + 1 <= n
                 PROVE  Raised(g[k + 1], seen, h[k + 1])
      OBVIOUS
    <2>1. k + 1 \in 1..n /\ (k + 1) - 1 = k /\ k \in 0..n
      OBVIOUS
    <2>2. PICK r, m, d : r = g[k] /\ m = h[k] /\ d = most[stmts[k + 1]]
      OBVIOUS
    <2>3. r \in Seq(Nat) /\ m \in Nat /\ d \in Nat /\ stmts[k + 1] \in S
      BY <1>2, <1>5, <1>3, <1>7, <2>1, <2>2
    <2>4. Raised(r, seen, m)
      BY <1>9, <2>1, <2>2
    <2>5. g[k + 1] = after[stmts[k + 1]][r] /\ h[k + 1] = m + d
      BY <1>5, <1>7, <2>1, <2>2
    <2>6. Raised(g[k + 1], r, d)
      BY <1>2, <2>2, <2>3, <2>5
    <2> QED
      BY <2>3, <2>4, <2>5, <2>6, RaisedTwice
  <1> HIDE DEF T
  <1>10. n \in T
    BY <1>8, <1>9, SetInduction
  <1>11. n \in 0..n /\ n <= n
    OBVIOUS
  <1>12. Raised(g[n], seen, h[n]) /\ h[n] \in Nat
    BY <1>5, <1>10, <1>11 DEF T
  <1> QED
    BY <1>5, <1>6, <1>12

LEMMA LargestValue ==
    ASSUME NEW n \in Nat, n # 0, NEW v \in [1..n -> Nat]
    PROVE  \E j \in 1..n : \A i \in 1..n : v[i] <= v[j]
  <1> DEFINE T == {k \in Nat : k # 0 /\ k <= n => \E j \in 1..k : \A i \in 1..k : v[i] <= v[j]}
  <1>1. 0 \in T
    OBVIOUS
  <1>2. ASSUME NEW k \in Nat, k \in T
        PROVE  k + 1 \in T
    <2> SUFFICES ASSUME k + 1 <= n
                 PROVE  \E j \in 1..(k + 1) : \A i \in 1..(k + 1) : v[i] <= v[j]
      OBVIOUS
    <2>1. k + 1 \in 1..n /\ v[k + 1] \in Nat
      OBVIOUS
    <2>2. \A i \in 1..(k + 1) : i = k + 1 \/ i \in 1..k
      OBVIOUS
    <2>3. \A i \in 1..k : i \in 1..n /\ i \in 1..(k + 1) /\ v[i] \in Nat
      OBVIOUS
    <2>4. k + 1 \in 1..(k + 1)
      OBVIOUS
    <2>5. CASE k = 0
      BY <2>1, <2>2, <2>4, <2>5
    <2>6. CASE k # 0
      <3>1. PICK j \in 1..k : \A i \in 1..k : v[i] <= v[j]
        BY <1>2, <2>1, <2>6
      <3>2. CASE v[j] <= v[k + 1]
        <4>1. \A i \in 1..k : v[i] <= v[k + 1]
          BY <2>1, <2>3, <3>1, <3>2
        <4>2. \A i \in 1..(k + 1) : v[i] <= v[k + 1]
          BY <2>1, <2>2, <4>1
        <4> QED
          BY <2>4, <4>2
      <3>3. CASE ~(v[j] <= v[k + 1])
        <4>1. v[k + 1] <= v[j]
          BY <2>1, <2>3, <3>3
        <4>2. \A i \in 1..(k + 1) : v[i] <= v[j]
          BY <2>2, <3>1, <4>1
        <4> QED
          BY <2>3, <4>2
      <3> QED
        BY <3>2, <3>3
    <2> QED
      BY <2>5, <2>6
  <1> HIDE DEF T
  <1>3. n \in T
    BY <1>1, <1>2, SetInduction
  <1> QED
    BY <1>3 DEF T

(* The branches of a match: one of them has the most accepts.               *)
MostOfBranches(most, branches) == Max({InAll(most, branch) : branch \in Range(branches)})

LEMMA BranchesRange ==
    ASSUME NEW F, NEW branches \in Seq(F) \ {<<>>}
    PROVE  \E n \in Nat \ {0} : /\ n = Len(branches) /\ branches \in [1..n -> F]
                                /\ Range(branches) = {branches[i] : i \in 1..n}
  BY EmptySeq DEF Range

LEMMA SomeBranchHasMost ==
    ASSUME NEW S, NEW most \in [S -> Nat], NEW branches \in Seq(Seq(S)) \ {<<>>},
           \A stmts \in Seq(S) : InAll(most, stmts) \in Nat
    PROVE  /\ MostOfBranches(most, branches) \in Nat
           /\ \A branch \in Range(branches) : InAll(most, branch) <= MostOfBranches(most, branches)
           /\ \E branch \in Range(branches) : MostOfBranches(most, branches) = InAll(most, branch)
  <1>1. PICK n \in Nat \ {0} : /\ n = Len(branches) /\ branches \in [1..n -> Seq(S)]
                               /\ Range(branches) = {branches[i] : i \in 1..n}
    BY BranchesRange
  <1>2. PICK v : v = [i \in 1..n |-> InAll(most, branches[i])]
    OBVIOUS
  <1>3. v \in [1..n -> Nat] /\ \A i \in 1..n : v[i] = InAll(most, branches[i])
    BY <1>1, <1>2
  <1>4. PICK j \in 1..n : \A i \in 1..n : v[i] <= v[j]
    BY <1>1, <1>3, LargestValue
  <1>5. PICK T : T = {InAll(most, branch) : branch \in Range(branches)}
    OBVIOUS
  <1>6. v[j] \in T /\ \A k \in T : v[j] >= k /\ k \in Int
    <2>1. v[j] \in T
      BY <1>1, <1>3, <1>5
    <2>2. ASSUME NEW k \in T
          PROVE  v[j] >= k /\ k \in Int
      <3>1. PICK i \in 1..n : k = v[i]
        BY <1>1, <1>3, <1>5
      <3>2. v[i] \in Nat /\ v[j] \in Nat
        BY <1>3
      <3> QED
        BY <1>4, <3>1, <3>2
    <2> QED
      BY <2>1, <2>2
  <1>7. MostOfBranches(most, branches) = v[j]
    BY <1>5, <1>6, MaxIs DEF MostOfBranches
  <1>8. v[j] \in Nat /\ v[j] = InAll(most, branches[j]) /\ branches[j] \in Range(branches)
    BY <1>1, <1>3
  <1>9. \A branch \in Range(branches) : InAll(most, branch) <= v[j]
    BY <1>1, <1>3, <1>4
  <1> QED
    BY <1>7, <1>8, <1>9

LEMMA BranchesRaise ==
    ASSUME NEW S, NEW after, NEW most, Fit(S, after, most),
           NEW branches \in Seq(Seq(S)) \ {<<>>}, NEW seen \in Seq(Nat)
    PROVE  /\ MostOfBranches(most, branches) \in Nat
           /\ Raised(WalkBranches(after, seen, branches), seen, MostOfBranches(most, branches))
  <1>1. most \in [S -> Nat]
    BY DEF Fit
  <1>2. \A stmts \in Seq(S) : /\ InAll(most, stmts) \in Nat
                              /\ Raised(Walk(after, seen, stmts), seen, InAll(most, stmts))
    BY WalkRaises
  <1>3. PICK m : m = MostOfBranches(most, branches)
    OBVIOUS
  <1>4. /\ m \in Nat
        /\ \A branch \in Range(branches) : InAll(most, branch) <= m
        /\ \E branch \in Range(branches) : m = InAll(most, branch)
    BY <1>1, <1>2, <1>3, SomeBranchHasMost
  <1>5. PICK n \in Nat \ {0} : /\ n = Len(branches) /\ branches \in [1..n -> Seq(S)]
                               /\ Range(branches) = {branches[i] : i \in 1..n}
    BY BranchesRange
  <1>6. PICK s : s = [i \in 1..n |-> Walk(after, seen, branches[i])]
    OBVIOUS
  <1>7. \A i \in 1..n : /\ s[i] \in Seq(Nat) /\ branches[i] \in Seq(S) /\ branches[i] \in Range(branches)
                        /\ Raised(s[i], seen, InAll(most, branches[i]))
    BY <1>2, <1>5, <1>6 DEF Raised
  <1>8. s \in [1..n -> Seq(Nat)]
    BY <1>6, <1>7
  <1>9. PICK r : r = WalkBranches(after, seen, branches)
    OBVIOUS
  <1>10. r \in Seq(Nat) /\ \A e : e \in Range(r) <=> \E i \in 1..n : e \in Range(s[i])
    <2>1. r = FoldLeft(\o, <<>>, s)
      BY <1>5, <1>6, <1>9 DEF WalkBranches
    <2> QED
      BY <1>8, <2>1, JoinOf
  <1>11. ASSUME NEW p \in Range(r)
         PROVE  \E q \in Range(seen) : p <= q + m
    <2>1. PICK i \in 1..n : p \in Range(s[i])
      BY <1>10
    <2>2. PICK d : d = InAll(most, branches[i])
      OBVIOUS
    <2>3. d \in Nat /\ d <= m
      BY <1>2, <1>4, <1>7, <2>2
    <2>4. PICK q \in Range(seen) : p <= q + d
      BY <1>7, <2>1, <2>2 DEF Raised
    <2>5. p \in Nat /\ q \in Nat
      BY <1>10, PathsAreNumbers
    <2>6. p <= q + m
      BY <1>4, <2>3, <2>4, <2>5
    <2> QED
      BY <2>6
  <1>12. ASSUME NEW q \in Range(seen)
         PROVE  q + m \in Range(r)
    <2>1. PICK i \in 1..n : m = InAll(most, branches[i])
      BY <1>4, <1>5
    <2>2. q + m \in Range(s[i])
      BY <1>7, <2>1 DEF Raised
    <2> QED
      BY <1>10, <2>2
  <1> QED
    BY <1>3, <1>4, <1>9, <1>10, <1>11, <1>12 DEF Raised

-----------------------------------------------------------------------------
(* At every depth. *)

LEMMA MatchDeeper ==
    ASSUME NEW n \in Nat, NEW stmt \in Statements[n + 1], stmt.kind = "match"
    PROVE  /\ Most[n + 1][stmt] = MostOfBranches(Most[n], stmt.branches)
           /\ \A seen \in Seq(Nat) : After[n + 1][stmt][seen] = WalkBranches(After[n], seen, stmt.branches)
  <1>1. PICK k \in Nat : k = n + 1 /\ k - 1 = n
    OBVIOUS
  <1>2. stmt \in Statements[k]
    BY <1>1
  <1>3. Most[k][stmt] = MostOfBranches(Most[k - 1], stmt.branches)
    BY <1>2, MostOfStatement DEF MostOfBranches
  <1>4. \A seen \in Seq(Nat) : After[k][stmt][seen] = WalkBranches(After[k - 1], seen, stmt.branches)
    BY <1>2, AfterStatement
  <1> QED
    BY <1>1, <1>3, <1>4

LEMMA LevelsFit ==
    \A n \in Nat : Fit(Statements[n], After[n], Most[n])
  <1> DEFINE Good(n) == \A stmt \in Statements[n] :
                 /\ Most[n][stmt] \in Nat
                 /\ \A seen \in Seq(Nat) : Raised(After[n][stmt][seen], seen, Most[n][stmt])
             S == {n \in Nat : Good(n)}
  <1>1. ASSUME NEW n \in Nat, Good(n)
        PROVE  Fit(Statements[n], After[n], Most[n])
    <2>1. Most[n] \in [Statements[n] -> Nat]
      BY <1>1, LevelDomains
    <2>2. After[n] \in [Statements[n] -> [Seq(Nat) -> Seq(Nat)]]
      <3>1. ASSUME NEW stmt \in Statements[n]
            PROVE  After[n][stmt] \in [Seq(Nat) -> Seq(Nat)]
        <4>1. \A seen \in Seq(Nat) : After[n][stmt][seen] \in Seq(Nat)
          BY <1>1 DEF Raised
        <4>2. After[n][stmt] = [seen \in Seq(Nat) |-> After[n][stmt][seen]]
          BY LevelDomains
        <4> QED
          BY <4>1, <4>2
      <3> QED
        BY <3>1, LevelDomains
    <2> QED
      BY <1>1, <2>1, <2>2 DEF Fit
  <1>2. ASSUME NEW n \in Nat
        PROVE  /\ Most[n][Accept] \in Nat /\ Most[n][Throw] \in Nat
               /\ \A seen \in Seq(Nat) : /\ Raised(After[n][Accept][seen], seen, Most[n][Accept])
                                         /\ Raised(After[n][Throw][seen], seen, Most[n][Throw])
    <2>1. Most[n][Accept] = 1 /\ Most[n][Throw] = 0
      BY MostOfStatement
    <2>2. ASSUME NEW seen \in Seq(Nat)
          PROVE  Raised(After[n][Accept][seen], seen, 1) /\ Raised(After[n][Throw][seen], seen, 0)
      <3>1. After[n][Accept][seen] = [i \in 1..Len(seen) |-> seen[i] + 1] /\ After[n][Throw][seen] = seen
        BY AfterStatement
      <3>2. Raised([i \in 1..Len(seen) |-> seen[i] + 1], seen, 1) /\ Raised(seen, seen, 0)
        BY NothingRaised, OneRaised
      <3> QED
        BY <3>1, <3>2
    <2> QED
      BY <2>1, <2>2
  <1>3. 0 \in S
    <2>1. Good(0)
      BY <1>2, StatementLevels
    <2> QED
      BY <2>1
  <1>4. ASSUME NEW n \in Nat, n \in S
        PROVE  n + 1 \in S
    <2>1. Fit(Statements[n], After[n], Most[n])
      BY <1>1, <1>4
    <2>2. n + 1 \in Nat /\ (n + 1) - 1 = n
      OBVIOUS
    <2>3. ASSUME NEW stmt \in Statements[n + 1], stmt.kind = "match"
          PROVE  /\ Most[n + 1][stmt] \in Nat
                 /\ \A seen \in Seq(Nat) : Raised(After[n + 1][stmt][seen], seen, Most[n + 1][stmt])
      <3>1. PICK branches : branches = stmt.branches
        OBVIOUS
      <3>2. branches \in Seq(Seq(Statements[n])) \ {<<>>}
        BY <2>3, <3>1, MatchStatements
      <3>3. Most[n + 1][stmt] = MostOfBranches(Most[n], branches)
        BY <2>3, <3>1, MatchDeeper
      <3>4. \A seen \in Seq(Nat) : After[n + 1][stmt][seen] = WalkBranches(After[n], seen, branches)
        BY <2>3, <3>1, MatchDeeper
      <3>5. \A seen \in Seq(Nat) : /\ MostOfBranches(Most[n], branches) \in Nat
                                   /\ Raised(WalkBranches(After[n], seen, branches), seen,
                                             MostOfBranches(Most[n], branches))
        BY <2>1, <3>2, BranchesRaise
      <3>6. <<>> \in Seq(Nat)
        OBVIOUS
      <3> QED
        BY <3>3, <3>4, <3>5, <3>6
    <2>4. Good(n + 1)
      BY <1>2, <2>2, <2>3, StatementSorts
    <2> QED
      BY <2>2, <2>4
  <1>5. Nat \subseteq S
    <2> HIDE DEF S
    <2> QED
      BY <1>3, <1>4, SetInduction
  <1> QED
    BY <1>1, <1>5

LEMMA SeqsGrow ==
    ASSUME NEW F, NEW G, F \subseteq G
    PROVE  Seq(F) \subseteq Seq(G)
  BY SeqMonotonic

(* How deep matches may be nested elsewhere says nothing about a statement. *)
LEMMA MostAnywhere ==
    \A n \in Nat : \A stmt \in Statements[n] :
        stmt \in Statements[n + 1] /\ Most[n + 1][stmt] = Most[n][stmt]
  <1> DEFINE Good(n) == \A stmt \in Statements[n] :
                 stmt \in Statements[n + 1] /\ Most[n + 1][stmt] = Most[n][stmt]
             S == {n \in Nat : Good(n)}
  <1>1. ASSUME NEW n \in Nat
        PROVE  /\ Accept \in Statements[n + 1] /\ Most[n + 1][Accept] = Most[n][Accept]
               /\ Throw \in Statements[n + 1] /\ Most[n + 1][Throw] = Most[n][Throw]
    <2>1. n + 1 \in Nat
      OBVIOUS
    <2> QED
      BY <2>1, SimpleStatements, MostOfStatement
  <1>2. 0 \in S
    <2>1. Good(0)
      BY <1>1, StatementLevels
    <2> QED
      BY <2>1
  <1>3. ASSUME NEW n \in Nat, n \in S
        PROVE  n + 1 \in S
    <2>1. /\ n + 1 \in Nat /\ (n + 1) - 1 = n
          /\ (n + 1) + 1 \in Nat /\ ((n + 1) + 1) - 1 = n + 1
      OBVIOUS
    <2>2. Good(n)
      BY <1>3
    <2>3. ASSUME NEW stmts \in Seq(Statements[n])
          PROVE  InAll(Most[n + 1], stmts) = InAll(Most[n], stmts)
      <3>1. \A i \in 1..Len(stmts) : Most[n + 1][stmts[i]] = Most[n][stmts[i]]
        BY <2>2
      <3>2. [i \in 1..Len(stmts) |-> Most[n + 1][stmts[i]]] = [i \in 1..Len(stmts) |-> Most[n][stmts[i]]]
        BY <3>1
      <3> QED
        BY <3>2 DEF InAll
    <2>4. Statements[n] \subseteq Statements[n + 1]
      BY <2>2
    <2>5. Seq(Seq(Statements[n])) \subseteq Seq(Seq(Statements[n + 1]))
      BY <2>4, SeqsGrow
    <2>6. ASSUME NEW stmt \in Statements[n + 1], stmt.kind = "match"
          PROVE  stmt \in Statements[(n + 1) + 1] /\ Most[(n + 1) + 1][stmt] = Most[n + 1][stmt]
      <3>1. PICK branches : branches = stmt.branches
        OBVIOUS
      <3>2. branches \in Seq(Seq(Statements[n])) \ {<<>>}
        BY <2>6, <3>1, MatchStatements
      <3>3. branches \in Seq(Seq(Statements[n + 1])) \ {<<>>}
        BY <2>5, <3>2
      <3>4. stmt = [kind |-> "match", branches |-> branches]
        <4>1. stmt \in {Accept, Throw} \cup [kind : {"match"}, branches : Seq(Seq(Statements[n])) \ {<<>>}]
          BY StatementLevels
        <4>2. stmt # Accept /\ stmt # Throw
          BY <2>6 DEF Accept, Throw
        <4> QED
          BY <3>1, <4>1, <4>2
      <3>5. stmt \in Statements[(n + 1) + 1]
        <4>1. stmt \in [kind : {"match"}, branches : Seq(Seq(Statements[n + 1])) \ {<<>>}]
          BY <3>3, <3>4
        <4> QED
          BY <2>1, <4>1, StatementLevels
      <3>6. /\ Most[(n + 1) + 1][stmt] = MostOfBranches(Most[n + 1], branches)
            /\ Most[n + 1][stmt] = MostOfBranches(Most[n], branches)
        BY <2>1, <2>6, <3>1, <3>5, MatchDeeper
      <3>7. \A branch \in Range(branches) : branch \in Seq(Statements[n])
        BY <3>2 DEF Range
      <3>8. {InAll(Most[n + 1], branch) : branch \in Range(branches)}
            = {InAll(Most[n], branch) : branch \in Range(branches)}
        BY <2>3, <3>7
      <3> QED
        BY <3>5, <3>6, <3>8 DEF MostOfBranches
    <2>7. Good(n + 1)
      BY <1>1, <2>1, <2>6, StatementSorts
    <2> QED
      BY <2>1, <2>7
  <1>4. Nat \subseteq S
    <2> HIDE DEF S
    <2> QED
      BY <1>2, <1>3, SetInduction
  <1> QED
    BY <1>4

LEMMA InAllJoined ==
    ASSUME NEW S, NEW most \in [S -> Nat], NEW s \in Seq(S), NEW t \in Seq(S)
    PROVE  InAll(most, s \o t) = InAll(most, s) + InAll(most, t)
  <1>1. PICK m \in Nat, n \in Nat : m = Len(s) /\ n = Len(t)
    OBVIOUS
  <1>2. PICK g \in [0..m -> Nat] :
          /\ g[0] = 0 /\ InAll(most, s) = g[m]
          /\ \A k \in 1..m : g[k] = g[k - 1] + most[s[k]]
    <2>1. \E f : Totals(f, most, s)
      BY TotalsExist
    <2> QED
      BY ONLY <1>1, <2>1 DEF Totals
  <1>3. PICK h \in [0..n -> Nat] :
          /\ h[0] = 0 /\ InAll(most, t) = h[n]
          /\ \A k \in 1..n : h[k] = h[k - 1] + most[t[k]]
    <2>1. \E f : Totals(f, most, t)
      BY TotalsExist
    <2> QED
      BY ONLY <1>1, <2>1 DEF Totals
  <1>4. PICK u : u = s \o t
    OBVIOUS
  <1>5. /\ u \in Seq(S) /\ Len(u) = m + n
        /\ \A i \in 1..m : u[i] = s[i]
        /\ \A i \in (m + 1)..(m + n) : u[i] = t[i - m]
    BY <1>1, <1>4
  <1>6. PICK v : v = [i \in 1..(m + n) |-> most[u[i]]]
    OBVIOUS
  <1>7. v \in [1..(m + n) -> Nat] /\ \A i \in 1..(m + n) : v[i] = most[u[i]]
    <2>1. \A i \in 1..(m + n) : u[i] \in S
      BY <1>5
    <2> QED
      BY <1>6, <2>1
  <1>8. PICK f : f = [k \in 0..(m + n) |-> IF k <= m THEN g[k] ELSE g[m] + h[k - m]]
    OBVIOUS
  <1>9. m \in 0..m /\ g[m] \in Nat /\ n \in 0..n /\ h[n] \in Nat /\ m + n \in Nat
    BY <1>2, <1>3
  <1>10. f \in [0..(m + n) -> Nat]
    <2>1. ASSUME NEW k \in 0..(m + n)
          PROVE  (IF k <= m THEN g[k] ELSE g[m] + h[k - m]) \in Nat
      <3>1. CASE k <= m
        <4>1. k \in 0..m
          BY <3>1
        <4> QED
          BY <3>1, <4>1
      <3>2. CASE ~(k <= m)
        <4>1. k - m \in 0..n
          BY <3>2
        <4>2. h[k - m] \in Nat
          BY <4>1
        <4> QED
          BY <1>9, <3>2, <4>2
      <3> QED
        BY <3>1, <3>2
    <2> QED
      BY <1>8, <2>1
  <1>11. f[0] = 0
    <2>1. 0 \in 0..(m + n) /\ 0 <= m
      OBVIOUS
    <2> QED
      BY <1>2, <1>8, <2>1
  <1>12. ASSUME NEW k \in 1..(m + n)
         PROVE  f[k] = f[k - 1] + v[k]
    <2>1. k \in 0..(m + n) /\ k - 1 \in 0..(m + n) /\ v[k] = most[u[k]]
      BY <1>7
    <2>2. CASE k <= m
      <3>1. k \in 1..m /\ k - 1 <= m
        BY <2>2
      <3>2. f[k] = g[k] /\ f[k - 1] = g[k - 1] /\ v[k] = most[s[k]]
        BY <1>5, <1>8, <2>1, <2>2, <3>1
      <3> QED
        BY <1>2, <3>1, <3>2
    <2>3. CASE k = m + 1
      <3>1. /\ 1 \in 1..n /\ k - m = 1 /\ k - 1 = m /\ m <= m /\ ~(k <= m)
            /\ k \in (m + 1)..(m + n) /\ 1 - 1 = 0
        BY <2>3
      <3>2. f[k] = g[m] + h[1] /\ f[k - 1] = g[m] /\ v[k] = most[t[1]]
        BY <1>5, <1>8, <2>1, <3>1
      <3>3. h[1] = h[0] + most[t[1]]
        BY <1>3, <3>1
      <3>4. t[1] \in S /\ most[t[1]] \in Nat
        BY <1>1, <3>1
      <3>5. h[1] = most[t[1]]
        BY <1>3, <3>3, <3>4
      <3> QED
        BY <3>2, <3>5
    <2>4. CASE k > m + 1
      <3>1. /\ k - m \in 1..n /\ (k - 1) - m = (k - m) - 1 /\ ~(k <= m) /\ ~(k - 1 <= m)
            /\ k \in (m + 1)..(m + n) /\ (k - m) - 1 \in 0..n
        BY <2>4
      <3>2. f[k] = g[m] + h[k - m] /\ f[k - 1] = g[m] + h[(k - m) - 1] /\ v[k] = most[t[k - m]]
        BY <1>5, <1>8, <2>1, <3>1
      <3>3. h[k - m] = h[(k - m) - 1] + most[t[k - m]]
        BY <1>3, <3>1
      <3>4. PICK a, b, c : a = g[m] /\ b = h[(k - m) - 1] /\ c = most[t[k - m]]
        OBVIOUS
      <3>5. a \in Nat /\ b \in Nat /\ c \in Nat
        <4>1. t[k - m] \in S
          BY <1>1, <3>1
        <4> QED
          BY <1>9, <3>1, <3>4, <4>1
      <3>6. f[k] = a + (b + c) /\ f[k - 1] + v[k] = (a + b) + c
        BY <3>2, <3>3, <3>4
      <3> QED
        BY <3>5, <3>6
    <2> QED
      BY <2>2, <2>3, <2>4
  <1>13. FoldLeft(+, 0, v) = f[m + n]
    BY <1>7, <1>9, <1>10, <1>11, <1>12, Sums
  <1>14. InAll(most, u) = f[m + n]
    BY <1>5, <1>6, <1>13 DEF InAll
  <1>15. f[m + n] = g[m] + h[n]
    <2>1. m + n \in 0..(m + n) /\ (m + n) - m = n
      OBVIOUS
    <2>2. CASE n = 0
      BY <1>3, <1>8, <1>9, <2>1, <2>2
    <2>3. CASE n # 0
      <3>1. ~(m + n <= m)
        BY <2>3
      <3> QED
        BY <1>8, <2>1, <3>1
    <2> QED
      BY <2>2, <2>3
  <1> QED
    BY <1>2, <1>3, <1>4, <1>14, <1>15

LEMMA InAllOne ==
    ASSUME NEW S, NEW most \in [S -> Nat], NEW first \in S
    PROVE  InAll(most, <<first>>) = most[first]
  <1>1. <<first>> \in Seq(S)
    OBVIOUS
  <1>2. PICK one \in Seq(S) : one = <<first>>
    BY <1>1
  <1>3. Len(one) = 1 /\ one[1] = first
    BY <1>2
  <1>4. \E f : Totals(f, most, one)
    BY TotalsExist
  <1>5. PICK g \in [0..1 -> Nat] :
          g[0] = 0 /\ InAll(most, one) = g[1] /\ \A k \in 1..1 : g[k] = g[k - 1] + most[one[k]]
    BY ONLY <1>3, <1>4 DEF Totals
  <1>6. 1 \in 1..1 /\ 1 - 1 = 0
    OBVIOUS
  <1>7. g[1] = g[0] + most[one[1]] /\ most[first] \in Nat
    BY <1>5, <1>6
  <1> QED
    BY <1>2, <1>3, <1>5, <1>7

LEMMA InAllStep ==
    ASSUME NEW S, NEW most \in [S -> Nat], NEW stmts \in Seq(S) \ {<<>>}
    PROVE  /\ Head(stmts) \in S /\ Tail(stmts) \in Seq(S)
           /\ InAll(most, stmts) = most[Head(stmts)] + InAll(most, Tail(stmts))
  <1>1. PICK first, rest : first = Head(stmts) /\ rest = Tail(stmts)
    OBVIOUS
  <1>2. /\ first \in S /\ rest \in Seq(S) /\ <<first>> \in Seq(S)
        /\ stmts = <<first>> \o rest
    BY <1>1
  <1>3. InAll(most, <<first>>) = most[first]
    BY <1>2, InAllOne
  <1>4. InAll(most, <<first>> \o rest) = InAll(most, <<first>>) + InAll(most, rest)
    BY <1>2, InAllJoined
  <1> QED
    BY <1>1, <1>2, <1>3, <1>4

-----------------------------------------------------------------------------
(* A run. *)

(* What a run has accepted and can still accept is at most what the         *)
(* component has on one of its ways.                                        *)
AcceptInv ==
    /\ ccomps \subseteq Seq(Statements[Nesting]) /\ comp_body \in ccomps
    /\ comp_body \in Seq(Statements[Nesting]) /\ ahead \in Seq(Statements[Nesting])
    /\ taken \in Nat
    /\ taken + MostAccepts(ahead) <= MostAccepts(comp_body)

LEMMA MostTyped ==
    /\ Most[Nesting] \in [Statements[Nesting] -> Nat]
    /\ \A stmts \in Seq(Statements[Nesting]) : MostAccepts(stmts) \in Nat
  <1>1. Fit(Statements[Nesting], After[Nesting], Most[Nesting])
    BY AcceptAssumption, LevelsFit
  <1>2. PICK S, after, most : S = Statements[Nesting] /\ after = After[Nesting] /\ most = Most[Nesting]
    OBVIOUS
  <1>3. Fit(S, after, most)
    BY <1>1, <1>2
  <1>4. most \in [S -> Nat]
    BY <1>3 DEF Fit
  <1>5. <<>> \in Seq(Nat)
    OBVIOUS
  <1>6. \A stmts \in Seq(S) : InAll(most, stmts) \in Nat
    BY <1>3, <1>5, WalkRaises
  <1> QED
    BY <1>2, <1>4, <1>6 DEF MostAccepts

LEMMA MostStep ==
    ASSUME NEW stmts \in Seq(Statements[Nesting]), stmts # <<>>
    PROVE  /\ Head(stmts) \in Statements[Nesting] /\ Tail(stmts) \in Seq(Statements[Nesting])
           /\ MostAccepts(stmts) = Most[Nesting][Head(stmts)] + MostAccepts(Tail(stmts))
  <1>1. PICK S, most : S = Statements[Nesting] /\ most = Most[Nesting]
    OBVIOUS
  <1>2. most \in [S -> Nat]
    BY <1>1, MostTyped
  <1>3. stmts \in Seq(S) \ {<<>>}
    BY <1>1
  <1>4. /\ Head(stmts) \in S /\ Tail(stmts) \in Seq(S)
        /\ InAll(most, stmts) = most[Head(stmts)] + InAll(most, Tail(stmts))
    BY <1>2, <1>3, InAllStep
  <1> QED
    BY <1>1, <1>4 DEF MostAccepts

(* A branch has at most the accepts of its match.                           *)
LEMMA MostOfBranch ==
    ASSUME NEW stmt \in Statements[Nesting], stmt.kind = "match", NEW branch \in Range(stmt.branches)
    PROVE  /\ branch \in Seq(Statements[Nesting])
           /\ MostAccepts(branch) <= Most[Nesting][stmt]
  <1>1. PICK n \in Nat : Nesting = n + 1
    <2>1. Nesting - 1 \in Nat /\ Nesting = (Nesting - 1) + 1
      BY AcceptAssumption, StatementSorts, SimpleStatements
    <2> QED
      BY <2>1
  <1>2. PICK branches : branches = stmt.branches
    OBVIOUS
  <1>3. branches \in Seq(Seq(Statements[n])) \ {<<>>}
    BY <1>1, <1>2, MatchStatements
  <1>4. branch \in Seq(Statements[n])
    BY <1>2, <1>3 DEF Range
  <1>5. Statements[n] \subseteq Statements[n + 1]
    BY MostAnywhere
  <1>6. branch \in Seq(Statements[n + 1])
    BY <1>4, <1>5, SeqsGrow
  <1>7. InAll(Most[n + 1], branch) = InAll(Most[n], branch)
    <2>1. \A i \in 1..Len(branch) : Most[n + 1][branch[i]] = Most[n][branch[i]]
      BY <1>4, MostAnywhere
    <2>2. [i \in 1..Len(branch) |-> Most[n + 1][branch[i]]] = [i \in 1..Len(branch) |-> Most[n][branch[i]]]
      BY <2>1
    <2> QED
      BY <2>2 DEF InAll
  <1>8. InAll(Most[n], branch) <= MostOfBranches(Most[n], branches)
    <2>1. Fit(Statements[n], After[n], Most[n])
      BY LevelsFit
    <2>2. PICK S, after, most : S = Statements[n] /\ after = After[n] /\ most = Most[n]
      OBVIOUS
    <2>3. Fit(S, after, most)
      BY <2>1, <2>2
    <2>4. most \in [S -> Nat]
      BY <2>3 DEF Fit
    <2>5. <<>> \in Seq(Nat)
      OBVIOUS
    <2>6. \A stmts \in Seq(S) : InAll(most, stmts) \in Nat
      BY <2>3, <2>5, WalkRaises
    <2>7. \A b \in Range(branches) : InAll(most, b) <= MostOfBranches(most, branches)
      <3>1. branches \in Seq(Seq(S)) \ {<<>>}
        BY <1>3, <2>2
      <3> QED
        BY <2>4, <2>6, <3>1, SomeBranchHasMost
    <2> QED
      BY <1>2, <2>2, <2>7
  <1>9. Most[n + 1][stmt] = MostOfBranches(Most[n], branches)
    BY <1>1, <1>2, MatchDeeper
  <1> QED
    BY <1>1, <1>6, <1>7, <1>8, <1>9 DEF MostAccepts

LEMMA MostJoined ==
    ASSUME NEW s \in Seq(Statements[Nesting]), NEW t \in Seq(Statements[Nesting])
    PROVE  MostAccepts(s \o t) = MostAccepts(s) + MostAccepts(t)
  <1>1. PICK S, most : S = Statements[Nesting] /\ most = Most[Nesting]
    OBVIOUS
  <1>2. most \in [S -> Nat]
    BY <1>1, MostTyped
  <1>3. s \in Seq(S) /\ t \in Seq(S)
    BY <1>1
  <1>4. InAll(most, s \o t) = InAll(most, s) + InAll(most, t)
    BY <1>2, <1>3, InAllJoined
  <1> QED
    BY <1>1, <1>4 DEF MostAccepts

LEMMA MostOfNothing == MostAccepts(<<>>) = 0
  <1>1. PICK S, most : S = Statements[Nesting] /\ most = Most[Nesting]
    OBVIOUS
  <1>2. most \in [S -> Nat]
    BY <1>1, MostTyped
  <1>3. PICK none \in Seq(S) : none = <<>>
    <2>1. <<>> \in Seq(S)
      OBVIOUS
    <2> QED
      BY <2>1
  <1>4. \E f : Totals(f, most, none)
    BY <1>2, TotalsExist
  <1>5. Len(none) = 0
    BY <1>3
  <1> QED
    BY <1>1, <1>3, <1>4, <1>5 DEF MostAccepts, Totals

LEMMA AcceptInvStarts == AcceptInit => AcceptInv
  <1> SUFFICES ASSUME AcceptInit
               PROVE  AcceptInv
    OBVIOUS
  <1>1. /\ ccomps \subseteq Seq(Statements[Nesting]) /\ comp_body \in ccomps
        /\ comp_body \in Seq(Statements[Nesting]) /\ ahead = comp_body /\ taken = 0
    BY AcceptAssumption DEF AcceptInit
  <1>2. MostAccepts(comp_body) \in Nat
    BY <1>1, MostTyped
  <1> QED
    BY <1>1, <1>2 DEF AcceptInv

LEMMA AcceptInvInductive ==
    ASSUME AcceptInv, [AcceptNext]_acceptVars
    PROVE  AcceptInv'
  <1> DEFINE C == Seq(Statements[Nesting])
  <1>1. comp_body \in C /\ ahead \in C /\ taken \in Nat /\ taken + MostAccepts(ahead) <= MostAccepts(comp_body)
    BY DEF AcceptInv
  <1>2. MostAccepts(comp_body) \in Nat /\ MostAccepts(ahead) \in Nat
    BY <1>1, MostTyped
  <1>0. ccomps' = ccomps /\ comp_body' = comp_body
    BY DEF AcceptNext, RunAccept, RunThrow, RunMatch, acceptVars
  <1>00. ccomps' \subseteq C /\ comp_body' \in ccomps'
    BY <1>0 DEF AcceptInv
  <1> SUFFICES /\ comp_body' \in C /\ ahead' \in C /\ taken' \in Nat
               /\ taken' + MostAccepts(ahead') <= MostAccepts(comp_body')
    BY <1>00 DEF AcceptInv, MostAccepts
  <1>3. CASE RunAccept
    <2>1. ahead # <<>> /\ Head(ahead).kind = "accept" /\ taken' = taken + 1 /\ ahead' = Tail(ahead)
          /\ comp_body' = comp_body
      BY <1>3 DEF RunAccept
    <2>2. /\ Head(ahead) \in Statements[Nesting] /\ Tail(ahead) \in C
          /\ MostAccepts(ahead) = Most[Nesting][Head(ahead)] + MostAccepts(Tail(ahead))
      BY <1>1, <2>1, MostStep
    <2>3. Head(ahead) = Accept
      BY <2>1, <2>2, AcceptAssumption, StatementSorts, SimpleStatements
    <2>4. Most[Nesting][Head(ahead)] = 1
      BY <2>3, AcceptAssumption, MostOfStatement
    <2>5. MostAccepts(Tail(ahead)) \in Nat
      BY <2>2, MostTyped
    <2>6. PICK a, b, c : a = MostAccepts(Tail(ahead)) /\ b = MostAccepts(ahead) /\ c = MostAccepts(comp_body)
      OBVIOUS
    <2>7. a \in Nat /\ b = 1 + a /\ c \in Nat /\ taken + b <= c
      BY <1>1, <1>2, <2>2, <2>4, <2>5, <2>6
    <2>8. (taken + 1) + a <= c /\ taken + 1 \in Nat
      BY <1>1, <2>7
    <2> QED
      BY <1>1, <2>1, <2>2, <2>6, <2>8
  <1>4. CASE RunThrow
    <2>1. ahead' = <<>> /\ taken' = taken /\ comp_body' = comp_body
      BY <1>4 DEF RunThrow
    <2>2. MostAccepts(ahead') = 0 /\ ahead' \in C
      BY <2>1, MostOfNothing
    <2>3. taken + 0 <= MostAccepts(comp_body)
      BY <1>1, <1>2
    <2> QED
      BY <1>1, <2>1, <2>2, <2>3
  <1>5. CASE RunMatch
    <2>1. /\ ahead # <<>> /\ Head(ahead).kind = "match" /\ taken' = taken /\ comp_body' = comp_body
          /\ \E branch \in Range(Head(ahead).branches) : ahead' = branch \o Tail(ahead)
      BY <1>5 DEF RunMatch
    <2>2. PICK branch \in Range(Head(ahead).branches) : ahead' = branch \o Tail(ahead)
      BY <2>1
    <2>3. /\ Head(ahead) \in Statements[Nesting] /\ Tail(ahead) \in C
          /\ MostAccepts(ahead) = Most[Nesting][Head(ahead)] + MostAccepts(Tail(ahead))
      BY <1>1, <2>1, MostStep
    <2>4. branch \in C /\ MostAccepts(branch) <= Most[Nesting][Head(ahead)]
      BY <2>1, <2>3, MostOfBranch
    <2>5. MostAccepts(branch \o Tail(ahead)) = MostAccepts(branch) + MostAccepts(Tail(ahead))
      BY <2>3, <2>4, MostJoined
    <2>6. branch \o Tail(ahead) \in C
      BY <2>3, <2>4, ConcatProperties
    <2>7. MostAccepts(branch) \in Nat /\ MostAccepts(Tail(ahead)) \in Nat /\ Most[Nesting][Head(ahead)] \in Nat
      BY <2>3, <2>4, MostTyped
    <2>8. PICK a, b, c, d : /\ a = MostAccepts(branch) /\ b = MostAccepts(Tail(ahead))
                            /\ c = Most[Nesting][Head(ahead)] /\ d = MostAccepts(comp_body)
      OBVIOUS
    <2>9. a \in Nat /\ b \in Nat /\ c \in Nat /\ d \in Nat /\ a <= c /\ taken + (c + b) <= d
      BY <1>1, <1>2, <2>3, <2>4, <2>7, <2>8
    <2>10. taken + (a + b) <= d
      BY <1>1, <2>9
    <2>11. taken + MostAccepts(branch \o Tail(ahead)) <= MostAccepts(comp_body)
      BY <2>5, <2>8, <2>10
    <2> QED
      BY <1>1, <2>1, <2>2, <2>6, <2>11
  <1>6. CASE UNCHANGED acceptVars
    BY <1>1, <1>6 DEF acceptVars
  <1> QED
    BY <1>3, <1>4, <1>5, <1>6 DEF AcceptNext

LEMMA GroupsReachMost ==
    ASSUME NEW stmts \in Seq(Statements[Nesting])
    PROVE  /\ MostAccepts(stmts) \in Range(FindAcceptGroups(stmts))
           /\ \A group \in Range(FindAcceptGroups(stmts)) : group \in Nat /\ group <= MostAccepts(stmts)
  <1>1. Fit(Statements[Nesting], After[Nesting], Most[Nesting])
    BY AcceptAssumption, LevelsFit
  <1>2. PICK S, after, most : S = Statements[Nesting] /\ after = After[Nesting] /\ most = Most[Nesting]
    OBVIOUS
  <1>3. PICK seen \in Seq(Nat) : seen = <<0>>
    <2>1. <<0>> \in Seq(Nat)
      OBVIOUS
    <2> QED
      BY <2>1
  <1>4. PICK r, m : r = Walk(after, seen, stmts) /\ m = InAll(most, stmts)
    OBVIOUS
  <1>5. m \in Nat /\ Raised(r, seen, m)
    <2>1. Fit(S, after, most) /\ stmts \in Seq(S)
      BY <1>1, <1>2
    <2> QED
      BY <1>4, <2>1, WalkRaises
  <1>6. Range(seen) = {0}
    BY <1>3 DEF Range
  <1>7. m \in Range(r)
    <2>1. 0 + m \in Range(r) /\ 0 + m = m
      BY <1>5, <1>6 DEF Raised
    <2> QED
      BY <2>1
  <1>8. \A group \in Range(r) : group \in Nat /\ group <= m
    <2>1. \A group \in Range(r) : group <= 0 + m /\ 0 + m = m
      BY <1>5, <1>6 DEF Raised
    <2>2. r \in Seq(Nat)
      BY <1>5 DEF Raised
    <2> QED
      BY <2>1, <2>2, PathsAreNumbers
  <1>9. r = FindAcceptGroups(stmts) /\ m = MostAccepts(stmts)
    BY <1>2, <1>3, <1>4 DEF FindAcceptGroups, MostAccepts
  <1> QED
    BY <1>7, <1>8, <1>9

LEMMA AcceptInvForesees == AcceptInv => AcceptsForeseen
  <1> SUFFICES ASSUME AcceptInv
               PROVE  AcceptsForeseen
    OBVIOUS
  <1>1. PICK m, groups : m = MostAccepts(comp_body) /\ groups = Range(FindAcceptGroups(comp_body))
    OBVIOUS
  <1>2. m \in groups /\ \A group \in groups : group \in Nat /\ group <= m
    BY <1>1, GroupsReachMost DEF AcceptInv
  <1>3. taken \in Nat /\ m \in Nat /\ taken <= m
    <2>1. MostAccepts(ahead) \in Nat /\ taken \in Nat /\ taken + MostAccepts(ahead) <= m
      BY <1>1, MostTyped DEF AcceptInv
    <2> QED
      BY <1>2, <2>1
  <1>4. (\E group \in groups : group >= 2) = (m >= 2)
    <2>1. (\E group \in groups : group >= 2) <=> m >= 2
      BY <1>2, <1>3
    <2>2. (m >= 2) \in BOOLEAN
      BY <1>3
    <2> QED
      BY <2>1, <2>2, Zenon
  <1>5. MissingAcceptWarning(ccomps) <=> \A stmts \in ccomps : MostAccepts(stmts) = 0
    <2>1. ASSUME NEW stmts \in ccomps
          PROVE  (\A group \in Range(FindAcceptGroups(stmts)) : group = 0) <=> MostAccepts(stmts) = 0
      <3>1. PICK n, found : n = MostAccepts(stmts) /\ found = Range(FindAcceptGroups(stmts))
        OBVIOUS
      <3>2. stmts \in Seq(Statements[Nesting])
        BY DEF AcceptInv
      <3>3. n \in found /\ \A group \in found : group \in Nat /\ group <= n
        BY <3>1, <3>2, GroupsReachMost
      <3>4. (\A group \in found : group = 0) <=> n = 0
        BY <3>3
      <3> QED
        BY <3>1, <3>4
    <2> QED
      BY <2>1 DEF MissingAcceptWarning
  <1>6. taken >= 2 => m >= 2
    BY <1>3
  <1>7. taken >= 1 => m # 0
    BY <1>3
  <1>8. /\ DupAcceptWarning(comp_body) = (\E group \in groups : group >= 2)
        /\ MissingAcceptWarning(ccomps) \in BOOLEAN
    BY <1>1 DEF DupAcceptWarning, MissingAcceptWarning
  <1>9. /\ DupAcceptWarning(comp_body) = (m >= 2)
        /\ MissingAcceptWarning(ccomps) = (\A stmts \in ccomps : MostAccepts(stmts) = 0)
    BY <1>4, <1>5, <1>8, Zenon
  <1>10. /\ taken >= 2 => DupAcceptWarning(comp_body)
         /\ taken >= 1 => ~MissingAcceptWarning(ccomps)
    <2>1. comp_body \in ccomps
      BY DEF AcceptInv
    <2> QED
      BY <1>1, <1>5, <1>6, <1>7, <1>9, <2>1, Zenon
  <1> QED
    BY <1>1, <1>9, <1>10, Zenon DEF AcceptsForeseen

(* However deep and wide the matches of a contract are: check_accepts warns *)
(* of a second accept exactly if one way through a component accepts twice, *)
(* of a missing one exactly if no way through any component accepts, and no *)
(* run of a component accepts more than was warned of.                      *)
THEOREM AcceptsAlwaysForeseen == AcceptSpec => []AcceptsForeseen
  <1>1. AcceptInv /\ [AcceptNext]_acceptVars => AcceptInv'
    BY AcceptInvInductive
  <1> QED
    BY <1>1, AcceptInvStarts, AcceptInvForesees, PTL DEF AcceptSpec
=============================================================================
