# A verification development for Scilla

Scilla is the smart contract language of the Zilliqa blockchain. `scilla_runner`
executes one deployment or one message and exits; `scilla_checker` checks a
contract before it is deployed. The modules in this directory model the parts of
the interpreter on which a contract's funds and fields depend, the checkers that a
contract's author relies on, and the C++ library behind its signatures. TLC checks them on
small instances and TLAPS proves the results listed below for every value of the
constants. `PROJECT.json` says, definition by definition, which lines are modelled
(paths there and here are relative to the repository; `src/src/...` is its `src`
directory).

## 1. The system

A run of `scilla_runner` reads a contract, an init file, a blockchain state file
and, for a message, a state file and a message file. It parses the contract,
imports its libraries, evaluates them, starts the state service with the fields'
values, evaluates one transition, and writes an output file with the new balance,
the new fields and at most one outgoing message, or an error. Nothing survives the
process except that file: the chain keeps it and passes its contents to the next
run.

| Component | State | Operations | Talks to |
| --- | --- | --- | --- |
| `scilla_runner.ml` | `gas_remaining`, what was parsed | charge by file size, parse, import, initialise, evaluate, write or fail | all below, the chain |
| `RunnerUtil.ml` (import) | stack of names, name maps from init files | `import_lib`, `import_libs`, `eliminate_namespaces` | parser, init files |
| `Eval.ml`, `EvalUtil.ml` | the configuration: environment, balance, accepted, incoming funds, procedures, component stack, messages, events | `init_module`, `prepare_for_message`, `handle_message`, `stmt_eval` with one case per statement | state service, builtins, gas |
| `StateService.ml` | `ss_cur_state`: fields as mutable hash tables | `initialize`, `fetch`, `update`, `is_member`, `remove`, `get_full_state` | evaluator, JSON |
| `Gas.ml`, `MonadUtil.ml` | none (gas is threaded through) | cost of statements, literals, builtins; `checkwrap_op` | evaluator |
| `BuiltIns.ml`, `SafeArith.ml`, `Integer256.ml` | none (maps are hash tables that `put` and `remove` copy) | integers, maps, strings, hashes, signatures | evaluator |
| `JSON.ml`, `ContractUtil.ml` | none | files to literals and back; implicit parameters of messages | runner |
| `TypeChecker.ml`, `TypeUtil.ml`, `TypeCache.ml` | type environment, a cache on disk | typing of expressions, statements and components | checker |
| `Recursion.ml`, `Datatypes.ml` | dictionary of data types (two hash tables) | admissible types of libraries; `add_adt`, lookups | checker, evaluator |
| `PatternChecker.ml` | clauses reached | exhaustiveness and reachability, decision tree | type checker |
| `SanityChecker.ml`, `EventInfo.ml`, `Accept.ml` | events seen | unique names, in-place map warnings; event shapes; paths that accept | checker |
| `Cashflow.ml` | a tag per identifier | iterates tags to a fixpoint | checker |
| `GasUseAnalysis.ml`, `Polynomial.ml` | signatures of functions | gas as a polynomial in sizes | checker |
| `Schnorr.cpp`, `Schnorr.h`, `Sha2.h`, `generate_dsa_nonce.c` | group parameters, a hash context per call | `Sign`, `Verify`, `GenKeyPair`, the bytes of a nonce | OpenSSL, the system's random source |
| `PrivKey`, `PubKey`, `Signature`, `BIGNUMSerialize`, `ECPOINTSerialize`, `Serializable.h`, `DataConversion` | one number, point or pair of numbers per object | construct, serialise at an offset of a byte vector, deserialise, compare, convert from strings | Schnorr library, C interface |
| `c_schnorr.cpp`, `schnorr.ml`, `Crypto` in `BuiltIns.ml` | none | `genKeyPair_Z`, `sign_Z`, `verify_Z`; `ec_gen_key_pair`, `schnorr_sign`, `schnorr_verify` | evaluator, Schnorr library |
| front end, printing, other cryptography, `stdlib` | none | parsing, messages, addresses, ECDSA wrapper | all |

### What is hard

There is no concurrency: one process, no threads (the C++ library takes mutexes,
which nothing contends for). The difficulties are elsewhere.

* Values that are not values. A map is a mutable table; binding, loading and
  storing a map copies the reference, and the in-place statements then write to a
  table that something else may refer to.
* Effects before checks. A statement writes a field before its gas is charged; a
  message may fail at any later point, or after its last statement, when its output is refused.
* Funds. `accept` may run many times along a chain of calls; amounts are
  128-bit and sums of them wrap around.
* Control in data. Environments, the list of callable procedures and the call
  trace are saved and restored by continuations.
* A pipeline of many stages, each of which may end the process, and which must
  leave the chain untouched in that case.
* Boundaries: gas below a penalty, minimal integers, carries, strings that are too long,
  offsets beyond the end of a stream, numbers whose first bytes are zero.
* Calls that fail half-way, and callers that do not look: every OpenSSL function may
  fail, constructors of keys and `sign_Z` ignore the outcome, and what is handed on is
  whatever the object then holds.
* Loops that begin again: a signing attempt with a useless nonce must leave nothing
  behind in the hash context, and must end.
* Names in two worlds: prefixes are added bottom up, by every library on the way, to
  names that importers look up under what was reported to them.

### What makes each component correct

* State service: the tables behave as values do; a nested write reaches its entry
  and nothing else; a message that is written to a file and read back finds the same values.
* Evaluator: names mean what the type checker took them to mean; procedures cannot
  recurse; gas bounds every run; incoming funds enter once; what leaves is covered.
* Runner: a message is processed as a whole or not at all; funds are conserved;
  every run ends and reports no more gas than it was given; libraries are only deployed.
* Arithmetic: each builtin is exact or fails; the 256-bit implementation is the integers.
* Import: a cycle is found, a shared dependency is not one; each library sees what it imports.
* Type checker, pattern checker, accept checker, cash flow, gas analysis: what they
  claim of a contract holds of its evaluation; their iterations end.
* Keys and streams: a write touches its window only and is read back; an object is
  read as a whole or not at all, and has one encoding.
* Signatures: what was signed with a matching pair of keys verifies, directly and
  through the builtins; what was refused never does; signing ends; the bytes of a
  nonce are independent.

## 2. Modules

### StateService.tla, FieldStore.tla

`StateService` is the heap of hash tables behind the fields, the locals and the
`Emp` literals of a contract, with one action per statement and map builtin.
`fields` is `ss_cur_state`, `env` the local bindings (a cell each), `heap` the
entries of every table. `Walk` is the way of `update_local` and `fetch_local` through nested
tables; `UpdateLocal` links a new empty table wherever the walk finds none (`Missing`,
`NewTables`, `Linked`) and replaces the last entry, `RemoveLocal` gives up there instead; `BuiltinPut` copies one level as
`Hashtbl.copy` does; `EmpLiteral` is the table that the parser allocates once per
occurrence; `NextMessage` writes and reads the state file. Garbage tables are kept empty so
that heaps that differ in garbage only are one state.

`FieldStore` is the abstract specification: fields and locals hold functions.
`StateService` implements it under the mapping `FieldValues`, `EnvValues`
(dereferencing every cell) when the contract raises no `map_load_store` warning,
which is the constant `InPlaceOnly`.

### Evaluator.tla

One run of one transition, of an arbitrary contract: any statement may come next,
so the behaviours include those of every contract with the declared names. The
variables are the fields of `Configuration` (EvalUtil.ml), `frames` for the
continuations of `stmt_eval` (a match restores the environment, a call also
`procedures`, and both charge when they end), `fields` for the state service and `gas`.
`scope` is not part of the code: it is the environment in which `TypeChecker.ml`
typed the statement about to run, carried along to be compared with `env`.

Data are cut down to what the properties tell apart: a bound value is who bound it
(contract, message, argument, statement, with its nesting depth); a field is the `literal_cost` of its
value; a message is its amount; a procedure is its position. `Charge` is
`stmt_gas_wrap`, which runs the statement first; `BindExpr` is the exception, whose
expression is charged as it goes. `Fail` is a throw or any failing operation.

### Ledger.tla, Runner.tla

`Ledger` is what the chain relies on: a deployment or a message is one step that
changes balance and fields together and only moves funds. `Runner` EXTENDS the
evaluator with the stages of `main` before and after it, each with its failures, and with the external
chain, which starts a run (`Submit`) and applies its output (`Apply`). It
implements `Ledger` with the state file for its state.

### IntRep.tla, SafeArith.tla, Integer256.tla

`IntRep` is two's complement of some width, the interface `SafeArith.ml` is a functor
over. `SafeArith` translates its overflow tests, the loop of `pow` (a state machine),
and the exceptions the builtins catch. `Integer256` is the repository's own 256-bit
type: halves and digits, carries, long multiplication, the bitwise `divloop` and the fold of
`of_string` (state machines), signs, and the acceptance of literals. Its width is
`4 * DigitBits`, 64 being the code's digit.

### PatternChecker.tla, AcceptChecker.tla, Imports.tla

`PatternChecker` writes down the clauses of one match one after the other
(`AddClause`) and translates the walk of `PatternChecker.ml`: `TraverseClauses`, `TraversePattern` and
`MatchPattern` follow a decision path with a partial description of the value, which
`PatternUtil.ml` refines (`StaticMatch`, `BuildDsc`). What a clause matches is `PatternMatching.ml`'s
business, translated apart from it, so that the verdict can be compared with the values
of the type down to the depth that the clauses look at.

`AcceptChecker` has the paths of a component as `find_accept_groups` finds them: `Walk` goes
through a sequence of statements, `After` through one statement at some depth of nesting, and
`WalkBranches` through a match. Next to them it runs the component as `Eval.ml` does
(`RunAccept`, `RunThrow`, `RunMatch`). One warning is about a component that may accept
twice, the other about a contract none of whose components accepts; both are compared with the
accepts of the runs, and with the most accepts that the branches allow (`MostAccepts`), which
never looks at a path.

`Imports` is `import_libs` as a state machine: `stack` holds the calls under way with what
is left of their lists (`ImportNext`, `ImportDone`), and what a library file says is
chosen when it is first read. `eliminate_namespaces` follows as soon as the tree is
there: `renaming` holds the calls of `rename_in_libtree` under way, each with the
dependencies it has not renamed yet, what it was told of the others (`Told`), and the
environment that makes of uses; `RenameDep` is a call for the next dependency, `RenameDone`
renames the library itself (`RenameInLibrary`) and returns. A library declares a function, a
type and a constructor, and its importers use them under the namespace they gave it.
`RenameInExpr` is what `rename_in_expr` makes of one such use, by where it occurs: local
bindings hide a name, and a literal is returned as it is, with the types of an empty map.

### Bytes.tla, Curve.tla, SchnorrKeys.tla, KeyStream.tla

`Bytes` has the number templates of `Serializable.h`, `BIGNUMSerialize` and
`DataConversion` on sequences of bytes, including what they do with offsets beyond the
end. A hexadecimal digit is a character in upper case (`boost::algorithm::hex`) or in lower case
(`std::hex`), and `unhex` takes both. `Curve` is a cyclic group, a point being its multiple of the base point; the
parity bit of a compressed point needs an odd order. `SchnorrKeys` adds the three
classes: construction from numbers, streams and strings, (de)serialisation, and the
order of public keys. Each conversion of a point and each copy into an object may fail for want
of memory (`converted`, `copied`): a point that is not converted is not written although its size is
reported, and a signature whose second copy fails is left with the new challenge and the
old response. `KeyStream` is the state machine of their users: any object, any stream, writes and
reads at any offset.

### Schnorr.tla, SchnorrLib.tla, DsaNonce.tla

`Schnorr` is one call at a time of `Sign` or `Verify`, one action per step after
which OpenSSL may have failed (`OpenSSLFails` at any of them). A call's locals are
`k`, `sha2` (the hash context, a sequence of what was hashed) and `result`. SHA-256 is
`oracle`, a table that is filled on demand with any digest; `signed` is a history variable.

`SchnorrLib` EXTENDS `Schnorr` and `SchnorrKeys` and composes them as `c_schnorr.cpp` and the
builtins do: arguments and results are strings of bytes, `sign_Z` serialises whatever
`Sign` left, and a string of a wrong size ends the process (`aborted`). `unconverted` is a history
variable: a generated public key could not be converted. `request.whole` says that a call's keys and
signature were copied completely. `DsaNonce` is the loop
of `generate_dsa_nonce.c` over SHA-512 digests, with every byte named by its counter
and its place in the digest.

### Proof modules

`StateServiceProofs`, `RunnerProofs` and `KeyStreamProofs` extend the module
in their name, the second with the theorems about `Evaluator` before those about `Runner`;
`SchnorrProofs` extends `SchnorrLib` and with it `Schnorr`. `AlgorithmsProofs` is
about `SafeArith`, `Integer256` and `DsaNonce`, `WalksProofs` about `Imports` and `AcceptChecker`. `BytesProofs` has lemmas only: what one
write or read of a number, a point or a signature does to a sequence of bytes; `KeyStreamProofs`
and `SchnorrProofs` rest on them. `Lemmas` holds what several of these need: induction on
natural numbers for a property given as a set, the recursive function behind a fold over a
sequence, folds that sum up or concatenate, the laws of powers, and division with remainder. `Powers` is the one
operator `Power` of arithmetic and bytes, a recursive function so that it can be reasoned about.

## 3. Runs

| Run | Shows |
| --- | --- |
| `state_in_place` | a map of maps and a scalar field, in-place statements only: values keep their types, no table is shared with a field, `FieldStore` is implemented, every write is exact |
| `state_aliasing` (violation) | with whole maps loaded and stored, a local binding changes under its name |
| `evaluator` | two procedures, one nested match per block, a contract parameter, a transition parameter, an argument and a local, two messages per send, stores of larger and smaller values: no recursion, lexical scope, every message is answered, funds enter once and are settled whenever the runner outputs the result, gas only falls |
| `evaluator_shadowing` (violation) | a transition parameter named like a contract parameter is seen by the procedures the transition calls |
| `evaluator_settled` (violation) | outgoing amounts whose sum wraps pass the balance check |
| `runner_contract` | deployments, messages and libraries with every failure: messages are atomic, funds conserved, the gas of an output within its limit, and every run ends |
| `algorithms` | integer arithmetic of small widths against the integers, the bytes of nonces, the pattern checker's verdict against matching, the accept checker's warnings against runs, the import walk and the renaming against the import graph |
| `schnorr` | a failure of OpenSSL at every step, useless nonces, slices of messages: signatures verify, signing ends |
| `schnorr_library` | every stream of up to four bytes: writes stay in their window and are read back by a new object, reads are whole, encodings unique, keys totally ordered, conversions agree; then keys and signatures that go through strings: the process ends only at a public key that was not converted, issued signatures verify, the bytes of a refused call never do |
| `key_stream_placed` (violation) | a number placed beyond the end of a stream does not resize it, and the write throws |
| `imports_constructors` (violation) | the constructor of a library imported in a namespace is not found under its new name |
| `imports_literals` (violation) | the type of a library imported in a namespace keeps its old name in the empty maps of the importer |

The findings in `PROJECT.json` quote the comments that the violations contradict.
`evaluator_settled` is not a loss of funds: a result with two messages is refused
by the runner, which is why `SettledIfOutput` and `FundsConserved` hold.

The assertion of `genKeyPair_Z` (`src/src/cpp/c_schnorr.cpp:30`) can fail, when OpenSSL cannot convert the
public key: `AbortsOnlyUnconverted` says that this is the only way for the process to end. It needs
memory to run out at that call, so no run of its own is made of it. `ReadsWhole` likewise states the one
exception there is, a torn signature, and `WritesLand` that a public key which is infinity is written as
zeros, which OpenSSL need not read back.

`SchnorrLibraryMC` joins the byte streams and the builtins in the same way as `AlgorithmsMC` joins its modules:
the builtins start while the stream is empty and the object a new signature. `AlgorithmsMC` joins six modules that do not interact in one run: a behaviour starts one of
them and leaves the others idle, so the state space is the sum of theirs. Two of the three library
files have the same names, and `LibSymmetry` exchanges those two: nothing in `Imports` tells one from the other.

### Bounds

* `MaxFresh` tables beside the parsed ones, two keys and two scalars: enough for a
  nested map to be created, shared, replaced and dropped at both levels. A statement that needs
  a table waits for a name (`HasRoom`, and the guards of `BuiltinPut` and `BuiltinRemove`).
* `MaxGas`, `MaxBatch`, `MaxNesting`, `NumProcs`: three units of gas, two messages
  per send, one match inside another block, two procedures. A call inside a match inside a call
  is reached, two sends make more than two messages, and gas runs out after every kind of statement.
* `MaxUint` = 2 or 3 with a `Supply` no larger: amounts go up to `MaxUint`, so that the sum of two
  wraps. `Supply <= MaxUint` is an assumption about the chain, whose supply is far below 2^128. The addition in
  `accept_incoming` would wrap without it; this case is not modelled.
* `MaxGasUint` = 7, above every limit: only a subtraction can leave the range.
* `DigitBits` = 2: with one bit per digit the column sums of the long
  multiplication would not fit a half, which cannot happen with 64. `Half` = 16,
  `MaxExponent` = 6, so that powers stay within TLC's integers. Decimal strings up to 999 wrap an 8-bit number
  three times.
* `MaxKBytes` = 9 with `DigestLength` = 4: two full digests and one that is cut. On secp256k1 the 40 bytes
  of a nonce fit one digest of 64; the loop is written for any length, and is checked for any.
* `MatchTypes`: naturals (recursive), options, lists, pairs of an option; `MaxDepth` = 3
  and `MaxClauses` = 3 reach nested, overlapping, redundant and missing clauses.
* `MaxStatements` = 5, counting the statements of all branches, and two branches to a match: two matches, one
  of them inside a branch of the other, with accepts on several branches. A contract has one such component,
  or two of up to `MaxOfTwo` = 2 statements each, for the warning about a whole contract. `Nesting` = 5 is deeper than any of them.
* `Libs`: three libraries, two of which declare the same names; `MaxImports` = 3 imports
  among the libraries and `MaxOwnImports` = 2 of the contract: cycles of length one, two and
  three, diamonds, and one library in two namespaces.
* `Digit` = 2 makes a byte of two bits, so that a number needs several bytes and may begin
  with zero bytes; `Decimals` = 1 leaves one digit without and one with a case. `UintModulus` = 32 makes
  the room behind an offset wrap as an unsigned int does, and is above every sum of an offset and a size.
  `Order` = 5 (in `schnorr_library` 3, for the size of the run) is odd, so that only infinity is its
  own negation, and does not fill a scalar, so that out-of-range numbers exist. `ScalarSize` and
  `CoordSize` are 1 or 2 where the code has 32; `MaxStream` = 4 holds one signature and leaves
  room before or behind a key, `MaxLen` = 2 gives numbers of several bytes. A signature is any two of
  16 x 16 halves in such a stream; the constraint `FewSignatures` goes on from those
  made of four `Halves`: 0, a leading zero byte, two bytes, and the largest number.
  Streams are not cut down: every one of up to four bytes is reached.
* `MaxPairs` = 1, `MaxIssued` = 2: one key pair beside two strings of bytes that the library did not make
  (a private key out of range, a point), so a pair may match or not, and two signatures: one signed and
  one refused, or one of each key.
* Digests 0 and 6 (0 and 4 in `schnorr_library`): one makes the challenge zero, the other must be reduced. `MaxHashes`
  bounds the oracle; with no hash left only nonces whose hash is known are drawn, so no
  behaviour is cut off in the middle of a call. `Slices`: empty, whole, inside another
  message, too long, and of no bytes.

### Fairness

`Answered` assumes weak fairness of `Next`, `RunsEnd` of the runner's step and of
`Apply`: the interpreter is a sequential program that goes on while it can, and
the chain waits for the process it started. Nothing is assumed of which statement
comes next. Because the program is arbitrary, `Answered` needs that each read or
write costs something (`LitCosts` without 0): a real body is finite, the model's is not. A chain
that never submits anything is allowed.

`SigningEnds` assumes weak fairness of the steps of `Sign` and `Verify`, again because the
code is sequential, and strong fairness of drawing each nonce: they come from a
random generator, which does not avoid a nonce for ever. It promises the end of `Sign` only when
some nonce is known to be useful: with a hash function under which all are useless, `Sign` would loop.

## 4. Proofs

`StateServiceProofs`, for all fields, locals, keys and scalars, every depth of nesting and every
bound `MaxFresh`, while the contract raises no `map_load_store` warning (`InPlaceOnly`; without
it the properties are false, as the run `state_aliasing` shows for the locals):

* `HashTablesHoldValues` (`ImplementsValues`): the refinement of `FieldStore`. Every
  statement on tables is the statement on the values they denote.
* `FieldsStaySeparated` (`FieldsSeparated`), `WritesStayExact` (`WritesExact`), `TypeCorrect`
  (`TypeOK`), `BindingsStayImmutable` (`BindingsImmutable`, which `state_aliasing` violates
  when maps move between fields and locals).

The inductive invariant is `Inv`, that is `Settled(heap, fields, env)`:

* `Typed`: a cell of kind `d` is a scalar if `d = 0`, and otherwise a table all of whose entries are cells of
  kind `d - 1` or absent (`OfKind`); the `Emp` literal is empty. That reached tables are no deeper
  than `MaxKind`, so that `Reached` is closed, is a consequence (`ReachedClosed`).
* `Separated`: there are two disjoint sets of tables, `F` and `C`, each closed under
  reference. The fields lie in `F`, the locals and the `Emp` literal in `C`, and each table of `F` has one holder
  (`OneHolder`). `FieldsSeparated` alone is not inductive because it
  speaks of reached tables only: `F` and `C` may hold more, and a write can only shrink what is reached.
* Names of tables that are not alive belong to empty tables, so that a new table is empty.

The argument is local. A walk along a path meets a chain of tables of decreasing kinds
(`WalkDenotes`), hence pairwise different ones, each with its one holder; `Linking` shows that replacing the one entry in
each that leads to the next is `Put` on the values, and that nothing else denotes anything new,
because nothing else refers to a table of the chain (`Framed`). `Collecting` garbage changes no
value. `Parsing` shows that the tables of a state file denote what was written,
from the unique way in which their names extend each other.

`CellAssumption` says that tables, scalars, maps and `Absent` are told apart, as the
constructors of OCaml's literals are; TLC's model values satisfy it by their names.

`RunnerProofs`, about `Evaluator` alone (for arbitrary constants that satisfy its named assumptions):

* `TypeCorrect`: `TypeOK` is inductive.
* `FundsAccepted` (`AcceptedOnce`): inductive together with `TypeOK`. The sum never
  wraps because `opening + amount <= Supply <= MaxUint`.
* `GasFalls` (`GasOnlyFalls`): an action property from `TypeOK` alone; the case of interest is
  `StoreCost`, the larger literal plus the difference, which is not negative.
* `CallsEnd` (`CallsDescend`): the invariant is not inductive as it stands, because
  returning from a call restores the saved `procs`. `CallsInv` adds that each frame
  saved a list in which its callee lies, and that the callees of the frames
  below it lie above that list.
* `ScopesRespected` (`LexicalScope`): under the assumption that no transition
  parameter has the name of a contract parameter. `ScopesInv` says of every
  frame what the property says of the current environment. The run `evaluator_shadowing` shows that the assumption is needed.
* `OutputSettled` (`SettledIfOutput`): the sum of the outgoing amounts is a fold that
  wraps; of at most one message it is that message's amount, and the balance check
  compared exactly that. `Total` is unfolded over the positions 0 and 1, so no induction is needed.

`RunnerProofs`, about `Runner`, for every contract, gas limit, penalty and chain: `RunnerInvariant` shows
that `RunnerInv` is inductive. It is a conjunction because the checked properties are
not inductive alone:

* `ChainInv`: between runs the chain's balance and the funds outside add up to the
  supply, and a contract that is not deployed has no balance;
* `RunInv`: a run of a contract is a message exactly if the contract is deployed, its
  amount is covered, and gas stays within its limit;
* `StageInv`: which runs come to which stage, and where the fields have values;
* `ExecuteInv`: during evaluation the invariants of the evaluator hold, with the
  chain's balance as the opening one and the run's amount;
* `ReportInv`: a result that is written has the balance that the chain had, plus what
  was accepted, less what is sent.

From it follow `RunnerTypeCorrect`, `RunnerConservesFunds`, `RunnerGasWithinLimit`, and
`RunnerImplementsLedger` (the refinement of `Ledger`): initial states map to initial
states, `Apply` of an output is the one abstract step and every other step stutters.

`BytesProofs` and `KeyStreamProofs`, for every size of a byte, a scalar and a coordinate, every odd
order that fits them, every stream and every offset: `WritesAlwaysLand` (`WritesLand`),
`ReadsAreWhole` (`ReadsWhole`: a failed read leaves the object unchanged, but for a signature whose second
copy failed), `EncodingsAreUnique` (`OneEncoding`), `KeysAreOrdered`
(`KeysOrdered`), `NumbersAreReadBack` (`NumbersReadBack`), `ConversionsAlwaysAgree`
(`ConversionsAgree`). The invariant `StreamInv` says that
the stream holds bytes and stays within its bound and that the object is of its class; the
work is in what one write and one read do:

* Sequences of `n` bytes and numbers below `Byte^n` are in bijection (`NumberBack`, `BytesBack`).
  `Horner` turns the fold of `Bin2bn` into a recursive function, by induction on the length.
* What is written is read by an object that never held it: `FoundAt` asks for the return code 0 and the
  very object, for every new object of the kind, and excepts only infinity where OpenSSL refuses its zeros.
* A write is a `Window`: the stream grows to reach the end of it if need be, and nothing
  outside changes. `ScalarLands`, `PointLands`, `SignatureLands` show that the window holds
  the number and that reading there finds it; two windows side by side, the challenge
  and the response of a signature, are one (`Joined`).
* `ScalarReads`, `PointReads`, `SignatureReads` are the converse, and the reason for `OneEncoding`: what
  was read is in range, and is written as the bytes that were there.
* A byte is two hexadecimal digits, so the digits of a number are the digits of its bytes
  (`HexOfNumber`), which is what `std::hex` prints after padding (`HexIsNumber`); `unhex` stops at
  the first pair that is none (`Unhex`), so it undoes `hex` and rejects odd lengths (`HexBack`). Digits
  in lower case are other characters with the same value, so it undoes `std::hex` as well (`LowerHexBack`).
* The first byte of a compressed point is 2 or 3, so no leading byte is lost when its
  number is taken (`PointBack`): that is why comparing the numbers orders the points.

`StreamAssumption` keeps the sum of an offset and a size below the range of an unsigned
int, `KeysAssumption` says that scalars and coordinates have room for the group's numbers, as the
curve's 32 bytes do.

`SchnorrProofs`, for every order of the group, every hash function and every message:
`SchnorrTypeCorrect`, and `SignedSignaturesVerify` (`SignedVerifies`). `SignedInv` says
that the commitment which `Verify` recomputes for a signature in `signed` is
one whose hash is known and reduces to the challenge; `AttemptInv` says what the
hash context and `result` hold at each step of an attempt, in particular that the
context is empty when a nonce is drawn; `VerifyInv` does the same for `Verify`. The
heart is `Recommit`: `s = k - r d` modulo the order gives `sG + rP = kG` when `P = dG`.

The same module proves of the builtins (`LibSpec`) `AbortsAreUnconverted` (`AbortsOnlyUnconverted`),
`IssuedSignaturesVerify` (`IssuedVerifies`) and `RefusedSignaturesFail`
(`RefusedNeverVerifies`). Their invariant `LibInv` adds to that of `Schnorr`:

* `OutcomeInv`, what `sign_Z` will find in its signature at each step: numbers that fit the string in any
  case (so `err_abort` is not reached), after a success what is in `signed`, and after a refusal the
  fresh signature, whose challenge is 0. `Verify` answers true only for another challenge.
* `RequestInv`: the call that runs has the arguments that the strings decode to.
* `IssuedInv`: of every string that was ever returned, that decoding it gives a
  signature in `signed`, or a challenge of 0. It is about decoding, not about
  objects, so it survives that `signed` grows and the strings are passed in later;
  `BytesProofs` supplies that a string that was written decodes to what was written.

`LibAssumption` says what the builtins and SHA-256 guarantee: messages are passed whole, a digest
fits a scalar, keys are drawn from the range that `PrivKey` draws from, strings hold bytes, and the
sizes of keys are far below the range of an unsigned int.

`AlgorithmsProofs`:

* `NonceBytesAlwaysIndependent`, for every length of nonce and digest. The
  invariant says that the counter of a byte's digest and its place in it add up to its
  position, so two positions never share a byte.
* `HalvesAreExact`, for every width: `add` and `sub` with their carry and borrow are addition and
  subtraction modulo the number of words, and `compare` is the order of the numbers.
* `DivisionCorrect` (`DivisionInvariant`), for every width: each round of `divloop` divides one more bit
  exactly. The invariant needs only the range of the counter in addition. Powers of
  two are counted as subsets (`PowerDoubles`, `PowerOfSum`), because exponentiation has no
  laws in the prover's library (`Lemmas`); `BitOfWord` relates masks on halves to bits of the number;
  `OneRound` is the step on numbers, and `RemainderFits` why the shift loses nothing:
  the shifted remainder is at most the numerator.
* `SignedDivisionCorrect` (`SignedDivisionExact`), from the invariant of `DivisionCorrect`: the
  signs are taken off and put back. Quotient and remainder are at most `Top`, the
  weight of the sign bit; a quotient of `Top` is the one that may wrap (`min_int / -1`),
  and a remainder is below the divisor, hence below `Top`.
* `PairsOfHalvesAreIntegers` (`ImplementsIntRep`), for every width of at least two bits per digit: the pairs of
  halves are the fixed-width integers that `SafeArith` builds on. The long
  multiplication (`MulValue`) never leaves a half, neither in a row (`RowDigits`) nor in
  a column, where up to four digits and a carry are added (`ColumnIs`, `ResultColumns`);
  this is where a digit needs two bits. The carries that a row passes on are what its next
  digits take in, so they cancel column by column, and what is left over is a multiple
  of the number of words (`ProductOfDigits`). The signed operations follow
  because a signed value differs from the unsigned one by a multiple of that number
  (`SignedIsWrapped`, `SWrapPeriodic`).
* `LiteralsAreExact` (`LiteralsExact`), for every width and strings of any length. `TextInv`: the number that
  `of_string` has made is that of the characters so far, modulo the number of words, so it need not
  be the string's. What `to_string` writes has no leading zero and is the number of its word
  (`WrittenIsWord`), and two such strings of the same number are equal (`WordIsWritten`);
  both are inductions, over the values of words and over the length of a string, on the
  division by ten (`DivRemExact`, from the rounds of `DivisionCorrect`). So the comparison that `build_int`
  makes rejects whatever has wrapped, a leading zero, `-0`, and 2^255 without a minus (`SignedLiteral`).
  The recursive functions behind the fold of `divrem` and behind `to_string` are shown to exist
  (`RoundsExist`, `WritesExists`).
* `SafeTypeCorrect`, and `BuiltinsAreExact`, for every width: the integer builtins yield the exact
  result or fail, and fail only if the width has no exact result. The
  argument for `mul` is that dividing the wrapped product by a factor gives back the other one only if the
  product did not wrap (`IntMulExact`): the quotient times the factor is no larger than the
  wrapped product, and the one remaining case, a product equal to `Half`, has the wrong sign.
* `PowIsExact` (`PowExact`), for every width, base and exponent. `PowInv` says that the loop
  holds the power of the multiplications done, or has raised one of the exceptions that the
  builtin catches and the whole power is out of range. The latter
  holds because a product that has left the range stays outside: the base is then
  neither 0, 1 nor -1. The width must have more than one bit
  (`HalfAssumption`), since otherwise 1 is not a signed number.

`WalksProofs`, the first two for any finite set of library files, any imports among them and any namespaces:

* `ImportsAreExact` (`ImportsExact`). The property looks at the end of the walk, the invariant
  `ImportInv` at every step. A library is `Settled` when it and all that it needs have been
  read and none of them needs itself; every library that was read is settled or under way
  (`WalkSound`), and reading another file settles no library less (`SettledGrows`). Of a
  library under way, what it imports is what it has, what it waits for and what is left of
  its list, in the file's order (`FrameSound`, `Fits`), so each library on the stack needs
  the next one: an import that is under way closes a cycle (`CycleFound`), and a library whose list is empty has all
  its imports settled and is settled itself (`TopSettles`, `SettlesLast`). No library is
  on the stack twice, which bounds the stack (`StackBounded`). Finished nodes are
  collected in a set `G` that the invariant asserts to exist: each node has its file's
  imports and its dependencies are in `G` as well, so what is renamed is a finished tree.
* `UsesAlwaysResolve` (`UsesResolve`). `UsesInv` says of every call of `rename_in_libtree` that all
  names in its environment are put into one namespace, the call's own (`Uniform`).
  It does not matter then which of several entries for a name `List.Assoc.find` comes upon
  (`PrefixedUniform`), so the property needs no assumption that names are unambiguous.
  What a dependency reports has its namespace in front once, and nested namespaces
  concatenate to the full one (`InTwice`, `CallCloses`). Local bindings have no namespace, so they hide
  functions of libraries imported without one and no types. Uses in literals are excepted, because
  `rename_in_expr` passes them over (`imports_literals`). Constructors are reported under
  their new names, so an importer looks up a name that it never uses (`imports_constructors`).

* `AcceptsAlwaysForeseen` (`AcceptsForeseen`), for contracts of any components, of any length, with any number of
  branches and matches nested to any depth. The invariant `AcceptInv` says that the accepts so far, together with
  `MostAccepts` of what is left to run, are no more than `MostAccepts` of the component;
  a match adds a branch in front of what is left, which has at most as many (`MostOfBranch`, `MostJoined`).
  The rest is about the walk. `Raised` says that it gives every path at most
  so many accepts as the statements have, and gives some continuation of every path
  exactly that many (`WalkRaises` for sequences, `BranchesRaise` for a match). `LevelsFit` is the induction on
  the depth of nesting; the depth itself makes no difference to a statement (`MostAnywhere`).
  So the greatest number of accepts on a path is `MostAccepts` (`GroupsReachMost`), and
  the two warnings are exactly `MostAccepts >= 2` of a component and `MostAccepts = 0` of all.

Only model-checked:

* liveness (`Answered`, `RunsEnd`, `SigningEnds`), which is out of the prover's reach;
* the pattern checker (`VerdictExact`): its walk and the matching it is compared with are RECURSIVE operators over
  trees of patterns and descriptions, and the property enumerates values down to a depth,
  which is enough for the types of the run but not for every type.

## 5. Not modelled

* IPC mode of the state service: every query of it fails with "unimplemented".
* Expressions: closures, `Fixpoint` and pattern matching appear only as a cost and a
  binding in the evaluator; matching itself is in `PatternChecker`.
* The contents of JSON files and of messages other than their amounts; whether a
  file is accepted is a choice. For `Imports`, the name maps of init files are the identity of a library.
* Parsers and lexers (generated), printing, error locations, command lines, configuration.
* Typing, the recursion checker and additions to the dictionary of data types.
* The decision tree that the pattern checker also builds; calls of procedures in
  the accept checker, which it does not follow either (`Accept.ml:19-20` speaks of code paths).
* `Cashflow.ml` and `GasUseAnalysis.ml`: large analyses over syntax trees of
  expressions, whose results have no counterpart in a model without expressions.
* In the C++ library: logging, `PrintPoint`, mutexes, `BN_new` and `EC_POINT_new` that return no memory
  (the code logs this and goes on with a null pointer), a conversion that fails inside a comparison of keys, a copy of a
  number or point that fails half-way, and messages so long that `offset + size` wraps. Objects hold their numbers by value, so copying is not a step.
* The ECDSA wrapper and the encoding of addresses.

Disagreements that were seen on the way and that no run repeats: the call trace lacks the
running procedure and keeps those that have returned (`src/src/lang/eval/Eval.ml:351`); the
penalty for a version mismatch can take the gas counter below zero
(`src/src/runners/scilla_runner.ml:229`); the guard for libraries tests another flag
(`src/src/runners/scilla_runner.ml:186`); an error in a library's init file is
printed and the output written all the same (`src/src/runners/scilla_runner.ml:153`).

## 6. Plan

Done: state service, evaluator, runner, integer arithmetic, pattern and accept
checkers, imports, the Schnorr library and its builtins. In order of importance, what is left:

1. `Inputs`: `init_contract`, `create_cur_state_fields`, `check_message_entries`,
   `check_blockchain_entries` against what a set of entries should contain;
   replaces the choice in `Runner`'s `InitModule` and `PrepareForMessage`.
2. `LibraryScope`: `init_libraries` with the data type dictionary, initialised twice per run.
3. `Cashflow`: the lattice of tags, monotonicity of its steps, termination of the
   fixpoint; `GasUseAnalysis`: polynomial arithmetic against evaluation; cost tables of `Gas.ml`.
4. The theorem that is missing: `VerdictExact` of `PatternChecker`.
