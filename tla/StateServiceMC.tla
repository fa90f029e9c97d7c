--------------------------- MODULE StateServiceMC ---------------------------
(* Small instances of StateService for TLC. *)
EXTENDS StateService, TLC

CONSTANTS ledger, flat, inner, item, j, k, a, b

(* A map of maps and a scalar, with a local for inner maps and one for      *)
(* scalars.                                                                 *)
NestedKind == (ledger :> 2) @@ (flat :> 0) @@ (inner :> 1) @@ (item :> 0)

(* Two maps of one level, with a local for each kind. *)
FlatKind == (ledger :> 1) @@ (flat :> 1) @@ (inner :> 1) @@ (item :> 0)

KeySymmetry == Permutations(Keys)
=============================================================================
