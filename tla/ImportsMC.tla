----------------------------- MODULE ImportsMC ------------------------------
EXTENDS Imports

(* Two libraries have the same names. *)
Names(lib) == IF lib = "c" THEN "y" ELSE "x"
SomeNamespaces == {<<>>, <<"N">>}
=============================================================================
