----------------------------- MODULE MCVersioning -----------------------------
(***************************************************************************)
(* Bounded instance of Versioning: contents and requests are alike.        *)
(***************************************************************************)
EXTENDS Versioning, TLC

Symmetry == Permutations(Contents) \union Permutations(Requests)
=============================================================================
