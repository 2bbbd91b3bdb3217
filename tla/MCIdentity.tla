----------------------------- MODULE MCIdentity -----------------------------
(***************************************************************************)
(* Identity on a small instance.  Accounts are interchangeable.            *)
(***************************************************************************)
EXTENDS Identity, TLC

Symmetry == Permutations(Privates) \cup Permutations(Publics)
===============================================================================
