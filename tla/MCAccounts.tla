------------------------------ MODULE MCAccounts ------------------------------
(***************************************************************************)
(* An instance of Accounts for TLC. Requests are interchangeable: the order *)
(* of their commits is in seen, as sets.                                   *)
(***************************************************************************)
EXTENDS Accounts, TLC

Symmetry == Permutations(Requests)
=============================================================================
