----------------------------- MODULE MCLifecycle -----------------------------
(***************************************************************************)
(* Instances of Lifecycle for TLC. Requests and applications are           *)
(* interchangeable in every safety property: the order in which requests   *)
(* began is in the column "at", and no two applications are told apart.    *)
(***************************************************************************)
EXTENDS LifecycleProps, TLC

Symmetry == Permutations(Requests) \cup Permutations(Apps)
=============================================================================
