---------------------------- MODULE MCCreditCheck ----------------------------
(***************************************************************************)
(* Instances of CreditCheck for TLC: a client's application that is        *)
(* assigned to a worker, with the client's ID number on file, and one of a *)
(* worker's own, assigned to nobody, without.                              *)
(***************************************************************************)
EXTENDS CreditCheckProps, TLC

CONSTANTS a1, a2, c1, w1

MCApplicant == [a \in Apps |-> IF a = a1 THEN c1 ELSE w1]
MCAssigned == [a \in Apps |-> IF a = a1 THEN w1 ELSE Null]

Symmetry == Permutations(Requests) \cup Permutations(Hooks)

\* Bound, where no property looks into a report: every callback has an id and a
\* field for the score
CompleteCallbacks ==
  \A w \in Hooks : Accepted(w) => hook[w].named /\ hook[w].scored
=============================================================================
