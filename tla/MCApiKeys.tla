----------------------------- MODULE MCApiKeys -----------------------------
(* Requests are interchangeable. *)
EXTENDS ApiKeys, TLC

Symmetry == Permutations(Request)

=============================================================================
