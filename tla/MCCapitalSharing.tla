-------------------------- MODULE MCCapitalSharing --------------------------
(* Capital sharing on small instances.  Identifiers, workers, actors and     *)
(* categories are interchangeable.                                           *)
EXTENDS CapitalSharing, TLC

Symmetry == Permutations(Workers) \cup Permutations(Actors)
              \cup Permutations(Consents) \cup Permutations(Shares)
              \cup Permutations(Categories)
=============================================================================
