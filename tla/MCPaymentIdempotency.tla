------------------------ MODULE MCPaymentIdempotency ------------------------
(* Payment idempotency on small instances: clients, keys and fingerprints   *)
(* are interchangeable.                                                     *)
EXTENDS PaymentIdempotency, TLC

Symmetry == Permutations(Clients) \cup Permutations(Keys)
              \cup Permutations(Prints)
=============================================================================
