----------------------------- MODULE MCPayroll -----------------------------
(* Payroll on small instances: handlers are interchangeable, and so are the *)
(* rows of a batch.                                                         *)
EXTENDS Payroll, TLC

HandlerSymmetry == Permutations(Workers)
Symmetry == Permutations(Workers) \cup Permutations(Txs)
=============================================================================
