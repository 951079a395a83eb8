------------------------------ MODULE MCOutbox ------------------------------
(* The outbox on small instances.                                          *)
EXTENDS Outbox, TLC

\* The default when HOSTNAME is not set: every process has an id of its own.
OwnIds == [w \in Workers |-> w]

\* Workers on a host share HOSTNAME.
HostIds == [w \in Workers |-> CHOOSE id \in Ids : TRUE]

Symmetric == Permutations(Events) \cup Permutations(Workers)

=============================================================================
