-------------------------- MODULE MCOfflineDrafts ---------------------------
(* Offline drafts on small instances; the constants are in the .cfg files.  *)
EXTENDS OfflineDrafts
=============================================================================
