------------------------- MODULE MCRestartRollback -------------------------
(* The instances of RestartRollback that TLC checks are in its .cfg files. *)
EXTENDS RestartRollback
=============================================================================
