---------------------------- MODULE MCOtaUpdater ----------------------------
(* OtaUpdater for TLC: a second upload begins while the first one rolls back. *)
EXTENDS OtaUpdater

MCMeets == {<<"restore", FALSE>>}
=============================================================================
