---------------------------- MODULE MCTaskAction ----------------------------
(* TaskAction for TLC.                                                       *)
EXTENDS TaskAction
=============================================================================
