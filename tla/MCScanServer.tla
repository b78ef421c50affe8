---------------------------- MODULE MCScanServer ----------------------------
(* The scan server for TLC: the constants are numbers and switches. *)
EXTENDS ScanServer, TLC
=============================================================================
