--------------------------- MODULE MCJobLifecycle ---------------------------
(* Values of JobLifecycle's constants for TLC. *)
EXTENDS JobLifecycle, TLC

NoSweeper == {}
=============================================================================
