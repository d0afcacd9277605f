--------------------------- MODULE MCJobLifecycle ---------------------------
(* The instance of JobLifecycle for TLC. *)
EXTENDS JobLifecycle
=============================================================================
