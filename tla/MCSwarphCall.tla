---------------------------- MODULE MCSwarphCall ----------------------------
(* A hook on either side of the attribution writer, two on_error hooks.      *)
EXTENDS SwarphCall
=============================================================================
