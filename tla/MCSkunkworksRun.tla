--------------------------- MODULE MCSkunkworksRun ---------------------------
(* The real ceilings of ceilings.py and runners.py, in units of 100 seconds. *)
EXTENDS SkunkworksRun
=============================================================================
