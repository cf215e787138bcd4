----------------------------- MODULE MCDiscovery -----------------------------
(* Two threads: one in flight while the other stores, forgets or reads.      *)
EXTENDS Discovery
=============================================================================
