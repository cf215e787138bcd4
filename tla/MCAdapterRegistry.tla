-------------------------- MODULE MCAdapterRegistry --------------------------
(* Two names: one with two specs, a cli and a router; and a metered router.  *)
EXTENDS AdapterRegistry

MCSpecs ==
    {[name |-> "a", kind |-> "cli", cap |-> 1, billing |-> "local_zero",
      intents |-> {"DEEP_CODE"}, models |-> {}],
     [name |-> "a", kind |-> "router", cap |-> 0, billing |-> "metered",
      intents |-> {"DEEP_CODE", "MESH_CC"}, models |-> {"m"}],
     [name |-> "b", kind |-> "router", cap |-> 0, billing |-> "metered",
      intents |-> {"DEEP_CODE"}, models |-> {"m", "k"}]}

MCGiven == {[runner |-> TRUE, provenance_path |-> TRUE, config_home |-> TRUE]}

\* The cli takes 1 byte; "k" and "b" are what names the second lane.
MCRequests ==
    [intent : {"DEEP_CODE"}, prompt_bytes : {1, 2}, model : {"", "k"}, budget_ok : BOOLEAN]
        \union {[intent |-> "DEEP_CODE", prompt_bytes |-> 2, model |-> "b", budget_ok |-> TRUE],
                [intent |-> "MESH_CC", prompt_bytes |-> 1, model |-> "m", budget_ok |-> TRUE]}

MCSymmetry == Permutations(Threads)
=============================================================================
