---------------------------- MODULE MCMeshClient ----------------------------
(* Two tasks of one node: one fetches while the other sends, marks or closes. *)
EXTENDS MeshClient, TLC

MCFetches == {[to |-> "me",  unread_only |-> TRUE,  limit |-> 0],
              [to |-> "me",  unread_only |-> FALSE, limit |-> 1],
              [to |-> "you", unread_only |-> FALSE, limit |-> 0]}

MCSymmetry == Permutations(Tasks)
=============================================================================
