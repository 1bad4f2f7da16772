------------------------ MODULE MCWorkspaceLoadCache ------------------------
(* WorkspaceLoadCache on three owners of one group, one more than the      *)
(* cache has room for: the owners before and after identity changes, and   *)
(* as many keys for eviction.  Four generations let a key be loaded, be    *)
(* evicted by the two others and be loaded again while its first load is   *)
(* in flight.                                                              *)
EXTENDS WorkspaceLoadCache, TLC

CONSTANTS o1, o2, o3, g1

MCOwners == {o1, o2, o3}
MCGroups == {g1}

(* Each property speaks of one key at a time: the data of one changes.     *)
OneKeyChanges == Cardinality({k \in Keys : server[k] > 1}) <= 1

OwnerSymmetry == Permutations(MCOwners)
=============================================================================
