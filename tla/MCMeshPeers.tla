---------------------------- MODULE MCMeshPeers ----------------------------
(* MeshPeers on two slots: blocks of the heap are reused after a free.     *)
EXTENDS MeshPeers

CONSTANTS rec1, rec2, task1, task2, nodeA, nodeB
============================================================================
