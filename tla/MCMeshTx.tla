------------------------------ MODULE MCMeshTx ------------------------------
(* MeshTx on two slots.                                                    *)
EXTENDS MeshTx

CONSTANTS rec1, rec2, task1, task2, nodeA, nodeB
=============================================================================
