\* One task sends every kind of frame on a leaf of a mesh with SAE; the pool has room for a frame and
\* one copy.
CONSTANTS
  rec1 = rec1
  rec2 = rec2
  task1 = task1
  task2 = task2
  nodeA = nodeA
  nodeB = nodeB
  None = None
  MaxPeers = 2
  Records = {rec1, rec2}
  Readers = {task1}
  Addrs = {nodeA, nodeB}
  Sae = TRUE
  PoolSize = 2
  MaxBurst = 2
  Leaf = TRUE
  Kinds = {"uni", "ra", "group", "std"}
SPECIFICATION TxFairSpec
INVARIANTS
  TxInv
  ReplicatedOnce
PROPERTIES
  NoStarvation
