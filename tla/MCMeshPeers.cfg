\* Two slots, two blocks, two tasks, two neighbours, SAE; no fairness for the readers, and no
\* symmetry, for liveness.
CONSTANTS
  rec1 = rec1
  rec2 = rec2
  task1 = task1
  task2 = task2
  nodeA = nodeA
  nodeB = nodeB
  None = None
  AllPeers = AllPeers
  Loop = Loop
  MaxPeers = 2
  Records = {rec1, rec2}
  Readers = {task1, task2}
  Addrs = {nodeA, nodeB}
  Sae = TRUE
SPECIFICATION FairSpec
INVARIANTS
  IInv
  SlotNotReused
  ReclaimIsTheLoop
PROPERTIES
  ImplementsPeerReclaim
  SlotComesBack
  DelPeerReturns
