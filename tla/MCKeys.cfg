\* Our key: epochs of two numbers, so that frames run past one; two keys.
\* A peer's: two keys, so that frames of the first come late; two indexes, so that it can stay.
\* Four broadcasts of two copies in two slots, a boot of each kind; numbers wrap at 16.
CONSTANTS
  k1 = k1
  k2 = k2
  MgtkKeys = {k1, k2}
  None = None
  Epoch = 2
  Loose = 2
  MaxEpoch = 6
  MaxFrames = 3
  NKeys = 2
  Idx = {1, 2}
  MaxPn = 1
  MaxQueue = 1
  NumMod = 16
  SeqWindow = 2
  MaxJump = 7
  Margin = 3
  RestartGap = 2
  StampClear = 3
  AgeWrap = 6
  Copies = 2
  Slots = 2
  OrdMod = 3
  Draws = {8, 14}
  MaxBcasts = 4
  MaxBoots = 1
  MaxDraws = 1
SPECIFICATION KeysSpec
INVARIANTS
  PnFresh
  RscReaches
  GtkInv
  BcastInv
PROPERTIES
  RscCovers
  FencedOrTainted
  TakenOnce
  OwedUntilBack
\* The allocator's bound.
CHECK_DEADLOCK FALSE
