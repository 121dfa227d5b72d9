\* Three in a row and one that is gone, two of them asking for it, a table with one slot:
\* either neighbours go and come back and paths lapse while discoveries and announcements are
\* on their way, or a frame is lost and a path lapses.
CONSTANTS
  a = a
  b = b
  c = c
  d = d
  x = x
  NoPath = NoPath
  Node = {a, b, c, x}
  Near <- Row
  Relays = {a, b, c}
  Flows <- TwoAsk
  Keepers = {c}
  PathMax = 1
  Ttl = 3
  Hop = 4096
  PerrBurst = 8
  Outbox = 0
  SnMod = 8
  FirstSn = 6
  MaxAsks = 3
  MaxBreaks = 4
  MaxLosses = 1
  MaxLapses = 1
SPECIFICATION Spec
CONSTRAINT OneFault
INVARIANTS
  HwmpInv
  QuietLoopFree
  NoDeadEnd
\* Nobody asks any more.
CHECK_DEADLOCK FALSE
