\* Two discoveries of one node, from two tasks, and a keep-alive.
CONSTANTS
  a = a
  b = b
  c = c
  d = d
  x = x
  NoPath = NoPath
  Node = {a, b, c, d}
  Near <- Line
  Relays = {a, b, c}
  Flows <- AsksTwo
  Keepers = {d}
  PathMax = 4
  Ttl = 4
  Hop = 4096
  PerrBurst = 8
  Outbox = 1
  SnMod = 8
  FirstSn = 6
  MaxAsks = 3
  MaxBreaks = 0
  MaxLosses = 0
  MaxLapses = 0
SPECIFICATION FairSpec
INVARIANTS
  NumbersRise
PROPERTIES
  Answered
\* Nobody asks any more.
CHECK_DEADLOCK FALSE
