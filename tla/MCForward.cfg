\* Two targets, two slots of each kind, three frames; a ladder of two requests whose gap grows.
\* Five frames for three entries.
CONSTANTS
  t1 = t1
  t2 = t2
  Targets = {t1, t2}
  NoTarget = NoTarget
  OwnMax = 2
  RelayMax = 2
  PerTarget = 2
  OwnLife = 3
  FirstGap = 2
  GapCap = 3
  Retries = 1
  MinInterval = 2
  GlobalMin = 1
  Every = 2
  MaxSteps = 3
  MaxRefused = 1
  f1 = f1
  f2 = f2
  f3 = f3
  f4 = f4
  f5 = f5
  Copied = {f1, f2, f3, f4, f5}
  Queue = 3
  Keep = 3
  ClockWrap = 10
SPECIFICATION ForwardSpec
SYMMETRY HeldSymmetry

INVARIANTS
  HeldInv
  NoneStranded
  OnTime
  SeenInv
