CONSTANTS
  SafeAfter = 3
  UsbRetries = 2
  CountMax = 4
  MaxEvents = 5
  Limit = 5
  Slack = 5
  Interval = 1
  Lag = 1
  MaxLate = 2
  Wrap = 8
  MaxStray = 1
  Watches <- WatchedSets
SPECIFICATION GuardsSpec
INVARIANTS
  BootInv
  NamesTheHung
  HangInv
PROPERTIES
  Settles
