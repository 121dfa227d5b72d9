CONSTANTS
  NKeys = 2
  Idx = {1, 2}
  MaxPn = 1
  MaxQueue = 1
SPECIFICATION GtkSpec
PROPERTIES
  TakenUnderItsKey
