\* Two senders, a ring of two, three blocks.
CONSTANTS
  tcpip = tcpip
  batman = batman
  b1 = b1
  b2 = b2
  b3 = b3
  None = None
  Depth = 2
  Senders = {tcpip, batman}
  Blocks = {b1, b2, b3}
  ClassRoom = 2
SPECIFICATION FairSpec
INVARIANTS
  UsbInv
  OneKick
  NoneStuck
PROPERTIES
  ImplementsFrameQueue
