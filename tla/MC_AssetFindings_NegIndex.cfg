CONSTANTS
  T1 = T1
  T2 = T2
  H1 = H1
  Nil = Nil
  Packets <- MCPackets
  Blobs <- MCBlobs
  PushNums <- MCPushNums
  AmountBits = 3
  MaxDepth = 4

SPECIFICATION Spec

CHECK_DEADLOCK FALSE

PROPERTY NegativeIndexRejected
