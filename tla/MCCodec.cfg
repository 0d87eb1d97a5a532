\* Every view of a packet of up to MaxView bits, and handshakes.
CONSTANTS
  ByteMod = 2
  ByteXor <- BitXor
  MagicStart = 1
  MagicEnd = 2
  MagicConnect <- MCMagicConnect
  Packets <- BlockPackets
  PacketViews <- AllViews
  HandshakeViews <- SomeHandshakes
  XorKeys <- SomeKeys
  MaxView = 14
  MaxBlock = 2

SPECIFICATION Spec
CHECK_DEADLOCK FALSE

INVARIANTS
  TypeOK
  ReadIsWritten
  WrittenIsRead
  XorInverts
