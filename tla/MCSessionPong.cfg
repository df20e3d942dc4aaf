\* The clock is never set back.
SPECIFICATION Spec
CONSTANTS
  Span = 8
  Junk = Junk
  PongTimers <- MCPongTimers
  Headers = {"PING"}
  PacketRoom = 3
  MaxPackets = 1
  MaxAge = 5
  MaxBack = 0
INVARIANT
  SilentIfLate
