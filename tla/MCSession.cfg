\* A clock that wraps every six milliseconds, and a socket that may get older.
SPECIFICATION Spec
CONSTANTS
  Span = 6
  Junk = Junk
  PongTimers <- MCPongTimers
  Headers = {"LOGIN_USER", "PING", "VERSION"}
  PacketRoom = 4
  MaxPackets = 2
  MaxAge = 9
  MaxBack = 2
INVARIANTS
  TypeOK
  PingJudgesAge
  DifferenceIsElapsed
