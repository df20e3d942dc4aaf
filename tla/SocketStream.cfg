\* The server as built, which reads everything and returns true, while
\* m_OutBuffer never has to grow: both directions are streams.
SPECIFICATION FairSpec
CONSTANTS
  StorageSize = 4
  VersionLength = 1
  MaxReply = 2
  MaxIn = 5
  MaxOut = 4
  Outcomes = {"true"}
  OverlapSafe = TRUE
INVARIANT
  ReadHasRoom
PROPERTIES
  OutgoingStream
  IncomingStream
  ClosedIsReleased
