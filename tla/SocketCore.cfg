\* Every way in which ProcessIncomingData of a subclass may end; Write may
\* outgrow m_OutBuffer while a transfer is running, and memcpy need not
\* survive overlapping ranges.
SPECIFICATION Spec
CONSTANTS
  StorageSize = 2
  VersionLength = 1
  MaxReply = 2
  MaxIn = 4
  MaxOut = 5
  Outcomes = {"true", "badmsg", "false"}
  OverlapSafe = FALSE
INVARIANTS
  TypeOK
  HandlerAsserts
  OneTrigger
  OutputFIFO
  InputFIFO
  ReadLoopAlive
PROPERTIES
  InTurn
