\* A reply outgrows m_OutBuffer while the version packet is being sent.
SPECIFICATION Spec
CONSTANTS
  StorageSize = 2
  VersionLength = 1
  MaxReply = 2
  MaxIn = 2
  MaxOut = 3
  Outcomes = {"true"}
  OverlapSafe = TRUE
INVARIANT
  SentAsWritten
