\* Three network threads and up to four sockets.
SPECIFICATION FairSpec
CONSTANTS
  WorkerCount = 3
  Sockets = {s1, s2, s3, s4}
INVARIANTS
  TypeOK
  Registered
  LeastLoaded
PROPERTY
  AcceptingGoesOn
