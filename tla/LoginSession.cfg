\* Two network threads, an account whose password may change once.
SPECIFICATION FairSpec
CONSTANTS
  Threads = {t1, t2}
  None = None
  Names = {n1}
  Passwords = {p1, p2}
  RealmCounts = {0, 2, 5}
  MaxChanges = 1
INVARIANTS
  TypeOK
  Truthful
PROPERTIES
  OnlineIsEarned
  LoginEnds
