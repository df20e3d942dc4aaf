\* One socket; fits takes every value.
SPECIFICATION FairSpec
INVARIANTS
  TypeOK
  FlagIsTruth
PROPERTIES
  OnlyOpenRaces
  MemoryComesBack
