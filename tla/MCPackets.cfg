\* Packets of two fields at most, read by every function for their kind.
SPECIFICATION Spec
CONSTANTS
  Digit = 32
  Headers <- MCHeaders
  Values <- MCValues
  Numbers <- MCNumbers
  Texts <- MCTexts
  MaxFields = 2
INVARIANTS
  TypeOK
  ReadsBack
  InStep
