CONSTANTS
  Codes = {c1, c2}
  Downloads = {d1, d2}
  Size = 1
  TTL = 1
  MaxCrashes = 1
  NoCode = NoCode
SPECIFICATION FairSpec
INVARIANTS
  OneTime
  NeverHalfWritten
  Accounted
  WinnerServed
PROPERTIES
  KeepsUntilTTL
  NothingLingers
  ImplementsMailbox
