SPECIFICATION IterSpec
CONSTANTS
  NKeys = 3
  MaxChanges = 1
  Entries0 <- AnyEntry
INVARIANTS
  ValidatedIsSerial
  QuietReadReplays
