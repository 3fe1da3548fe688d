SPECIFICATION IterSpec
CONSTANTS
  NKeys = 3
  MaxChanges = 0
  Entries0 <- SettledEntry
INVARIANT
  UndisturbedReadReplays
