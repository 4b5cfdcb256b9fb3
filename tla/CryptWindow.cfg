SPECIFICATION Spec
CONSTANTS
  ByteValues = 6
  HighValues = 6
  LateWindow = 3
  StartIVs <- StartBeforeCarry
  MaxRest = 4
  StopIVs <- StopAfterTurn
  NetCapacity = 2
  MaxOutstanding = 1
  MaxResyncs = 1
  TornReads = TRUE
INVARIANTS TypeOK AtMostOnce NewestLeads HistoryCovers LostWithinOne FreshIsNoRepeat
PROPERTIES ImplementsWindow NewestNeverBack
