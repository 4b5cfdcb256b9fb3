SPECIFICATION FairSpec
CONSTANTS
  ByteValues = 4
  HighValues = 2
  LateWindow = 2
  StartIVs <- StartAtZero
  MaxRest = 1
  StopIVs = {}
  NetCapacity = 1
  MaxOutstanding = 1
  TornReads = FALSE
PROPERTIES Recovers
