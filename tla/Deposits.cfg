SPECIFICATION ScanLive
CONSTANTS
  FromBlock = 2
  MaxScanSpan = 2
  MaxBlock = 5
  Contents <- MCContents
INVARIANTS
  ScanTypeOK
  ObservedToCursor
PROPERTIES
  EveryDepositObserved
