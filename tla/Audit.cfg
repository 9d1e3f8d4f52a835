SPECIFICATION Spec
CONSTANTS
  FromBlock = 2
  MaxScanSpan = 2
  MaxBlock = 4
  Contents <- MCContents
  Payees = {"other"}
  Amounts = {2}
  MaxOps = 2
  AsksAfterErrors = TRUE
INVARIANTS
  TypeOK
  BooksAgree
