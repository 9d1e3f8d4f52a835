SPECIFICATION Spec
CONSTANTS
  FromBlock = 1
  MaxScanSpan = 2
  MaxBlock = 4
  Contents <- MCContents
  Payees = {"other"}
  Amounts = {2}
  MaxOps = 2
  AsksAfterErrors = FALSE
INVARIANTS
  BooksAgree
