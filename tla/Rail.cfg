SPECIFICATION Spec
CONSTANTS
  a = a
  b = b
  shop = shop
  router = router
  CallerIDs = {a, b}
  Places = {shop}
  Venue = router
  Requests <- MCRequests
  Policy <- MCPolicy
  Fees <- MCFees
  Quotes = {1}
  Endpoints = {"right"}
  ElsewhereNonce = 0
  InitTokens = 3
  InitGas = 3
  PaymentGas = 1
  SwapGas = 2
  MaxNonce = 1
  MaxAttempts = 2
  Foreigners = TRUE
  MaxReorgs = 1
  GasBound = 0
  TokenBound = 0
SYMMETRY Identifiers
INVARIANTS
  TypeOK
  RecordedBeforeBroadcast
  AtMostOnce
  OneInFlight
  NoGap
  FactsAreTrue
  AttemptsReplace
PROPERTIES
  FloorStep
  ImplementsPayments
