SPECIFICATION RestoreSpec
CONSTANTS
  a = a
  b = b
  shop = shop
  router = router
  CallerIDs = {a}
  Places = {shop}
  Venue = router
  Requests <- MCRequests
  Policy <- MCPolicy
  Fees <- MCCheapFees
  Quotes = {1}
  Endpoints = {"right", "lagging"}
  ElsewhereNonce = 0
  InitTokens = 2
  InitGas = 3
  PaymentGas = 1
  SwapGas = 2
  MaxNonce = 2
  MaxAttempts = 1
  Foreigners = FALSE
  MaxReorgs = 0
  GasBound = 1
  TokenBound = 1
  MaxRestores = 2
INVARIANTS
  ConfirmedIsTrue
  FloorMatched
  AtMostTwice
  OneInFlight
  NoGap
PROPERTIES
  AssignsMatchedButLast
