SPECIFICATION LiveSpec
CONSTANTS
  a = a
  b = b
  shop = shop
  router = router
  CallerIDs = {a}
  Places = {shop}
  Venue = router
  Requests <- MCRequests
  Policy <- MCPolicy
  Fees <- MCFees
  Quotes = {1}
  Endpoints = {"right"}
  ElsewhereNonce = 0
  InitTokens = 3
  InitGas = 3
  PaymentGas = 1
  SwapGas = 2
  MaxNonce = 1
  MaxAttempts = 2
  Foreigners = FALSE
  MaxReorgs = 0
  GasBound = 0
  TokenBound = 0
PROPERTIES
  CheapGasResolves
