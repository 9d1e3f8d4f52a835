SPECIFICATION VenueSpec
CONSTANTS
  here = here
  there = there
  NoRouter = NoRouter
  Routers = {here, there}
  MaxPermits = 2
  Policy <- MCCovering
  PaymentGas = 1
  SwapGas = 2
  Caps = {1, 2}
  RefCap = 1
  Amounts = {1, 2}
  Quotes = {1, 3}
  GasBound = 7
  TokenBound = 5
SYMMETRY Interchangeable
INVARIANTS
  TypeOK
  NeverStranded
  RefillKeepsPayment
  RefillExecutes
PROPERTIES
  RefillEnables
  ResidueOfOne
