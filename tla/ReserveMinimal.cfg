SPECIFICATION Spec
CONSTANTS
  Policy <- MCMinimal
  PaymentGas = 1
  SwapGas = 2
  Caps = {1, 2}
  RefCap = 1
  Amounts = {1, 2}
  Quotes = {1, 2}
  GasBound = 7
  TokenBound = 5
INVARIANTS
  NeverStranded
