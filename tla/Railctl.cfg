SPECIFICATION Spec
CONSTANTS
  p = p
  q = q
  alice = alice
  bob = bob
  None = None
  mine = mine
  Procs = {p, q}
  Names = {alice, bob}
  Configs <- MCConfigs
  Chains <- MCChains
  OtherPaths = {}
  GivenKeys = {mine}
  MaxKeys = 1
  Overlap = FALSE
SYMMETRY Interchangeable
INVARIANTS
  TypeOK
  ProfileComplete
  PrintedKept
  StoreOneLedger
  ProfileStoreOwn
PROPERTIES
  DomainsStable
