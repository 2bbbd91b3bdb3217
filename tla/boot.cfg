SPECIFICATION IdentitySpec
CONSTANTS
  Privates = {a1, a2, a3}
  Publics = {p1, p2}
  None = None
  MaxDepth = 2
  MaxBoots = 4
  MaxFaults = 3
SYMMETRY Symmetry
CHECK_DEADLOCK FALSE
INVARIANTS
  IdentityTypeOK
  KeysOutliveTheWallet
  MintedForAReason
  FundedMeansLanded
  PairedWithWallet
PROPERTIES
  IdentityKept
