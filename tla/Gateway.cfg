CONSTANTS
  Items = {b1, b2}
  Gated = TRUE
  Addresses = {a1, a2}
  Unset = none
  MaxGeneration = 3
SPECIFICATION FairSpec
INVARIANTS
  Inv
  ShownWasReadOnThisNetwork
  SettledOnNetwork
PROPERTIES
  LinkLossIsShown
  NetworkIsFollowed
