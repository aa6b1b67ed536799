\* A request that was authenticated before a transfer answers after it.
SPECIFICATION IdentitySpec
CONSTANTS
  Units = {u1}
  Sites = {a, b}
  NoSite = NoSite
  IdentityCalls = {c1, c2}
  MaxSecret = 3
PROPERTY
  SecretWaitsForUnit
CHECK_DEADLOCK FALSE
