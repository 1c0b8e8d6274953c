\* A first URL and its rotation, with two warm environments.
CONSTANTS
  w1 = w1  w2 = w2
  u1 = u1  u2 = u2
  Writer = {w1, w2}
  Environment = {e1, e2}
  Url = {u1, u2}
  UrlOf <- MCUrlOf
  MaxVersions = 3

SPECIFICATION FairSpec

INVARIANTS
  ReceiptNamesItsPut
  RefusedIsOvertaken

PROPERTIES
  ResolvesInTheEnd
