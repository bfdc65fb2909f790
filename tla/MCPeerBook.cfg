SPECIFICATION FairSpec
CONSTANTS
  a = a
  b = b
  r1 = r1
  r2 = r2
  h1 = h1
  Node = {a, b}
  Ip = {r1, r2, h1}
  Hotspot = {h1}
  None = None
  Home <- HomeAddresses
  MAX_ACTS = 2
INVARIANTS
  TypeOK
  TrustNeedsHello
PROPERTIES
  AddressesKept
  EventuallyDialable
