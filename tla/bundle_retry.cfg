\* A bundle one of whose reads breaks off.
SPECIFICATION Spec
CONSTANTS
  tiny = tiny
  low = low
  high = high
  big = big
  r1 = r1
  r2 = r2
  r3 = r3
  NoContent = NoContent
  Absent = Absent
  Torn = Torn
  Key = {tiny, low, high, big}
  Content = {tiny, low, high, big}
  Under <- NoDirs
  Redirects = {}
  Misreports = {}
  ShaOf <- Identity
  Size <- Sizes
  minimumSize = 2
  maximumSize = 3
  Ops <- SharedOps
  PartialWrites = FALSE
  Faults = {"read"}
  MaxRetries = 1
  MaxKills = 0
  Req = {r1, r2}
CHECK_DEADLOCK FALSE
INVARIANTS
  BundlesAreExact
