\* Two requests of any kind, on a backend whose writes are atomic, whose reads do
\* not break off, and which may report a file as missing when a call fails.
SPECIFICATION Spec
CONSTANTS
  tiny = tiny
  low = low
  high = high
  big = big
  r1 = r1
  r2 = r2
  r3 = r3
  NoContent = NoContent
  Absent = Absent
  Torn = Torn
  Key = {tiny, low, high, big}
  Content = {tiny, low, high, big}
  Under <- NoDirs
  Redirects = {}
  Misreports <- Misleading
  ShaOf <- Identity
  Size <- Sizes
  minimumSize = 2
  maximumSize = 3
  Ops <- AllOps
  PartialWrites = FALSE
  Faults = {"temp", "stat", "put", "open", "get"}
  MaxRetries = 1
  MaxKills = 1
  Req = {r1, r2}
SYMMETRY Requests
CHECK_DEADLOCK FALSE
INVARIANTS
  TypeOK
  KeysAreShas
  MissingWasNeverThere
  MatchesAreExact
  ReceiptIsStored
  ThresholdsAreKept
  BundlesAreExact
  TempZipLifetime
PROPERTIES
  StepsAreBounded
  KeepsStashPromise
