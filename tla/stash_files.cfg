\* Two requests about one file, under fair scheduling, on a backend that shows files
\* while they are written; every call may fail.
SPECIFICATION FairSpec
CONSTANTS
  tiny = tiny
  low = low
  high = high
  big = big
  r1 = r1
  r2 = r2
  r3 = r3
  NoContent = NoContent
  Absent = Absent
  Torn = Torn
  Key = {tiny, low, high, big}
  Content = {tiny, low, high, big}
  Under <- NoDirs
  Redirects = {}
  Misreports = {}
  ShaOf <- Identity
  Size <- Sizes
  minimumSize = 2
  maximumSize = 3
  Ops <- SharedOps
  PartialWrites = TRUE
  Faults = {"temp", "stat", "put", "open", "get", "read", "close"}
  MaxRetries = 1
  MaxKills = 1
  Req = {r1, r2}
CHECK_DEADLOCK FALSE
INVARIANTS
  MissingWasNeverThere
  ReceiptIsStored
PROPERTIES
  StashAnswers
