\* Two uploads of one package that are both announced before one is READY.
SPECIFICATION Spec
CONSTANTS
  k1 = k1
  k2 = k2
  c1 = c1
  c2 = c2
  e1 = e1
  e2 = e2
  dir = dir
  r1 = r1
  r2 = r2
  r3 = r3
  NoContent = NoContent
  Absent = Absent
  Torn = Torn
  NoReq = NoReq
  NoSource = NoSource
  Key = {k1, k2}
  Content = {c1, c2}
  Under <- Tree
  Redirects = {}
  Misreports = {}
  Closed = {"READY", "FAILED"}
  CCFaults = FALSE
  Req = {r1, r2}
  Ops <- UploadOps
  Notified = {k1, k2}
  MaxRetries = 1
  MaxCrashes = 0
SYMMETRY Requests
CHECK_DEADLOCK FALSE
PROPERTIES
  ReadyBitsAreNotReplaced
