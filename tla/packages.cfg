\* Two concurrent requests of any kind to a package or to buildpack_cache entries
\* and droplets, one retry, one kill of the process, and a Cloud Controller that
\* may lose calls.
SPECIFICATION Spec
CONSTANTS
  k1 = k1
  k2 = k2
  c1 = c1
  c2 = c2
  e1 = e1
  e2 = e2
  dir = dir
  r1 = r1
  r2 = r2
  r3 = r3
  NoContent = NoContent
  Absent = Absent
  Torn = Torn
  NoReq = NoReq
  NoSource = NoSource
  Key = {k1, k2, e1, e2, dir}
  Content = {c1, c2}
  Under <- Tree
  Redirects = {e1, e2, dir}
  Misreports <- Misleading
  Closed = {"READY", "FAILED"}
  CCFaults = TRUE
  Req = {r1, r2}
  Ops <- AllOps
  Notified = {k1, k2}
  MaxRetries = 1
  MaxCrashes = 1
SYMMETRY Requests
CHECK_DEADLOCK FALSE
INVARIANTS
  TypeOK
  VerdictsAreTrue
  LastWriteIsIntact
  RefusedLeavesNoTrace
  CreatedMeansStored
  TempFileLifetime
PROPERTIES
  KeepsPromise
