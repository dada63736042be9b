\* Two concurrent uploads to one package under fair scheduling, a kill of the
\* process, and a Cloud Controller that always answers.
SPECIFICATION FairSpec
CONSTANTS
  k1 = k1
  k2 = k2
  c1 = c1
  c2 = c2
  e1 = e1
  e2 = e2
  dir = dir
  r1 = r1
  r2 = r2
  r3 = r3
  NoContent = NoContent
  Absent = Absent
  Torn = Torn
  NoReq = NoReq
  NoSource = NoSource
  Key = {k1}
  Content = {c1, c2}
  Under <- Tree
  Redirects = {}
  Misreports = {}
  Closed = {"READY", "FAILED"}
  CCFaults = FALSE
  Req = {r1, r2}
  Ops <- UploadOps
  Notified = {k1}
  MaxRetries = 1
  MaxCrashes = 1
CHECK_DEADLOCK FALSE
INVARIANTS
  ProcessingHasOwner
PROPERTIES
  EveryRequestIsAnswered
  AnnouncedUploadsGetVerdict
