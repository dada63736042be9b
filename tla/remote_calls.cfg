\* Two calls of any kind to any of the six backends, overlapping as they like.
SPECIFICATION FairSpec
CONSTANTS
  k1 = k1
  k2 = k2
  d = d
  c1 = c1
  c2 = c2
  p1 = p1
  p2 = p2
  p3 = p3
  NoContent = NoContent
  Absent = Absent
  Torn = Torn
  Key = {k1, k2, d}
  Content = {c1, c2}
  Under <- Tree
  Listing <- InOrder
  Blocks <- BlockCounts
  PageSize = 1
  Backends = {"s3", "gcp", "azure", "openstack", "alibaba", "webdav"}
  Call = {p1, p2}
  Jobs <- AllJobs
  Files <- SomeFiles
  MaxKills = 1
CHECK_DEADLOCK FALSE
INVARIANTS
  TypeOK
  SamePutsConverge
  NoBucketIsNotNotFound
PROPERTIES
  StepsAreBounded
  KeepsContract
  CallsReturn
