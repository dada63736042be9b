\* A copy of a resource onto itself.
SPECIFICATION Spec
CONSTANTS
  k1 = k1
  k2 = k2
  d = d
  c1 = c1
  c2 = c2
  p1 = p1
  p2 = p2
  p3 = p3
  NoContent = NoContent
  Absent = Absent
  Torn = Torn
  NoFile = NoFile
  Key = {k1, k2, d}
  Content = {c1, c2}
  Under <- Tree
  Length <- Lengths
  Call = {p1}
  Jobs <- CopyToSelf
  Files <- OneFile
  MaxKills = 0
CHECK_DEADLOCK FALSE
PROPERTIES
  CopiesLeaveTheSourceIntact
