\* Five resources of three types in one bucket, on every backend, and a signed URL:
\* an hour is six ticks of the clock and a second two.
SPECIFICATION Spec
CONSTANTS
  Absent = Absent
  Refused = Refused
  Content = {stored}
  Parcel = {uploaded}
  stored = stored
  uploaded = uploaded
  Char <- Letters
  PlainChar <- PlainLetters
  DirectoryKey <- Directory
  Resource <- Resources
  App <- Apps
  Second = 2
  Hour = 6
  MaxTime = 9
  MaxURLs = 1
CHECK_DEADLOCK FALSE
INVARIANTS
  TypeOK
  DownloadsAreExact

  
