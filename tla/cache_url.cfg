\* A URL signed for the download of a buildpack_cache entry.
SPECIFICATION Spec
CONSTANTS
  Absent = Absent
  Refused = Refused
  Content = {stored}
  Parcel = {uploaded}
  stored = stored
  uploaded = uploaded
  Char <- Letters
  PlainChar <- PlainLetters
  DirectoryKey <- Directory
  Resource <- Resources
  App <- Apps
  Second = 2
  Hour = 6
  MaxTime = 9
  MaxURLs = 1
CHECK_DEADLOCK FALSE
INVARIANTS
  DownloadsAreOfWhatIsSigned
