SPECIFICATION Spec
CONSTANTS
  Paths = {p1}
  Contents = {a, b}
  Absent = Absent
  Same = Same
  Undecided = Undecided
  Threads = {t1}
  MaxRevision = 5
  MaxVersion = 3
  MaxFaults = 1
  MaxMerges = 2
SYMMETRY BytesAreAlike
INVARIANTS
  ApprovalsAreClean
  SubmissionsAreKept
PROPERTIES
  NoUnseenOverwrite
  MergesAreDecided
CHECK_DEADLOCK FALSE
