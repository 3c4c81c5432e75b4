\* cluster set twice and a new profile at the same time; or two commands that
\* log in, log out or need tokens.
SPECIFICATION FilesSpec
CONSTANTS
  p1 = p1
  p2 = p2
  p3 = p3
  Procs = {p1, p2, p3}
  UpdateOf <- MCUpdates
  Starts <- MCStarts
  NoProc = NoProc
  u1 = u1
  u2 = u2
  Users = {u1, u2}
  SProfiles = {"x", "x-pt", "y"}
  Paired <- MCPaired
  Tasks <- MCTasks
  Nobody = Nobody
SYMMETRY MCUsers
\* The commands end.
CHECK_DEADLOCK FALSE
INVARIANTS
  ReaderSeesAWholeFile
PROPERTIES
  ReplacesWhatItRead
  OtherProfilesAreKept
  TokensAreItsOwn
  LostOnlyByOverlap
