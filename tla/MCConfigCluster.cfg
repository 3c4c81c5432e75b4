\* cluster set on a configuration that holds nothing but credentials; nobody signs in.
SPECIFICATION FilesSpec
CONSTANTS
  p1 = p1
  p2 = p2
  p3 = p3
  Procs = {p1, p2, p3}
  UpdateOf <- MCRefused
  Starts <- PlainStarts
  NoProc = NoProc
  u1 = u1
  u2 = u2
  Users = {}
  SProfiles = {"x", "x-pt", "y"}
  Paired <- MCPaired
  Tasks <- MCTasks
  Nobody = Nobody
CHECK_DEADLOCK FALSE
PROPERTIES
  EndpointsFollowTheCluster
