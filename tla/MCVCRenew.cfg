\* One run among edits and VCs that come and go, or two runs around one manifest.
SPECIFICATION MCSpec
CONSTANTS
  d = d
  pt = pt
  p1 = p1
  p2 = p2
  v1 = v1
  w1 = w1
  v2 = v2
  vx = vx
  Runs = {r1, r2}
  Envs = {d, pt}
  Paths = {p1, p2}
  Refs = {v1, w1, v2, vx}
  Written = {mine, other}
  Odd = Odd
  None = None
  Broken = Broken
  Unsafe = Unsafe
  EnvOf <- MCEnvOf
  PathOf <- MCPathOf
  AddressOf <- MCAddressOf
  Scopes <- MCScopes
  MaxEdits = 2
  MaxChurn = 1
\* The system stops when every run has returned.
SYMMETRY MCSame
CHECK_DEADLOCK FALSE
INVARIANTS
  OneWriter
PROPERTIES
  NeverOverwrites
  RemovalsAreJustified
  RemovedAsConfirmed
  AddedFilesAreUnambiguous
  ManifestKeepsTheRest
