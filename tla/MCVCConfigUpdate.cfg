\* Two updaters with different targets, and one change by another client.
SPECIFICATION FairSpec
CONSTANTS
  u1 = u1
  u2 = u2
  small = small
  medium = medium
  s1 = s1
  s2 = s2
  Updaters = {u1, u2}
  Flavors = {small, medium}
  Sizes = {s1, s2}
  Replicas <- MCReplicas
  InitialSize <- MCInitialSize
  TargetOf <- MCTargetOf
  MaxGeneration = 2
  MaxForeign = 1
\* The system stops when both commands have returned.
CHECK_DEADLOCK FALSE
INVARIANTS
  OutcomeIsHonest
PROPERTIES
  SendsOnlyWhatWasShown
  ConvergedIsReal
  UpdatesEnd
