CONSTANTS
  Clients = {c1, c2}
  Projects = {p1}
  Uris = {1, 2}
  Texts = {t1, t2}
  Launches = {l1}
  Commands <- OpenEndedCommands
  Faults <- ObedientFaults
  MaxSpawns = 2
  MaxGens = 3
  MaxDaemons = 1
  None = None
SYMMETRY Symmetry
SPECIFICATION Spec
INVARIANTS
  SessionsTruthful
PROPERTIES
  FencedWorkReachesObservedLean
CHECK_DEADLOCK FALSE
