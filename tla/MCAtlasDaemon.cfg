CONSTANTS
  Clients = {c1}
  Projects = {p1}
  Uris = {1, 2}
  Texts = {t1, t2}
  Launches = {l1, l2}
  Commands <- FullCommands
  Faults <- AllFaults
  MaxSpawns = 3
  MaxGens = 3
  MaxDaemons = 2
  None = None
SYMMETRY Symmetry
SPECIFICATION Spec
INVARIANTS
  TypeOK
  LeanMirrorsOverlays
  ProjectsCoherent
PROPERTIES
  AcknowledgedEditReachedLean
  KeepsPromise
CHECK_DEADLOCK FALSE
