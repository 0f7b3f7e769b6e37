CONSTANTS
  Clients = {c1, c2}
  Projects = {p1, p2}
  Uris = {1}
  Texts = {t1}
  Launches = {l1}
  Commands <- LiveCommands
  Faults <- LiveFaults
  MaxSpawns = 2
  MaxGens = 2
  MaxDaemons = 1
  None = None
SPECIFICATION FairSpec
PROPERTIES
  StopCompletes
  EveryRequestAnswered
CHECK_DEADLOCK FALSE
