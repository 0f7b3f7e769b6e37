---------------------------- MODULE MCAtlasDaemon ----------------------------
(* Instances of AtlasDaemon for TLC. *)
EXTENDS AtlasDaemon, TLC

FullCommands == {"ping", "openProject", "projectStatus", "openDocument",
                 "changeDocument", "closeDocument", "query", "restartLean",
                 "closeProject"}
\* Frontends that never close a project.
OpenEndedCommands == FullCommands \ {"closeProject"}
\* Enough commands to keep one project's Lean busy while others wait.
LiveCommands == {"ping", "openProject", "openDocument", "query"}

LeanFaults == {"refuse", "garble", "exit", "spawn"}
ObedientFaults == LeanFaults \ {"refuse"}
\* A child that fails every answer, leaves at any moment or outlives its shutdown.
LiveFaults == {"garble", "exit", "timeout"}

Symmetry == Permutations(Clients) \cup Permutations(Texts)
=============================================================================
