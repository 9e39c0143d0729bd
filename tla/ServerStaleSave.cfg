CONSTANTS
  c1 = c1
  c2 = c2
  Clients = {c1, c2}
  Kinds = {"write"}
  MaxSent = 1
  MaxChunk = 1
  MaxBoots = 1
  Periodic = TRUE
  DiskFails = FALSE
  Crashes = FALSE
SPECIFICATION Spec
INVARIANTS AckedSurvivesShutdown
SYMMETRY Symmetry
