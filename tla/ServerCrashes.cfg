CONSTANTS
  c1 = c1
  Clients = {c1}
  Kinds = {"write", "invalid", "garbage"}
  MaxSent = 3
  MaxChunk = 2
  MaxBoots = 2
  Periodic = TRUE
  DiskFails = TRUE
  Crashes = TRUE
SPECIFICATION FairSpec
INVARIANTS TypeOK DiskIsPrefix ExactlyOnce SavedUnlessLate
PROPERTIES NoClientWaitsForever ShutdownEnds
