SPECIFICATION NetSpec
CONSTANTS
  h1 = h1
  h2 = h2
  h3 = h3
  m1 = m1
  m2 = m2
  Ips <- Machines
  Pinged = {h1}
  Macs <- TwoMacs
  Frames <- SomeFrames
  CacheSize = 2
  TxSlots = 2
  RingSize = 2
  None = None
CONSTRAINT Unspoiled
VIEW Present
SYMMETRY Alike
INVARIANTS RingAccounts CacheIsLatest SentAsBuilt
