SPECIFICATION FairSpec
CONSTANTS
  t1 = t1
  t2 = t2
  Callers <- TwoCallers
  HeapStart = 5
  HeapSize = 66
  BlockSize = 12
  Alignment = 4
  SizeMax = 127
  Requests <- SomeRequests
INVARIANTS Tiling NoAliasing Coalesced NoLeak FailsOnlyWhenFull
PROPERTIES CallsReturn ImplementsAllocator
