SPECIFICATION FilesSpec
CONSTANTS
  Tasks = {shell, program}
  Names <- TwoNames
  Contents <- TwoContents
  Writes <- OneNew
  Nothing = Nothing
  Key = Key
  Clusters = 3
  SectorSize = 2
  DiskEnd = 4
  FatSectors = 2
  PerFatSector = 2
  RootSectors = 2
  PerRootSector = 2
  FdEnd = 5
  VfsFdEnd = 3
  Images <- SomeImages
  MaxFailures = 1
SYMMETRY Alike
CONSTRAINT Unspoiled
VIEW Present
INVARIANTS FilesStay NothingBehindTheEnd ClustersAccounted DescriptorsMatch
PROPERTIES LoadsWhole ImplementsStore
