SPECIFICATION FilesSpec
CONSTANTS
  Tasks = {shell}
  Names <- TwoNames
  Contents <- TwoContents
  Writes <- OneName
  Nothing = Nothing
  Key = Key
  Clusters = 3
  SectorSize = 2
  DiskEnd = 4
  FatSectors = 2
  PerFatSector = 2
  RootSectors = 2
  PerRootSector = 2
  FdEnd = 6
  VfsFdEnd = 2
  Images <- OnlyEmpty
  MaxFailures = 0
CONSTRAINT Unspoiled
INVARIANT SavedIsRead
