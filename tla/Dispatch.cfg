SPECIFICATION DispatchSpec
CONSTANTS
  IvWord = 3
  SectorSize = 2
  ChunkSectors = 2
  MaxWorkers = 3
  MaxSectors = 5
  Jobs <- MCJobs
INVARIANTS
  TypeOK
  SuccessIsComplete
  OldOrFinal
  ProgressIsHonest
  SynchronousPrefix
  EqualSectorsDiffer
  Partition
PROPERTIES
  Termination
  ImplementsPromise
