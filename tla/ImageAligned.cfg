SPECIFICATION Spec
CONSTANTS
  IvWord = 3
  SectorSize = 2
  ChunkSectors = 2
  U64Max = 15
  Sessions <- MCSessions
INVARIANTS
  OutputAligned
