SPECIFICATION SharedSpec
CONSTANTS
  Runs = {1, 2, 3}
  RunsWithReader = {1, 2}
  MaxUnits = 2
  NoSize = NoSize
  Sizes = {NoSize, 0, 64, 128, 192, 256, 512}
  Alphabet = {0, 1}
  MaxWords = 9
  MaxText = 4
  AlignRuns = {1, 2}
  U64Max = 15
  Alignments = {0, 1, 2, 3, 4, 8, 9, 15}
  MaxAppends = 2
  IvWord = 3
  HeadSectors = 8
  ExtSector = 2
  MaxVolume = 9
  Bytes = {1, 2, 3}
  MaxStream = 5
  WindowSizes = {1, 2, 3, 4}
  Thresholds = {0, 1, 2}
INVARIANTS
  NeverMixed
  WrittenIsWhole
  UnreachableIsUnreachable
  NoRepeatedWord
  MaterialIsExact
  UsedKeyIsWhole
  FixThenCheckPasses
  VerdictIsRight
  WindowsTile
  GateIsRight
PROPERTIES
  CutsOnlyWhatOvertook
