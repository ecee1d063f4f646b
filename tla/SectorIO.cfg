SPECIFICATION Spec
CONSTANTS
  DIRECT_IO_ALIGNMENT = 4
  Blocks = {2, 4}
  Calls <- ImageCalls
  MaxFile = 12
INVARIANTS
  ReadExact
  WriteExact
  DirectAccepted
