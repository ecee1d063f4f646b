SPECIFICATION Spec
CONSTANTS
  Scenarios <- QuietRuns
  TransferArgs <- MCTransferArgs
INVARIANT
  QuietIsSilent
