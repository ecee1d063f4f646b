SPECIFICATION Spec
CONSTANTS
  Scenarios <- PipedScript
  TransferArgs <- MCTransferArgs
INVARIANT
  CompletionsFailCleanly
