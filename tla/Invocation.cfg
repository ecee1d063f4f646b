SPECIFICATION Spec
CONSTANTS
  Scenarios <- MCScenarios
  TransferArgs <- MCTransferArgs
INVARIANTS
  StreamsStayClean
  OutcomeClosesLog
  FailureIsExplained
  EnvCheckedFirst
  WorkersFitQuota
