\* Two executions and one history on top of them; one crash, shutdown or deletion.
SPECIFICATION FairSpec
CONSTANTS
  Disposer = Disposer
  None = None
  MaxRuns = 2
  Outers = {o1}
  MaxRetries = 1
  MaxDisruptions = 1
  MaxFailures = 1
  Faults = {"panic", "dispose", "delete", "manual"}
INVARIANTS
  TypeOK
  EndsAgree
  RunningIsAlive
  RetriedForCause
PROPERTY JobsSettle
CHECK_DEADLOCK FALSE
