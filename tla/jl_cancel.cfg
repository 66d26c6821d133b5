\* 1 cancellation of a job, no fault, no sweep
SPECIFICATION Spec
CONSTANTS
  Canceller = {c1}
  Sweeper <- NoSweeper
  MaxAttempts = 2
  MaxRetries = 1
  MaxFaults = 0
CHECK_DEADLOCK FALSE
PROPERTY CancellationKept
