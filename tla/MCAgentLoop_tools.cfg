\* Batches, aborts and faults: two runs, two calls per batch, two faults.
CONSTANTS
  SteeringMode = "one-at-a-time"
  FollowUpMode = "one-at-a-time"
  Deliver = {TRUE}
  MaxTools = 2
  MaxInputs = 2
  MaxRuns = 2
  MaxBatches = 1
  MaxFaults = 2
SPECIFICATION FairSpec
INVARIANTS CallsPaired ContextIsTranscript PendingCallsExact
PROPERTIES AbortEndsRun NothingStartsAborted ToolOverBeforeResult
