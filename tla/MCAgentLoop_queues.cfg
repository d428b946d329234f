\* Queues: three inputs over the three lanes, with and without delivery.
CONSTANTS
  SteeringMode = "one-at-a-time"
  FollowUpMode = "all"
  Deliver = {TRUE, FALSE}
  MaxTools = 1
  MaxInputs = 3
  MaxRuns = 2
  MaxBatches = 2
  MaxFaults = 0
SPECIFICATION Spec
INVARIANT LaneOrder
PROPERTY InputLostOnlyByAbort
