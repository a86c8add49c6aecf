SPECIFICATION QueueFairSpec
CONSTANTS
  Events <- TwoCharges
  Requests = {h1, h2, h3}
  FaultSets <- EitherFaults
  NoEvent = NoEvent
  NoJob = NoJob
INVARIANTS QueueTypeOK QueuedIsKept 
PROPERTIES Drained
