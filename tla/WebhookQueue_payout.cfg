SPECIFICATION QueueSpec
CONSTANTS
  Events <- OnePayout
  Requests = {h1, h2}
  FaultSets <- NoFaults
  NoEvent = NoEvent
  NoJob = NoJob
INVARIANTS IgnoredIsDuplicate
