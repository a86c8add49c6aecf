SPECIFICATION Spec
CONSTANTS
  Wallets = {"alice"}
  Currencies = {"NGN"}
  Refs = {"w1"}
  GatewayRefs <- GateOne
  Sessions = {"worker", "w1"}
  CheckConstraint = TRUE
  Opening <- Three
  OpenAssets <- All
  NoRow = NoRow
  NoGateway = NoGateway
  NoBatch = NoBatch
  Events <- WdrEvents
  Requests = {h1}
  FaultSets <- NoFaults
  NoEvent = NoEvent
  NoJob = NoJob
  Worker = "worker"
  Verifiers = {}
  Withdrawers = {"w1"}
  Charges <- NoCodes
  ChargeOf <- AskOne
  WantOf <- WantTwo
  TransferOf <- Moves
  RowOf <- WdrRows
INVARIANTS PayoutIsDebited
