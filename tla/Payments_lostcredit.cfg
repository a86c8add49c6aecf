SPECIFICATION Spec
CONSTANTS
  Wallets = {"alice"}
  Currencies = {"NGN"}
  Refs = {"charge1", "charge2"}
  GatewayRefs <- NoCodes
  Sessions = {"worker", "v1", "v2"}
  CheckConstraint = TRUE
  Opening <- Nothing
  OpenAssets <- NoCodes
  NoRow = NoRow
  NoGateway = NoGateway
  NoBatch = NoBatch
  Events <- OneCharge
  Requests = {h1}
  FaultSets <- NoFaults
  NoEvent = NoEvent
  NoJob = NoJob
  Worker = "worker"
  Verifiers = {"v1", "v2"}
  Withdrawers = {}
  Charges <- TwoCharges
  ChargeOf <- AskTwo
  WantOf <- WantTwo
  TransferOf <- Moves
  RowOf <- WdrRows
INVARIANTS ProcessedIsCredited
