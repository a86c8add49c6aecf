SPECIFICATION Spec
CONSTANTS
  Wallets = {"alice"}
  Currencies = {"NGN"}
  Refs = {"w1", "w2"}
  GatewayRefs <- GateTwo
  Sessions = {"worker", "w1", "w2"}
  CheckConstraint = TRUE
  Opening <- Three
  OpenAssets <- All
  NoRow = NoRow
  NoGateway = NoGateway
  NoBatch = NoBatch
  Events <- WdrEvents
  Requests = {h1}
  FaultSets <- Restarts
  NoEvent = NoEvent
  NoJob = NoJob
  Worker = "worker"
  Verifiers = {}
  Withdrawers = {"w1", "w2"}
  Charges <- NoCodes
  ChargeOf <- AskOne
  WantOf <- WantTwo
  TransferOf <- Moves
  RowOf <- WdrRows
INVARIANTS NonNegative BalanceMatchesLedger WithdrawalRecorded
PROPERTIES LedgerImplemented
