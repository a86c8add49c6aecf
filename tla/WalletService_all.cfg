SPECIFICATION FairSpec
CONSTANTS
  alice = alice  bob = bob  naira = naira  dollars = dollars
  k1 = k1  k2 = k2  p1 = p1  p2 = p2
  Wallets = {alice, bob}
  Currencies = {naira, dollars}
  Keys = {k1, k2}
  Refs <- MCRefs
  RefOf <- MCRefOf
  GatewayRefs = {}
  Sessions = {p1, p2}
  Calls <- AllCalls
  Rates = {2}
  RedisFaults = TRUE
  CheckConstraint = TRUE
  Opening <- MCOpening
  OpenAssets <- MCOpenAssets
  NoRow = NoRow  NoGateway = NoGateway  NoBatch = NoBatch  NoCall = NoCall
INVARIANTS TypeOK NonNegative BalanceMatchesLedger PairedLegs  AppliedOnce OneHolder MarkerSound
PROPERTIES LogKept LedgerImplemented KeyReleased Answered
