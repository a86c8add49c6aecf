SPECIFICATION FairSpec
CONSTANTS
  Requests = {r1, r2, r3}
  Routes = {"swap", "transfer"}
  Limit <- TwoLimits
  Window = 2
  MaxCount = 3
  NoTTL = NoTTL
  NoRoute = NoRoute
INVARIANTS TypeOK LimitHolds CounterExpires
PROPERTIES LimitedIsTemporary
