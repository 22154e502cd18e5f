\* Two concurrent RPC callers.
CONSTANTS
  a1 = a1
  a2 = a2
  Zero = Zero
  Clients = {c1, c2}
  Addrs <- MC_Addrs
  LocalAccounts <- MC_LocalAccounts
  Prices <- MC_Prices
  ThreadCounts <- MC_ThreadCounts
  InitGasPrice = 2
  PoolPriceLimit = 1
  MaxPending = 2
SPECIFICATION Spec
INVARIANTS
  TypeOK
