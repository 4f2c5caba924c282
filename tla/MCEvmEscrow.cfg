CONSTANTS
  usdt = usdt
  tlos = tlos
  NumEvmBridges = 1
  NumEvmAddrs = 2
  EvmTokens = {usdt, tlos}
  MintableTokens = {tlos}
  InitialErc20 <- MCInitialErc20
  ZeroBridgeOf <- MCZeroBridgeOf
  RegistryInputs <- MCRegistryInputs
  RegistryLimits <- MCRegistryLimits
  Amounts = {1, 2}
  ZeroReceivers = {1}
  DAY = 2
  MaxPairs = 2
  MaxRequests = 2
  MaxTime = 2
SPECIFICATION EvmSpec
INVARIANTS
  EvmTypeOK
  EvmSideCoversLogs
PROPERTIES
  DailyLimit
