CONSTANTS
  usdt = usdt
  tlos = tlos
  zusdt = zusdt
  ztlos = ztlos
  NumAccounts = 2
  Bridge = 1
  ZeroTokens = {zusdt}
  Quantities = {1}
  MaxSupplies = {}
  InitialBalances <- MCInitialBalances
  MaxSupply <- MCMaxSupply
  ZeroDecimals <- MCZeroDecimals
  NumEvmBridges = 2
  NumEvmAddrs = 3
  EvmTokens = {usdt}
  MintableTokens = {}
  InitialErc20 <- MCInitialErc20
  ZeroBridgeOf <- MCZeroBridgeOf
  LinkedAddress = 100
  RegistryInputs <- OneEscrow
  RegistryLimits = {}
  Amounts = {1, 2}
  ZeroReceivers = {2, 3}
  DAY = 2
  MaxPairs = 1
  MaxRequests = 2
  MaxTime = 2
  MaxUint128 = 1000
  EvmChainId = 41
  GasMayFail = FALSE
  Admins = {1}
  RelayAccounts = {1}
  DevModes = {FALSE}
  FinalityDelays = {1}
  ChainIds = {}
  PairInputs <- OnlyZusdt
  PairLimits <- OneLimit
  RelayedBridge = 1
  RelayedPairs <- RelayZusdt
SPECIFICATION FairDepositRelayer
INVARIANTS
  MintsMatchDeposits
PROPERTIES
  DepositsMintedInOrder
