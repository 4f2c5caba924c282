CONSTANTS
  usdt = usdt
  tlos = tlos
  zusdt = zusdt
  ztlos = ztlos
  NumAccounts = 2
  Bridge = 1
  ZeroTokens = {zusdt}
  Quantities = {10}
  MaxSupplies = {}
  InitialBalances <- HolderOfTwenty
  MaxSupply <- TwentySupply
  ZeroDecimals <- MCZeroDecimals
  NumEvmBridges = 1
  NumEvmAddrs = 2
  EvmTokens = {usdt}
  MintableTokens = {}
  InitialErc20 <- FundedBridge
  ZeroBridgeOf <- KeyIsZeroBridge
  LinkedAddress = 99
  RegistryInputs <- HundredEscrow
  RegistryLimits = {}
  Amounts = {}
  ZeroReceivers = {2}
  DAY = 2
  MaxPairs = 1
  MaxRequests = 2
  MaxTime = 1
  MaxUint128 = 1000
  EvmChainId = 41
  GasMayFail = FALSE
  Admins = {1}
  RelayAccounts = {1}
  DevModes = {FALSE}
  FinalityDelays = {0}
  ChainIds = {}
  PairInputs <- ZusdtFive
  PairLimits = {}
  RelayedBridge = 1
  RelayedPairs <- RelayZusdtFive
  RelayerKey = 100
  MaxPending = 2
SPECIFICATION FairReleaseRelayer
INVARIANTS
  ReleasesMatchBurns
PROPERTIES
  BurnsReleasedInOrder
  ExitsGoThrough
  SeenRefundIsFinal
