CONSTANTS
  usdt = usdt
  tlos = tlos
  zusdt = zusdt
  ztlos = ztlos
  NumAccounts = 2
  Bridge = 1
  ZeroTokens = {zusdt}
  Quantities = {1, 10}
  MaxSupplies = {}
  InitialBalances <- MCInitialBalances
  MaxSupply <- TwentySupply
  ZeroDecimals <- MCZeroDecimals
  NumEvmBridges = 1
  NumEvmAddrs = 2
  EvmTokens = {usdt}
  MintableTokens = {}
  InitialErc20 <- ElevenUsdt
  ZeroBridgeOf <- MCZeroBridgeOf
  LinkedAddress = 100
  RegistryInputs <- WideEscrow
  RegistryLimits = {}
  Amounts = {1, 10}
  ZeroReceivers = {2}
  DAY = 2
  MaxPairs = 1
  MaxRequests = 2
  MaxTime = 1
  MaxUint128 = 1000
  EvmChainId = 41
  GasMayFail = TRUE
  Admins = {1}
  RelayAccounts = {1}
  DevModes = {FALSE}
  FinalityDelays = {0}
  ChainIds = {}
  PairInputs <- ZusdtAnyDecimals
  PairLimits = {}
SPECIFICATION Spec
INVARIANTS
  MintIsNormalized
