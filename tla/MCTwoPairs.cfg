CONSTANTS
  usdt = usdt
  tlos = tlos
  zusdt = zusdt
  ztlos = ztlos
  NumAccounts = 2
  Bridge = 1
  ZeroTokens = {zusdt, ztlos}
  Quantities = {1}
  MaxSupplies = {}
  InitialBalances <- OneZtlos
  MaxSupply <- MCMaxSupply
  ZeroDecimals <- MCZeroDecimals
  NumEvmBridges = 2
  NumEvmAddrs = 3
  EvmTokens = {usdt, tlos}
  MintableTokens = {tlos}
  InitialErc20 <- OneUsdt
  ZeroBridgeOf <- MCZeroBridgeOf
  LinkedAddress = 100
  RegistryInputs <- TwoEvmPairs
  RegistryLimits = {}
  Amounts = {1}
  ZeroReceivers = {2}
  DAY = 2
  MaxPairs = 2
  MaxRequests = 1
  MaxTime = 1
  MaxUint128 = 1000
  EvmChainId = 41
  GasMayFail = FALSE
  Admins = {1}
  RelayAccounts = {1}
  DevModes = {FALSE}
  FinalityDelays = {0}
  ChainIds = {}
  PairInputs <- TwoZeroPairs
  PairLimits = {}
SPECIFICATION Spec
INVARIANTS
  EveryUnitBacked
