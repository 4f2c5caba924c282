CONSTANTS
  NumAccounts = 3
  ZeroTokens = {tlos}
  tlos = tlos
  Quantities <- MCQuantities
  MaxSupplies <- MCMaxSupplies
SPECIFICATION AssetSpec
INVARIANTS
  AssetTypeOK
  SupplyIsSumOfBalances
  BalancesUnderCap
