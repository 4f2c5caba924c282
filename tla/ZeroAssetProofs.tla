-------------------------- MODULE ZeroAssetProofs ---------------------------
(***************************************************************************)
(* The ledger of zero.asset is sound for any number of accounts, tokens    *)
(* and amounts.  SoundRow is the invariant of one token's tables; each     *)
(* ledger operation preserves it (the lemmas, which the bridge's proofs    *)
(* use as well), and so does every action.                                 *)
(***************************************************************************)
EXTENDS ZeroAsset, TotalsTheorems, TLAPS

SoundRow(row) ==
  /\ row \in TokenRow
  /\ row.supply = Total(row.balance, NumAccounts)
  /\ row.supply <= row.maxSupply
  /\ \A a \in Accounts : row.balance[a] >= 0

AssetSound == asset \in [ZeroTokens -> TokenRow] /\ \A t \in ZeroTokens : SoundRow(asset[t])

(* A new token has no units. *)
LEMMA FreshTokenSound ==
  ASSUME NumAccounts \in Nat, NEW exists \in BOOLEAN, NEW issuer \in Accounts \cup {0},
         NEW max \in Nat
  PROVE  SoundRow(FreshToken(exists, issuer, max))
<1> DEFINE w == [a \in Accounts |-> 0]
           s == [a \in 0..NumAccounts |-> 0]
<1>1. Total(w, NumAccounts) = 0
  <2>1. Weights(w, NumAccounts) /\ s \in [0..NumAccounts -> Int] /\ s[NumAccounts] = 0
    BY DEF Weights, Accounts
  <2>2. PartialSums(s, w, NumAccounts)
    BY DEF PartialSums, Accounts
  <2> HIDE DEF w, s
  <2> QED BY <2>1, <2>2, TotalReadsTable
<1>2. w \in [Accounts -> Int] /\ \A a \in Accounts : w[a] = 0
  OBVIOUS
<1>3. FreshToken(exists, issuer, max) = [exists |-> exists, issuer |-> issuer,
                                         maxSupply |-> max, supply |-> 0, balance |-> w]
  BY DEF FreshToken
<1> HIDE DEF w
<1> QED BY <1>1, <1>2, <1>3 DEF SoundRow, TokenRow

(* issue, burn and transfer keep a sound row sound. *)
LEMMA IssuedSound ==
  ASSUME NumAccounts \in Nat, NEW row, SoundRow(row), NEW signer, NEW to \in Accounts, NEW q \in Int,
         CanIssue(row, signer, q)
  PROVE  SoundRow(Issued(row, to, q))
<1> DEFINE new == Issued(row, to, q)
<1> DEFINE b == [row.balance EXCEPT ![to] = @ + q]
<1>a. row \in TokenRow /\ b \in [Accounts -> Int]
  BY DEF SoundRow, TokenRow
<1>b. new = [row EXCEPT !.supply = @ + q, !.balance = b]
  BY <1>a DEF TokenRow, Issued, AddBalance
<1>c. row.supply + q \in Int
  BY <1>a DEF TokenRow
<1>1. /\ new \in TokenRow
      /\ new.supply = row.supply + q /\ new.maxSupply = row.maxSupply
      /\ new.balance = b
  <2> HIDE DEF new, b
  <2> QED BY <1>a, <1>b, <1>c DEF TokenRow
<1>2. Weights(row.balance, NumAccounts) /\ Weights(new.balance, NumAccounts)
  BY <1>1 DEF SoundRow, TokenRow, Weights, Accounts
<1>3. \A i \in 1..NumAccounts : i # to => new.balance[i] = row.balance[i]
  BY <1>1 DEF SoundRow, TokenRow, Accounts
<1>4. new.balance[to] = row.balance[to] + q
  BY <1>1 DEF SoundRow, TokenRow
<1>5. Total(new.balance, NumAccounts) = Total(row.balance, NumAccounts) - row.balance[to] + new.balance[to]
  <2> HIDE DEF new
  <2> QED BY <1>2, <1>3, TotalChange DEF Accounts
<1>6. Total(row.balance, NumAccounts) \in Int
  BY <1>2, TotalType
<1>7. new.supply = Total(new.balance, NumAccounts)
  BY <1>1, <1>4, <1>5, <1>6 DEF SoundRow, TokenRow
<1>8. new.supply <= new.maxSupply
  BY <1>1 DEF CanIssue, SoundRow, TokenRow
<1>9. \A a \in Accounts : new.balance[a] >= 0
  BY <1>1 DEF CanIssue, SoundRow, TokenRow
<1> QED BY <1>1, <1>7, <1>8, <1>9 DEF SoundRow

LEMMA BurnedSound ==
  ASSUME NumAccounts \in Nat, NEW row, SoundRow(row), NEW owner \in Accounts, NEW q \in Int,
         CanBurn(row, owner, q)
  PROVE  SoundRow(Burned(row, owner, q))
<1> DEFINE new == Burned(row, owner, q)
<1> DEFINE b == [row.balance EXCEPT ![owner] = @ - q]
<1>a. row \in TokenRow /\ b \in [Accounts -> Int]
  BY DEF SoundRow, TokenRow
<1>b. new = [row EXCEPT !.supply = @ - q, !.balance = b]
  BY <1>a DEF TokenRow, Burned, SubBalance
<1>c. row.supply - q \in Int
  BY <1>a DEF TokenRow
<1>1. /\ new \in TokenRow
      /\ new.supply = row.supply - q /\ new.maxSupply = row.maxSupply
      /\ new.balance = b
  <2> HIDE DEF new, b
  <2> QED BY <1>a, <1>b, <1>c DEF TokenRow
<1>2. Weights(row.balance, NumAccounts) /\ Weights(new.balance, NumAccounts)
  BY <1>1 DEF SoundRow, TokenRow, Weights, Accounts
<1>3. \A i \in 1..NumAccounts : i # owner => new.balance[i] = row.balance[i]
  BY <1>1 DEF SoundRow, TokenRow, Accounts
<1>4. new.balance[owner] = row.balance[owner] - q
  BY <1>1 DEF SoundRow, TokenRow
<1>5. Total(new.balance, NumAccounts)
        = Total(row.balance, NumAccounts) - row.balance[owner] + new.balance[owner]
  <2> HIDE DEF new
  <2> QED BY <1>2, <1>3, TotalChange DEF Accounts
<1>6. Total(row.balance, NumAccounts) \in Int
  BY <1>2, TotalType
<1>7. new.supply = Total(new.balance, NumAccounts)
  BY <1>1, <1>4, <1>5, <1>6 DEF SoundRow, TokenRow
<1>8. new.supply <= new.maxSupply
  BY <1>1 DEF CanBurn, SoundRow, TokenRow
<1>9. \A a \in Accounts : new.balance[a] >= 0
  BY <1>1 DEF CanBurn, HasBalance, SoundRow, TokenRow
<1> QED BY <1>1, <1>7, <1>8, <1>9 DEF SoundRow

LEMMA TransferredSound ==
  ASSUME NumAccounts \in Nat, NEW row, SoundRow(row), NEW from \in Accounts, NEW to \in Accounts,
         NEW q \in Int, CanTransfer(row, from, to, q)
  PROVE  SoundRow(Transferred(row, from, to, q))
<1> DEFINE mid == [row.balance EXCEPT ![from] = @ - q]
           new == Transferred(row, from, to, q)
<1> DEFINE b == [mid EXCEPT ![to] = @ + q]
<1>a. row \in TokenRow /\ b \in [Accounts -> Int]
  BY DEF SoundRow, TokenRow
<1>b. new = [row EXCEPT !.balance = b]
  BY <1>a DEF TokenRow, Transferred, SubBalance, AddBalance
<1>1. /\ new \in TokenRow
      /\ new.supply = row.supply /\ new.maxSupply = row.maxSupply
      /\ new.balance = b
  <2> HIDE DEF new, b
  <2> QED BY <1>a, <1>b DEF TokenRow
<1>2. /\ Weights(row.balance, NumAccounts) /\ Weights(mid, NumAccounts)
      /\ Weights(new.balance, NumAccounts)
  <2>1. row.balance \in [Accounts -> Int] /\ mid \in [Accounts -> Int]
    BY DEF SoundRow, TokenRow
  <2> HIDE DEF mid, new, b
  <2> QED BY <1>a, <1>1, <2>1 DEF Weights, Accounts
<1>3. /\ \A i \in 1..NumAccounts : i # from => mid[i] = row.balance[i]
      /\ \A i \in 1..NumAccounts : i # to => new.balance[i] = mid[i]
  BY <1>1 DEF SoundRow, TokenRow, Accounts
<1>4. mid[from] = row.balance[from] - q /\ new.balance[to] = mid[to] + q
  BY <1>1 DEF SoundRow, TokenRow
<1>5. Total(mid, NumAccounts) = Total(row.balance, NumAccounts) - row.balance[from] + mid[from]
  <2> HIDE DEF mid, new
  <2> QED BY <1>2, <1>3, TotalChange DEF Accounts
<1>6. Total(new.balance, NumAccounts) = Total(mid, NumAccounts) - mid[to] + new.balance[to]
  <2> HIDE DEF mid, new
  <2> QED BY <1>2, <1>3, TotalChange DEF Accounts
<1>7. Total(row.balance, NumAccounts) \in Int /\ Total(mid, NumAccounts) \in Int
  BY <1>2, TotalType
<1>8. mid[to] \in Int /\ row.balance[from] \in Int
  BY <1>2 DEF Weights, Accounts
<1>9. new.supply = Total(new.balance, NumAccounts)
  <2> HIDE DEF mid, new
  <2> QED BY <1>1, <1>4, <1>5, <1>6, <1>7, <1>8 DEF SoundRow
<1>10. \A a \in Accounts : new.balance[a] >= 0
  BY <1>1 DEF CanTransfer, HasBalance, SoundRow, TokenRow
<1> QED BY <1>1, <1>9, <1>10 DEF SoundRow

-----------------------------------------------------------------------------
LEMMA AssetSoundInit == ASSUME AssetInit PROVE AssetSound
<1>1. SoundRow(FreshToken(FALSE, 0, 0))
  BY FreshTokenSound, ZeroAssetAssumption
<1> QED BY <1>1 DEF AssetInit, AssetSound, SoundRow

LEMMA AssetSoundStep == ASSUME AssetSound, [AssetNext]_asset PROVE AssetSound'
<1>1. CASE UNCHANGED asset
  BY <1>1 DEF AssetSound
<1>2. ASSUME NEW t \in ZeroTokens, NEW new, SoundRow(new), asset' = [asset EXCEPT ![t] = new]
      PROVE  AssetSound'
  BY <1>2 DEF AssetSound, SoundRow
<1>3. ASSUME NEW t \in ZeroTokens, NEW issuer \in Accounts, NEW max \in MaxSupplies,
             Create(t, issuer, max)
      PROVE  AssetSound'
  <2>1. max \in Nat
    BY <1>3, ZeroAssetAssumption DEF Create
  <2>2. SoundRow(FreshToken(TRUE, issuer, max))
    BY <2>1, FreshTokenSound, ZeroAssetAssumption
  <2> QED BY <1>2, <1>3, <2>2 DEF Create
<1>4. ASSUME NEW t \in ZeroTokens, NEW signer \in Accounts, NEW to \in Accounts,
             NEW q \in Quantities, Issue(t, signer, to, q)
      PROVE  AssetSound'
  <2>1. SoundRow(Issued(asset[t], to, q))
    BY <1>4, IssuedSound, ZeroAssetAssumption DEF Issue, AssetSound
  <2> QED BY <1>2, <1>4, <2>1 DEF Issue
<1>5. ASSUME NEW t \in ZeroTokens, NEW owner \in Accounts, NEW q \in Quantities,
             Burn(t, owner, q)
      PROVE  AssetSound'
  <2>1. SoundRow(Burned(asset[t], owner, q))
    BY <1>5, BurnedSound, ZeroAssetAssumption DEF Burn, AssetSound
  <2> QED BY <1>2, <1>5, <2>1 DEF Burn
<1>6. ASSUME NEW t \in ZeroTokens, NEW from \in Accounts, NEW to \in Accounts,
             NEW q \in Quantities, Transfer(t, from, to, q)
      PROVE  AssetSound'
  <2>1. SoundRow(Transferred(asset[t], from, to, q))
    BY <1>6, TransferredSound, ZeroAssetAssumption DEF Transfer, AssetSound
  <2> QED BY <1>2, <1>6, <2>1 DEF Transfer
<1> QED BY <1>1, <1>3, <1>4, <1>5, <1>6 DEF AssetNext

(* What a sound ledger means for the properties. *)
LEMMA AssetSoundMeaning == ASSUME AssetSound PROVE SupplyIsSumOfBalances /\ BalancesUnderCap
<1>a. SupplyIsSumOfBalances
  BY DEF AssetSound, SoundRow, SupplyIsSumOfBalances
<1>b. BalancesUnderCap
  <2> SUFFICES ASSUME NEW t \in ZeroTokens
               PROVE  /\ asset[t].supply <= asset[t].maxSupply
                      /\ \A a \in Accounts : asset[t].balance[a] \in 0..asset[t].maxSupply
    BY DEF BalancesUnderCap
  <2>1. SoundRow(asset[t])
    BY DEF AssetSound
  <2>2. \A i \in 1..NumAccounts : asset[t].balance[i] \in Nat
    <3>1. asset[t].balance \in [Accounts -> Int]
      BY <2>1 DEF SoundRow, TokenRow
    <3>2. \A a \in Accounts : asset[t].balance[a] \in Nat
      BY <2>1, <3>1 DEF SoundRow
    <3> QED BY <3>2 DEF Accounts
  <2>3. \A i \in 1..NumAccounts : asset[t].balance[i] <= asset[t].supply
    BY <2>1, <2>2, TotalBounds, ZeroAssetAssumption DEF SoundRow
  <2> QED BY <2>1, <2>2, <2>3 DEF SoundRow, TokenRow, Accounts
<1> QED BY <1>a, <1>b

LEMMA AssetSoundAlways == AssetSpec => []AssetSound
<1>1. AssetInit => AssetSound
  BY AssetSoundInit
<1>2. AssetSound /\ [AssetNext]_asset => AssetSound'
  BY AssetSoundStep
<1> QED BY <1>1, <1>2, PTL DEF AssetSpec

(* The tables of the token contract keep their types. *)
THEOREM AssetTypeCorrect == AssetSpec => []AssetTypeOK
<1>1. AssetSound => AssetTypeOK
  BY DEF AssetSound, AssetTypeOK
<1> QED BY <1>1, AssetSoundAlways, PTL

(* The supply of a token is the sum of its balances, whoever issues, burns  *)
(* and transfers and in whatever order (zero.asset.cpp:25-88).              *)
THEOREM SupplyAddsUp == AssetSpec => []SupplyIsSumOfBalances
<1>1. AssetSound => SupplyIsSumOfBalances
  BY AssetSoundMeaning
<1> QED BY <1>1, AssetSoundAlways, PTL

(* No balance is negative and none, nor the supply, exceeds max_supply.     *)
THEOREM BalancesStayUnderCap == AssetSpec => []BalancesUnderCap
<1>1. AssetSound => BalancesUnderCap
  BY AssetSoundMeaning
<1> QED BY <1>1, AssetSoundAlways, PTL
=============================================================================
