---------------------- MODULE ZeroBridgeBackingProofs -----------------------
(***************************************************************************)
(* The two sides together: what the EVM side holds for a pair backs the    *)
(* Zero supply, the deposits not minted and the burns not paid.            *)
(*                                                                         *)
(* EveryUnitBacked is not inductive and is not proved by one big step: it  *)
(* is the sum of four ledgers, each with an invariant of its own.          *)
(*   supply            <= initial + minted - burned      (SupplyLedger)    *)
(*   EVM side          >= deposits - releases            (EvmLedger)       *)
(*   deposits           = minted + unminted              (DepositLedger)   *)
(*   owed               = burned - releases              (BurnLedger)      *)
(* The sums are stated over a table given as a parameter, so that a step   *)
(* is a fact about two tables.                                             *)
(***************************************************************************)
EXTENDS ZeroBridgeProofs

MintedIn(table, p) ==
  Total([k \in DOMAIN table |-> IF table[k].pair = p THEN table[k].quantity ELSE 0], Len(table))
BurnedIn(table, p) ==
  Total([i \in DOMAIN table |-> IF table[i].pair = p /\ ~table[i].refunded
                                THEN table[i].quantity ELSE 0], Len(table))

LEMMA SumsOverTables ==
  /\ \A p : MintedFor(p) = MintedIn(etoz, p) /\ BurnedFor(p) = BurnedIn(ztoe, p)
  /\ \A p : MintedFor(p)' = MintedIn(etoz', p) /\ BurnedFor(p)' = BurnedIn(ztoe', p)
BY DEF MintedFor, MintedIn, BurnedFor, BurnedIn

(* The rows of a table and of the same table with one row more. *)
LEMMA RowAppended ==
  ASSUME NEW Row, NEW table \in Seq(Row), NEW row \in Row
  PROVE  /\ Len(table) \in Nat /\ DOMAIN table = 1..Len(table)
         /\ Len(Append(table, row)) = Len(table) + 1
         /\ DOMAIN Append(table, row) = 1..(Len(table) + 1)
         /\ Append(table, row)[Len(table) + 1] = row
         /\ \A i \in 1..Len(table) : Append(table, row)[i] = table[i] /\ table[i] \in Row
BY AppendProperties, LenProperties

LEMMA MintedAppend ==
  ASSUME NEW table \in Seq(EtozRow), NEW row \in EtozRow, NEW p
  PROVE  /\ MintedIn(table, p) \in Int
         /\ MintedIn(Append(table, row), p)
              = MintedIn(table, p) + (IF row.pair = p THEN row.quantity ELSE 0)
<1> DEFINE new == Append(table, row)
           n == Len(table)
           w == [k \in 1..n |-> IF table[k].pair = p THEN table[k].quantity ELSE 0]
           v == [k \in 1..(n+1) |-> IF new[k].pair = p THEN new[k].quantity ELSE 0]
<1>1. /\ n \in Nat /\ DOMAIN table = 1..n /\ Len(new) = n + 1 /\ DOMAIN new = 1..(n+1)
      /\ new[n+1] = row /\ \A k \in 1..n : new[k] = table[k] /\ table[k] \in EtozRow
  BY RowAppended
<1> HIDE DEF new
<1>2. MintedIn(table, p) = Total(w, n) /\ MintedIn(new, p) = Total(v, n+1)
  BY <1>1 DEF MintedIn
<1> HIDE DEF n
<1>3. row.quantity \in Int /\ \A k \in 1..n : table[k].quantity \in Int
  BY <1>1 DEF EtozRow
<1>4. Weights(w, n) /\ \A k \in 1..n : v[k] = w[k]
  BY <1>1, <1>3 DEF Weights
<1>5. v[n+1] = (IF row.pair = p THEN row.quantity ELSE 0) /\ v[n+1] \in Int
  BY <1>1, <1>3
<1> HIDE DEF w, v
<1>6. Total(v, n+1) = Total(w, n) + v[n+1] /\ Total(w, n) \in Int
  BY <1>1, <1>4, <1>5, TotalAppend, TotalType
<1> QED BY <1>2, <1>5, <1>6 DEF new

LEMMA BurnedAppend ==
  ASSUME NEW table \in Seq(ZtoeRow), NEW row \in ZtoeRow, ~row.refunded, NEW p
  PROVE  /\ BurnedIn(table, p) \in Int
         /\ BurnedIn(Append(table, row), p)
              = BurnedIn(table, p) + (IF row.pair = p THEN row.quantity ELSE 0)
<1> DEFINE Open(r) == r.pair = p /\ ~r.refunded
           new == Append(table, row)
           n == Len(table)
           w == [i \in 1..n |-> IF Open(table[i]) THEN table[i].quantity ELSE 0]
           v == [i \in 1..(n+1) |-> IF Open(new[i]) THEN new[i].quantity ELSE 0]
<1>1. /\ n \in Nat /\ DOMAIN table = 1..n /\ Len(new) = n + 1 /\ DOMAIN new = 1..(n+1)
      /\ new[n+1] = row /\ \A i \in 1..n : new[i] = table[i] /\ table[i] \in ZtoeRow
  BY RowAppended
<1> HIDE DEF new
<1>2. BurnedIn(table, p) = Total(w, n) /\ BurnedIn(new, p) = Total(v, n+1)
  BY <1>1 DEF BurnedIn
<1> HIDE DEF n
<1>3. row.quantity \in Int /\ \A i \in 1..n : table[i].quantity \in Int
  BY <1>1 DEF ZtoeRow
<1>4. Weights(w, n) /\ \A i \in 1..n : v[i] = w[i]
  BY <1>1, <1>3 DEF Weights
<1>5. v[n+1] = (IF row.pair = p THEN row.quantity ELSE 0) /\ v[n+1] \in Int
  BY <1>1, <1>3
<1> HIDE DEF w, v
<1>6. Total(v, n+1) = Total(w, n) + v[n+1] /\ Total(w, n) \in Int
  BY <1>1, <1>4, <1>5, TotalAppend, TotalType
<1> QED BY <1>2, <1>5, <1>6 DEF new

LEMMA BurnedRefund ==
  ASSUME NEW table \in Seq(ZtoeRow), NEW i \in DOMAIN table, ~table[i].refunded, NEW p
  PROVE  /\ BurnedIn(table, p) \in Int
         /\ BurnedIn([table EXCEPT ![i].refunded = TRUE], p)
              = BurnedIn(table, p) - (IF table[i].pair = p THEN table[i].quantity ELSE 0)
<1> DEFINE Open(r) == r.pair = p /\ ~r.refunded
           new == [table EXCEPT ![i].refunded = TRUE]
           n == Len(table)
           w == [j \in 1..n |-> IF Open(table[j]) THEN table[j].quantity ELSE 0]
           v == [j \in 1..n |-> IF Open(new[j]) THEN new[j].quantity ELSE 0]
<1>1. n \in Nat /\ DOMAIN table = 1..n /\ \A j \in 1..n : table[j] \in ZtoeRow
  BY LenProperties
<1>2. Len(new) = n /\ DOMAIN new = 1..n /\ new[i].refunded /\ \A j \in 1..n : j # i => new[j] = table[j]
  BY <1>1, LenProperties DEF ZtoeRow
<1> HIDE DEF new
<1>3. BurnedIn(table, p) = Total(w, n) /\ BurnedIn(new, p) = Total(v, n)
  BY <1>1, <1>2 DEF BurnedIn
<1> HIDE DEF n
<1>4. \A j \in 1..n : table[j].quantity \in Int
  BY <1>1 DEF ZtoeRow
<1>5. /\ Weights(w, n)
      /\ \A j \in 1..n : j # i => v[j] = w[j]
      /\ v[i] = 0 /\ w[i] = (IF table[i].pair = p THEN table[i].quantity ELSE 0)
  BY <1>1, <1>2, <1>4 DEF Weights
<1>6. Weights(v, n) /\ w[i] \in Int
  BY <1>1, <1>5 DEF Weights
<1> HIDE DEF w, v
<1>7. Total(v, n) = Total(w, n) - w[i] + v[i] /\ Total(w, n) \in Int
  BY <1>1, <1>5, <1>6, TotalChange, TotalType
<1> QED BY <1>3, <1>5, <1>6, <1>7 DEF new

(* Sums over rows of other pairs are zero. *)
LEMMA NoRowsNoSums ==
  ASSUME Wellformed, NEW p, p \notin DOMAIN zpairs
  PROVE  MintedFor(p) = 0 /\ BurnedFor(p) = 0
<1> DEFINE w == [k \in DOMAIN etoz |-> IF etoz[k].pair = p THEN etoz[k].quantity ELSE 0]
           v == [i \in DOMAIN ztoe |-> IF ztoe[i].pair = p /\ ~ztoe[i].refunded
                                       THEN ztoe[i].quantity ELSE 0]
<1>1. /\ Len(etoz) \in Nat /\ DOMAIN etoz = 1..Len(etoz)
      /\ Len(ztoe) \in Nat /\ DOMAIN ztoe = 1..Len(ztoe)
  BY LenProperties DEF Wellformed, NativeTypeOK
<1>2. (\A k \in 1..Len(etoz) : w[k] = 0) /\ (\A i \in 1..Len(ztoe) : v[i] = 0)
  BY <1>1 DEF Wellformed, NativeTypeOK
<1>3. MintedFor(p) = Total(w, Len(etoz)) /\ BurnedFor(p) = Total(v, Len(ztoe))
  BY DEF MintedFor, BurnedFor
<1> HIDE DEF w, v
<1> QED BY <1>1, <1>2, <1>3, TotalOfZeros
-----------------------------------------------------------------------------
(* What the ledger operations do to the stat row. *)
SameStat(new, row) ==
  new.exists = row.exists /\ new.issuer = row.issuer /\ new.maxSupply = row.maxSupply

LEMMA StatRow ==
  ASSUME NEW row \in TokenRow, NEW from \in Accounts, NEW to \in Accounts, NEW q \in Int
  PROVE  /\ row.supply \in Int /\ row.maxSupply \in Nat
         /\ Issued(row, to, q).supply = row.supply + q /\ SameStat(Issued(row, to, q), row)
         /\ Burned(row, from, q).supply = row.supply - q /\ SameStat(Burned(row, from, q), row)
         /\ Transferred(row, from, to, q).supply = row.supply
         /\ SameStat(Transferred(row, from, to, q), row)
         /\ Burned(Transferred(row, from, to, q), to, q).supply = row.supply - q
         /\ SameStat(Burned(Transferred(row, from, to, q), to, q), row)
BY DEF TokenRow, SameStat, Issued, Burned, Transferred, AddBalance, SubBalance

(* A step issues for a mint row, issues for a refund, burns for a transfer  *)
(* to the bridge, or leaves both tables alone and adds to no supply.        *)
MintMade ==
  \E p \in DOMAIN zpairs, h \in Nat, receiver \in Accounts, q \in Int, sender \in EvmUsers :
    Mint(p, h, receiver, q, sender)
RefundMade == \E i \in 1..MaxRequests : RefundZtoE(i)
BurnMade ==
  \E p \in PairIds, from \in Accounts, q \in Quantities, memo \in EvmAddrs \cup {ZeroAddress} :
    OnTransfer(p, from, q, memo)
NoneMade ==
  /\ UNCHANGED <<etoz, ztoe>>
  /\ \A t \in ZeroTokens : asset'[t].supply <= asset[t].supply /\ SameStat(asset'[t], asset[t])

LEMMA LedgerRows ==
  ASSUME Wellformed, NEW t \in ZeroTokens
  PROVE  asset[t] \in TokenRow /\ asset[t].supply \in Int /\ asset[t].maxSupply \in Nat
BY DEF Wellformed, AssetSound, TokenRow

LEMMA SupplyStep ==
  ASSUME Wellformed, [Next]_vars
  PROVE  MintMade \/ RefundMade \/ BurnMade \/ NoneMade
<1>0. ASSUME UNCHANGED <<etoz, ztoe, asset>> PROVE NoneMade
  BY <1>0, LedgerRows DEF NoneMade, SameStat
<1>1. CASE AdminNext
  <2>1. UNCHANGED <<etoz, ztoe, asset>> \/ RefundMade
    BY <1>1 DEF AdminNext, InitBridge, SetAdmin, SetDevMode, SetEvmRelay, Pause, SetEvmConf,
                SetEvmChain, AddPair, SetPair, RefundMade
  <2> QED BY <1>0, <2>1
<1>2. CASE MintNext
  <2>1. PICK p \in PairIds, h \in 1..MaxRequests, receiver \in Accounts,
             q \in Quantities \cup Amounts, sender \in EvmUsers :
          ProcessEtoZ(p, h, receiver, q, sender) \/ ProveEtoZ(p, h, receiver, q, sender)
    BY <1>2 DEF MintNext
  <2>2. p \in DOMAIN zpairs /\ Mint(p, h, receiver, q, sender) /\ h \in Nat /\ q \in Int
    BY <2>1, EvmEscrowAssumption, ZeroAssetAssumption
       DEF ProcessEtoZ, ProveEtoZ, CanProve, ActiveZPair
  <2> QED BY <2>2 DEF MintMade
<1>3. CASE ExitNext
  <2>1. ASSUME NEW i \in 1..MaxRequests, RelayZtoE(i) PROVE NoneMade
    BY <1>0, <2>1 DEF RelayZtoE, nativeVars
  <2> QED BY <1>3, <2>1 DEF ExitNext, BurnMade
<1>4. CASE AssetUserNext
  <2>1. ASSUME NEW t \in ZeroTokens, NEW new, asset' = [asset EXCEPT ![t] = new],
               new.supply = asset[t].supply \/ \E q \in Int : q > 0 /\ new.supply = asset[t].supply - q,
               SameStat(new, asset[t]), UNCHANGED nativeVars
        PROVE  NoneMade
    <3>1. ASSUME NEW u \in ZeroTokens
          PROVE  asset'[u].supply <= asset[u].supply /\ SameStat(asset'[u], asset[u])
      <4>1. asset'[u] = IF u = t THEN new ELSE asset[u]
        BY <2>1 DEF Wellformed, AssetSound
      <4>2. asset[u].supply \in Int
        BY LedgerRows
      <4> QED BY <2>1, <4>1, <4>2 DEF SameStat
    <3> QED BY <2>1, <3>1 DEF NoneMade, nativeVars
  <2>2. ASSUME NEW t \in ZeroTokens, NEW from \in Accounts, NEW to \in Accounts,
               NEW q \in Quantities, PlainTransfer(t, from, to, q)
        PROVE  NoneMade
    <3> DEFINE new == Transferred(asset[t], from, to, q)
    <3>1. new.supply = asset[t].supply /\ SameStat(new, asset[t])
      BY LedgerRows, StatRow, ZeroAssetAssumption, ZenonT(40)
    <3>2. asset' = [asset EXCEPT ![t] = new] /\ UNCHANGED nativeVars
      BY <2>2 DEF PlainTransfer, Transfer
    <3> HIDE DEF new
    <3> QED BY <2>1, <3>1, <3>2
  <2>3. ASSUME NEW t \in ZeroTokens, NEW owner \in Accounts, NEW q \in Quantities,
               OwnBurn(t, owner, q)
        PROVE  NoneMade
    <3> DEFINE new == Burned(asset[t], owner, q)
    <3>1. new.supply = asset[t].supply - q /\ SameStat(new, asset[t]) /\ q \in Int
      BY LedgerRows, StatRow, ZeroAssetAssumption
    <3>2. asset' = [asset EXCEPT ![t] = new] /\ UNCHANGED nativeVars /\ q > 0
      BY <2>3 DEF OwnBurn, Burn, CanBurn
    <3> HIDE DEF new
    <3> QED BY <2>1, <3>1, <3>2
  <2> QED BY <1>4, <2>2, <2>3 DEF AssetUserNext
<1>5. CASE EvmStep \/ UNCHANGED vars
  BY <1>0, <1>5 DEF EvmStep, vars, nativeVars
<1> QED BY <1>1, <1>2, <1>3, <1>4, <1>5 DEF Next
-----------------------------------------------------------------------------
(* The invariant behind SupplyMatchesTables: a token is paired at most once *)
(* and an unpaired token has seen no issue.                                 *)
TokensPairedOnce ==
  \A p, q \in DOMAIN zpairs : zpairs[p].token = zpairs[q].token => p = q
Unpaired(t) == \A p \in DOMAIN zpairs : zpairs[p].token # t
UnpairedNotIssued ==
  \A t \in ZeroTokens : Unpaired(t) => asset[t].supply <= InitialSupply(t)

SupplyLedger == TokensPairedOnce /\ UnpairedNotIssued /\ SupplyMatchesTables

LEMMA InitialSupplyType == \A t \in ZeroTokens : InitialSupply(t) \in Int
<1> TAKE t \in ZeroTokens
<1> DEFINE held == InitialBalances[t]
<1>1. held \in [Accounts -> Nat]
  BY ZeroBridgeAssumption
<1> HIDE DEF held
<1>2. Weights(held, NumAccounts)
  BY <1>1 DEF Weights, Accounts
<1> QED BY <1>2, TotalType, ZeroAssetAssumption DEF InitialSupply, held

LEMMA TableSumTypes ==
  ASSUME Wellformed, NEW p
  PROVE  MintedFor(p) \in Int /\ BurnedFor(p) \in Int
<1>1. etoz \in Seq(EtozRow) /\ ztoe \in Seq(ZtoeRow)
  BY DEF Wellformed, NativeTypeOK
<1> DEFINE w == [k \in 1..Len(etoz) |-> IF etoz[k].pair = p THEN etoz[k].quantity ELSE 0]
           v == [i \in 1..Len(ztoe) |-> IF ztoe[i].pair = p /\ ~ztoe[i].refunded
                                        THEN ztoe[i].quantity ELSE 0]
<1>2. /\ Len(etoz) \in Nat /\ DOMAIN etoz = 1..Len(etoz)
      /\ Len(ztoe) \in Nat /\ DOMAIN ztoe = 1..Len(ztoe)
      /\ \A k \in 1..Len(etoz) : etoz[k] \in EtozRow
      /\ \A i \in 1..Len(ztoe) : ztoe[i] \in ZtoeRow
  BY <1>1, LenProperties
<1>3. Weights(w, Len(etoz)) /\ Weights(v, Len(ztoe))
  <2>1. \A k \in 1..Len(etoz) : etoz[k].quantity \in Int
    BY <1>2 DEF EtozRow
  <2>2. \A i \in 1..Len(ztoe) : ztoe[i].quantity \in Int
    BY <1>2 DEF ZtoeRow
  <2> QED BY <2>1, <2>2 DEF Weights
<1>4. MintedFor(p) = Total(w, Len(etoz)) /\ BurnedFor(p) = Total(v, Len(ztoe))
  BY <1>2 DEF MintedFor, BurnedFor
<1> HIDE DEF w, v
<1> QED BY <1>2, <1>3, <1>4, TotalType

(* A step that issues or burns for one pair what one row says.              *)
OneRowMoved ==
  \E p \in DOMAIN zpairs, new \in TokenRow, minted \in Int, burned \in Int :
    /\ asset' = [asset EXCEPT ![zpairs[p].token] = new]
    /\ new.supply = asset[zpairs[p].token].supply + minted - burned
    /\ \A r : MintedFor(r)' = MintedFor(r) + (IF p = r THEN minted ELSE 0)
    /\ \A r : BurnedFor(r)' = BurnedFor(r) + (IF p = r THEN burned ELSE 0)

LEMMA SupplyMoves ==
  ASSUME Wellformed, SupplyLedger, UNCHANGED zpairs, OneRowMoved
  PROVE  SupplyLedger'
<1>0. PICK p \in DOMAIN zpairs, new \in TokenRow, minted \in Int, burned \in Int :
        /\ asset' = [asset EXCEPT ![zpairs[p].token] = new]
        /\ new.supply = asset[zpairs[p].token].supply + minted - burned
        /\ \A r : MintedFor(r)' = MintedFor(r) + (IF p = r THEN minted ELSE 0)
        /\ \A r : BurnedFor(r)' = BurnedFor(r) + (IF p = r THEN burned ELSE 0)
  BY DEF OneRowMoved
<1>1. \A r \in DOMAIN zpairs : zpairs[r].token \in ZeroTokens
  BY DEF Wellformed, NativeTypeOK, ZPairRow
<1>2. ASSUME NEW t \in ZeroTokens, t # zpairs[p].token PROVE asset'[t].supply = asset[t].supply
  BY <1>0, <1>2 DEF Wellformed, AssetSound
<1>3. UnpairedNotIssued'
  BY <1>2 DEF SupplyLedger, UnpairedNotIssued, Unpaired
<1>4. ASSUME NEW r \in DOMAIN zpairs
      PROVE  asset'[zpairs[r].token].supply + BurnedFor(r)'
               <= InitialSupply(zpairs[r].token) + MintedFor(r)'
  <2>1. /\ MintedFor(r) \in Int /\ BurnedFor(r) \in Int /\ InitialSupply(zpairs[r].token) \in Int
        /\ asset[zpairs[r].token].supply \in Int
    BY <1>1, TableSumTypes, InitialSupplyType, LedgerRows
  <2>2. asset[zpairs[r].token].supply + BurnedFor(r)
          <= InitialSupply(zpairs[r].token) + MintedFor(r)
    BY DEF SupplyLedger, SupplyMatchesTables
  <2>3. CASE r = p
    <3>1. asset'[zpairs[r].token].supply = asset[zpairs[r].token].supply + minted - burned
      BY <1>0, <1>1, <2>3 DEF Wellformed, AssetSound
    <3>2. MintedFor(r)' = MintedFor(r) + minted /\ BurnedFor(r)' = BurnedFor(r) + burned
      BY <1>0, <2>3
    <3> QED BY <2>1, <2>2, <3>1, <3>2
  <2>4. CASE r # p
    <3>1. asset'[zpairs[r].token].supply = asset[zpairs[r].token].supply
      BY <1>1, <1>2, <2>4 DEF SupplyLedger, TokensPairedOnce
    <3>2. MintedFor(r)' = MintedFor(r) + 0 /\ BurnedFor(r)' = BurnedFor(r) + 0
      BY <1>0, <2>4
    <3> QED BY <2>1, <2>2, <3>1, <3>2
  <2> QED BY <2>3, <2>4
<1> QED BY <1>3, <1>4 DEF SupplyLedger, TokensPairedOnce, SupplyMatchesTables

LEMMA SupplyAfterMint == ASSUME Wellformed, SupplyLedger, MintMade PROVE SupplyLedger'
<1>0. 0 \in Int
  OBVIOUS
<1>1. PICK p \in DOMAIN zpairs, h \in Nat, receiver \in Accounts, q \in Int, sender \in EvmUsers :
        Mint(p, h, receiver, q, sender)
  BY DEF MintMade
<1> DEFINE row == [evmRequest |-> h, pair |-> p, receiver |-> receiver, quantity |-> q,
                   sender |-> sender]
           new == Issued(asset[zpairs[p].token], receiver, q)
<1>2. zpairs[p].token \in ZeroTokens /\ p \in PairIds
  BY DEF Wellformed, NativeTypeOK, ZPairRow
<1>3. row \in EtozRow /\ row.pair = p /\ row.quantity = q
  BY <1>2 DEF EtozRow
<1>4. /\ etoz' = Append(etoz, row) /\ asset' = [asset EXCEPT ![zpairs[p].token] = new]
      /\ UNCHANGED <<zpairs, ztoe>>
  BY <1>1 DEF Mint
<1>5. new.supply = asset[zpairs[p].token].supply + q - 0
  BY <1>2, LedgerRows, StatRow
<1> HIDE DEF row, new
<1>6. \A r : MintedFor(r)' = MintedFor(r) + (IF p = r THEN q ELSE 0)
  BY <1>3, <1>4, SumsOverTables, MintedAppend DEF Wellformed, NativeTypeOK
<1>7. \A r : BurnedFor(r)' = BurnedFor(r) + (IF p = r THEN 0 ELSE 0)
  BY <1>4, SumsOverTables, TableSumTypes
<1>8. new \in TokenRow
  BY <1>1, <1>2, <1>4, MintWellformed DEF Wellformed, AssetSound
<1>9. OneRowMoved
  BY <1>4, <1>5, <1>6, <1>7, <1>8, <1>0, Zenon DEF OneRowMoved
<1> QED BY <1>4, <1>9, SupplyMoves

LEMMA SupplyAfterRefund == ASSUME Wellformed, SupplyLedger, RefundMade PROVE SupplyLedger'
<1>1. PICK i \in 1..MaxRequests : RefundZtoE(i)
  BY DEF RefundMade
<1> DEFINE p == ztoe[i].pair
           q == ztoe[i].quantity
           new == Issued(asset[zpairs[p].token], ztoe[i].sender, q)
<1>2. i \in DOMAIN ztoe /\ ~ztoe[i].refunded /\ ztoe[i] \in ZtoeRow /\ ztoe \in Seq(ZtoeRow)
  BY <1>1 DEF RefundZtoE, CanRefund, Wellformed, NativeTypeOK
<1>3. p \in DOMAIN zpairs /\ zpairs[p].token \in ZeroTokens /\ q \in Int
  BY <1>2 DEF Wellformed, NativeTypeOK, ZPairRow, ZtoeRow
<1>0. 0 \in Int /\ -q \in Int
  BY <1>3
<1>4. /\ ztoe' = [ztoe EXCEPT ![i].refunded = TRUE]
      /\ asset' = [asset EXCEPT ![zpairs[p].token] = new]
      /\ UNCHANGED <<zpairs, etoz>>
  BY <1>1 DEF RefundZtoE
<1>5. new.supply = asset[zpairs[p].token].supply + 0 - (-q)
  <2>1. ztoe[i].sender \in Accounts
    BY <1>2 DEF ZtoeRow
  <2>2. new.supply = asset[zpairs[p].token].supply + q /\ asset[zpairs[p].token].supply \in Int
    BY <1>3, <2>1, LedgerRows, StatRow
  <2> QED BY <1>3, <2>2
<1> HIDE DEF new
<1>6. \A r : MintedFor(r)' = MintedFor(r) + (IF p = r THEN 0 ELSE 0)
  BY <1>4, SumsOverTables, TableSumTypes
<1>7. ASSUME NEW r PROVE BurnedFor(r)' = BurnedFor(r) + (IF p = r THEN -q ELSE 0)
  <2>1. BurnedIn(ztoe', r) = BurnedIn(ztoe, r) - (IF p = r THEN q ELSE 0)
        /\ BurnedIn(ztoe, r) \in Int
    BY <1>2, <1>4, BurnedRefund
  <2> QED BY <1>3, <2>1, SumsOverTables
<1>8. new \in TokenRow
  BY <1>1, <1>3, <1>4, AdminWellformed DEF AdminNext, Wellformed, AssetSound
<1>9. OneRowMoved
  BY <1>3, <1>4, <1>5, <1>6, <1>7, <1>8, <1>0, Zenon DEF OneRowMoved
<1> QED BY <1>4, <1>9, SupplyMoves

LEMMA SupplyAfterBurn == ASSUME Wellformed, SupplyLedger, BurnMade PROVE SupplyLedger'
<1>0. 0 \in Int
  OBVIOUS
<1>1. PICK p \in PairIds, from \in Accounts, q \in Quantities,
           memo \in EvmAddrs \cup {ZeroAddress} : OnTransfer(p, from, q, memo)
  BY DEF BurnMade
<1> DEFINE row == [pair |-> p, sender |-> from, quantity |-> q, receiver |-> memo,
                   createdAt |-> now, refunded |-> FALSE]
           new == Burned(Transferred(asset[zpairs[p].token], from, Bridge, q), Bridge, q)
<1>2. p \in DOMAIN zpairs /\ zpairs[p].token \in ZeroTokens /\ q \in Int
  BY <1>1, ZeroAssetAssumption DEF OnTransfer, Wellformed, NativeTypeOK, ZPairRow
<1>3. row \in ZtoeRow /\ row.pair = p /\ row.quantity = q /\ ~row.refunded
  BY <1>1, OnTransferAppends
<1>4. /\ ztoe' = Append(ztoe, row) /\ asset' = [asset EXCEPT ![zpairs[p].token] = new]
      /\ UNCHANGED <<zpairs, etoz>>
  BY <1>1 DEF OnTransfer
<1>5. new.supply = asset[zpairs[p].token].supply + 0 - q
  <2>1. new.supply = asset[zpairs[p].token].supply - q /\ asset[zpairs[p].token].supply \in Int
    BY <1>2, LedgerRows, StatRow, ZeroBridgeAssumption, SMTT(30)
  <2> QED BY <1>2, <2>1
<1> HIDE DEF row, new
<1>6. \A r : MintedFor(r)' = MintedFor(r) + (IF p = r THEN 0 ELSE 0)
  BY <1>4, SumsOverTables, TableSumTypes
<1>7. \A r : BurnedFor(r)' = BurnedFor(r) + (IF p = r THEN q ELSE 0)
  BY <1>3, <1>4, SumsOverTables, BurnedAppend DEF Wellformed, NativeTypeOK
<1>8. new \in TokenRow
  BY <1>1, <1>2, <1>4, ExitWellformed DEF ExitNext, Wellformed, AssetSound
<1>9. OneRowMoved
  BY <1>2, <1>4, <1>5, <1>6, <1>7, <1>8, <1>0, Zenon DEF OneRowMoved
<1> QED BY <1>4, <1>9, SupplyMoves

(* Who writes the pairs table. *)
LEMMA PairsTableStep ==
  ASSUME [Next]_vars
  PROVE  \/ UNCHANGED zpairs
         \/ \E in \in PairInputs : AddPair(in)
         \/ \E p \in PairIds, active \in BOOLEAN, limits \in PairLimits : SetPair(p, active, limits)
<1>1. CASE AdminNext
  BY <1>1 DEF AdminNext, InitBridge, SetAdmin, SetDevMode, SetEvmRelay, Pause, SetEvmConf,
              SetEvmChain, RefundZtoE
<1>2. CASE MintNext
  BY <1>2, MintFrame
<1>3. CASE ExitNext
  BY <1>3, ZenonT(40) DEF ExitNext, OnTransfer, RelayZtoE, nativeVars
<1>4. CASE AssetUserNext \/ EvmStep \/ UNCHANGED vars
  BY <1>4 DEF AssetUserNext, PlainTransfer, OwnBurn, EvmStep, vars, nativeVars
<1> QED BY <1>1, <1>2, <1>3, <1>4 DEF Next

(* A pair the admin adds is for a token that had none. *)
LEMMA PairsAdded ==
  ASSUME Wellformed, [Next]_vars
  PROVE  \/ /\ DOMAIN zpairs' = DOMAIN zpairs
            /\ \A p \in DOMAIN zpairs : zpairs'[p].token = zpairs[p].token
         \/ /\ NoneMade
            /\ \E id \in PairIds, t \in ZeroTokens :
                 /\ id \notin DOMAIN zpairs /\ Unpaired(t)
                 /\ DOMAIN zpairs' = DOMAIN zpairs \cup {id}
                 /\ zpairs'[id].token = t
                 /\ \A p \in DOMAIN zpairs : zpairs'[p].token = zpairs[p].token
<1>1. ASSUME NEW in \in PairInputs, AddPair(in)
      PROVE  /\ NoneMade
             /\ \E id \in PairIds, t \in ZeroTokens :
                  /\ id \notin DOMAIN zpairs /\ Unpaired(t)
                  /\ DOMAIN zpairs' = DOMAIN zpairs \cup {id}
                  /\ zpairs'[id].token = t
                  /\ \A p \in DOMAIN zpairs : zpairs'[p].token = zpairs[p].token
  <2>1. NoneMade
    BY <1>1, LedgerRows DEF AddPair, NoneMade, SameStat
  <2>2. in.id \in PairIds /\ in.token \in ZeroTokens
    BY <1>1, EvmEscrowAssumption, ZeroBridgeAssumption DEF AddPair, ValidPairId, PairIds
  <2>3. /\ in.id \notin DOMAIN zpairs /\ Unpaired(in.token)
        /\ DOMAIN zpairs' = DOMAIN zpairs \cup {in.id}
        /\ zpairs'[in.id].token = in.token
        /\ \A p \in DOMAIN zpairs : zpairs'[p].token = zpairs[p].token
    BY <1>1 DEF AddPair, Unpaired
  <2> QED BY <2>1, <2>2, <2>3
<1>2. ASSUME NEW p \in PairIds, NEW active \in BOOLEAN, NEW limits \in PairLimits,
             SetPair(p, active, limits)
      PROVE  /\ DOMAIN zpairs' = DOMAIN zpairs
             /\ \A r \in DOMAIN zpairs : zpairs'[r].token = zpairs[r].token
  BY <1>2 DEF SetPair, Wellformed, NativeTypeOK, ZPairRow
<1> QED BY <1>1, <1>2, PairsTableStep

LEMMA SupplyWhenNoneMade ==
  ASSUME Wellformed, SupplyLedger, [Next]_vars, NoneMade
  PROVE  SupplyLedger'
<1>0. /\ \A t \in ZeroTokens : asset'[t].supply <= asset[t].supply /\ asset[t].supply \in Int
      /\ \A t \in ZeroTokens : InitialSupply(t) \in Int /\ asset'[t].supply \in Int
  <2>1. \A t \in ZeroTokens : asset'[t] \in TokenRow
    BY WellformedStep DEF Wellformed, AssetSound
  <2>2. \A t \in ZeroTokens : asset'[t].supply \in Int
    BY <2>1 DEF TokenRow
  <2> QED BY <2>2, LedgerRows, InitialSupplyType DEF NoneMade
<1>1. /\ \A p : MintedFor(p)' = MintedFor(p) /\ BurnedFor(p)' = BurnedFor(p)
      /\ \A p : MintedFor(p) \in Int /\ BurnedFor(p) \in Int
  BY SumsOverTables, TableSumTypes DEF NoneMade
<1>2. \A p \in DOMAIN zpairs : zpairs[p].token \in ZeroTokens
  BY DEF Wellformed, NativeTypeOK, ZPairRow
<1>3. ASSUME NEW t \in ZeroTokens, Unpaired(t) PROVE asset'[t].supply <= InitialSupply(t)
  <2>1. asset[t].supply <= InitialSupply(t)
    BY <1>3 DEF SupplyLedger, UnpairedNotIssued
  <2> QED BY <1>0, <2>1
<1>4. ASSUME NEW p \in DOMAIN zpairs
      PROVE  asset'[zpairs[p].token].supply + BurnedFor(p)'
               <= InitialSupply(zpairs[p].token) + MintedFor(p)'
  <2>1. asset[zpairs[p].token].supply + BurnedFor(p)
          <= InitialSupply(zpairs[p].token) + MintedFor(p)
    BY DEF SupplyLedger, SupplyMatchesTables
  <2> QED BY <1>0, <1>1, <1>2, <2>1
<1>5. CASE DOMAIN zpairs' = DOMAIN zpairs
           /\ \A p \in DOMAIN zpairs : zpairs'[p].token = zpairs[p].token
  <2>1. UnpairedNotIssued'
    BY <1>3, <1>5 DEF UnpairedNotIssued, Unpaired
  <2>2. SupplyMatchesTables'
    BY <1>4, <1>5 DEF SupplyMatchesTables
  <2> QED BY <1>5, <2>1, <2>2 DEF SupplyLedger, TokensPairedOnce
<1>6. ASSUME NEW id \in PairIds, NEW t \in ZeroTokens, id \notin DOMAIN zpairs, Unpaired(t),
             DOMAIN zpairs' = DOMAIN zpairs \cup {id}, zpairs'[id].token = t,
             \A p \in DOMAIN zpairs : zpairs'[p].token = zpairs[p].token
      PROVE  SupplyLedger'
  <2>1. UnpairedNotIssued'
    BY <1>3, <1>6 DEF UnpairedNotIssued, Unpaired
  <2>2. TokensPairedOnce'
    BY <1>6 DEF SupplyLedger, TokensPairedOnce, Unpaired
  <2>3. MintedFor(id)' = 0 /\ BurnedFor(id)' = 0
    BY <1>1, <1>6, NoRowsNoSums
  <2>4. asset'[t].supply + BurnedFor(id)' <= InitialSupply(t) + MintedFor(id)'
    BY <1>0, <1>3, <1>6, <2>3
  <2>5. SupplyMatchesTables'
    BY <1>4, <1>6, <2>4 DEF SupplyMatchesTables
  <2> QED BY <2>1, <2>2, <2>5 DEF SupplyLedger
<1> QED BY <1>5, <1>6, PairsAdded

LEMMA SupplyLedgerInit == ASSUME Init PROVE SupplyLedger
<1>1. DOMAIN zpairs = {}
  BY DEF Init
<1>2. \A t \in ZeroTokens : asset[t].supply <= InitialSupply(t)
  BY InitialSupplyType DEF Init, InitialSupply
<1> QED BY <1>1, <1>2
        DEF SupplyLedger, TokensPairedOnce, UnpairedNotIssued, SupplyMatchesTables

LEMMA SupplyLedgerStep == ASSUME Wellformed, SupplyLedger, [Next]_vars PROVE SupplyLedger'
BY SupplyStep, SupplyAfterMint, SupplyAfterRefund, SupplyAfterBurn, SupplyWhenNoneMade

LEMMA SupplyLedgerAlways == Spec => []SupplyLedger
<1>1. Init => SupplyLedger
  BY SupplyLedgerInit
<1>2. Wellformed /\ SupplyLedger /\ [Next]_vars => SupplyLedger'
  BY SupplyLedgerStep
<1> QED BY <1>1, <1>2, WellformedAlways, PTL DEF Spec

(* The supply of a paired token is never more than its initial supply, its  *)
(* mint rows and its refunds allow, whatever dev mode, settings and mixed   *)
(* decimals do (zero.bridge.cpp:236-251, 311-326, 339-348, 426-444).        *)
THEOREM SuppliesMatchTables == Spec => []SupplyMatchesTables
<1>1. SupplyLedger => SupplyMatchesTables
  BY DEF SupplyLedger
<1> QED BY <1>1, SupplyLedgerAlways, PTL
-----------------------------------------------------------------------------
(* What the native contract can make the EVM side do: releases sent by the  *)
(* zeroBridge account of the deployment, nothing else.                      *)
ReleaseMade ==
  \E b \in EvmBridges, p \in PairIds, amount \in Nat, receiver \in EvmAddrs \cup {ZeroAddress},
     burn \in 1..MaxRequests :
    ReleaseToEvm(b, ZeroBridgeOf[b], p, amount, receiver, burn)

LEMMA RawReleases ==
  ASSUME Wellformed, NEW request \in ZtoeRow, NEW burn \in 1..MaxRequests,
         CanRelay(request, burn), Raw(request, burn)
  PROVE  UNCHANGED evmVars \/ ReleaseMade
<1> SUFFICES ASSUME ReleaseToEvm(evmconfig.bridge, LinkedAddress, request.pair,
                                 EvmAmount(request), request.receiver, burn)
             PROVE  ReleaseMade
  BY DEF Raw
<1> DEFINE b == evmconfig.bridge
           amount == EvmAmount(request)
<1>1. b \in EvmBridges
  BY DEF CanRelay, Wellformed, NativeTypeOK
<1>2. LinkedAddress = ZeroBridgeOf[b] /\ request.pair \in DOMAIN registry
      /\ amount \in registry[request.pair].limits.min .. registry[request.pair].limits.max
  BY DEF ReleaseToEvm, CanRelease, ActivePair, AmountAllowed
<1>3. request.receiver \in EvmAddrs \cup {ZeroAddress} /\ request.pair \in PairIds
  BY DEF ZtoeRow
<1>4. registry[request.pair].limits \in Limits
  BY <1>2, PairFacts DEF Wellformed
<1> HIDE DEF amount
<1>5. amount \in Nat
  BY <1>2, <1>4 DEF Limits
<1>6. ReleaseToEvm(b, ZeroBridgeOf[b], request.pair, amount, request.receiver, burn)
  BY <1>2 DEF amount
<1> HIDE DEF b
<1> QED BY <1>1, <1>3, <1>5, <1>6, Zenon DEF ReleaseMade

LEMMA EvmSideStep ==
  ASSUME Wellformed, [Next]_vars
  PROVE  UNCHANGED evmVars \/ EvmOwnNext \/ ReleaseMade
<1>1. CASE AdminNext \/ MintNext \/ AssetUserNext \/ EvmStep \/ UNCHANGED vars
  <2>1. CASE AdminNext
    BY <2>1 DEF AdminNext, InitBridge, SetAdmin, SetDevMode, SetEvmRelay, Pause, SetEvmConf,
                SetEvmChain, AddPair, SetPair, RefundZtoE
  <2>2. CASE MintNext
    BY <2>2, MintFrame
  <2>3. CASE AssetUserNext \/ EvmStep \/ UNCHANGED vars
    BY <2>3 DEF AssetUserNext, PlainTransfer, OwnBurn, EvmStep, vars
  <2> QED BY <1>1, <2>1, <2>2, <2>3
<1>2. ASSUME NEW p \in PairIds, NEW from \in Accounts, NEW q \in Quantities,
             NEW memo \in EvmAddrs \cup {ZeroAddress}, OnTransfer(p, from, q, memo)
      PROVE  UNCHANGED evmVars \/ ReleaseMade
  <2> DEFINE request == [pair |-> p, sender |-> from, quantity |-> q, receiver |-> memo,
                         createdAt |-> now, refunded |-> FALSE]
             burn == Len(ztoe) + 1
  <2>1. request \in ZtoeRow /\ Len(ztoe) \in Nat
    BY <1>2, OnTransferAppends
  <2>2. Len(ztoe) < MaxRequests /\ CanRelay(request, burn) /\ Raw(request, burn)
    BY <1>2 DEF OnTransfer
  <2>3. burn \in 1..MaxRequests
    BY <2>1, <2>2, EvmEscrowAssumption
  <2> HIDE DEF request, burn
  <2> QED BY <2>1, <2>2, <2>3, RawReleases
<1>3. ASSUME NEW i \in 1..MaxRequests, RelayZtoE(i) PROVE UNCHANGED evmVars \/ ReleaseMade
  <2>1. ztoe[i] \in ZtoeRow /\ CanRelay(ztoe[i], i) /\ Raw(ztoe[i], i)
    BY <1>3 DEF RelayZtoE, Wellformed, NativeTypeOK
  <2> QED BY <2>1, RawReleases
<1> QED BY <1>1, <1>2, <1>3 DEF Next, ExitNext

(* The EVM side of the composed system is the EVM side that EvmEscrow       *)
(* models by itself, for depositors who may pass any amount.                *)
THEOREM BridgeDrivesEvm ==
  ASSUME Amounts = Nat
  PROVE  Spec => EvmSpec
<1>1. Init => EvmInit
  BY DEF Init
<1>2. Wellformed /\ [Next]_vars => [EvmNext]_evmVars
  BY EvmSideStep DEF EvmNext, ReleaseMade
<1> QED BY <1>1, <1>2, WellformedAlways, PTL DEF Spec, EvmSpec

LEMMA EvmLedgerStep == ASSUME Wellformed, EvmLedger, [Next]_vars PROVE EvmLedger'
<1>1. ASSUME NEW b \in EvmBridges, NEW p \in PairIds, NEW amount \in Nat,
             NEW receiver \in EvmAddrs \cup {ZeroAddress}, NEW burn \in 1..MaxRequests,
             ReleaseToEvm(b, ZeroBridgeOf[b], p, amount, receiver, burn)
      PROVE  EvmLedger'
  BY <1>1, LedgerRelease, EvmEscrowAssumption
<1> QED BY <1>1, EvmSideStep, LedgerOwn, LedgerUnchanged DEF ReleaseMade

LEMMA EvmLedgerUnderBridge == Spec => []EvmLedger
<1>1. Init => EvmLedger
  BY EvmLedgerInit DEF Init
<1>2. Wellformed /\ EvmLedger /\ [Next]_vars => EvmLedger'
  BY EvmLedgerStep
<1> QED BY <1>1, <1>2, WellformedAlways, PTL DEF Spec

(* The escrow covers the logs and the daily limit holds with the native     *)
(* contract in charge of the releases, whatever amounts depositors use.     *)
THEOREM EscrowCoversLogsUnderBridge == Spec => []EvmSideCoversLogs
<1>1. EvmLedger => EvmSideCoversLogs
  BY DEF EvmLedger
<1> QED BY <1>1, EvmLedgerUnderBridge, PTL

THEOREM DailyLimitKeptUnderBridge == Spec => DailyLimit
<1>1. Init => DailyInv
  BY DailyInit DEF Init
<1>2. Wellformed' /\ Wellformed /\ DailyInv /\ [Next]_vars
        => DailyInv' /\ [DepositKeepsDailyLimit]_evmVars
  <2> SUFFICES ASSUME Wellformed', Wellformed, DailyInv, [Next]_vars
               PROVE  RecordsStand \/ DepositMade
    BY RecordsStandCounts, DepositMadeCounts DEF Wellformed
  <2>1. ASSUME ReleaseMade PROVE RecordsStand
    BY <2>1 DEF ReleaseMade, ReleaseToEvm, RecordsStand
  <2> QED BY <2>1, EvmSideStep, RecordsStep
<1> QED BY <1>1, <1>2, WellformedAlways, PTL DEF Spec, DailyLimit
-----------------------------------------------------------------------------
(* Deposits are minted or not: a proof moves the amount of one record from  *)
(* one sum to the other, a deposit adds an unminted one.                    *)
LEMMA UnmintedType ==
  ASSUME EvmTypeOK, NEW p
  PROVE  UnmintedFor(p) \in Nat
<1> DEFINE w == [h \in DOMAIN requests |-> IF requests[h].pair = p /\ EvmRequestUnused(h)
                                           THEN requests[h].amount ELSE 0]
<1>1. Len(requests) \in Nat /\ DOMAIN requests = 1..Len(requests)
      /\ \A h \in 1..Len(requests) : requests[h] \in RequestRow
  BY LenProperties DEF EvmTypeOK
<1>2. \A h \in 1..Len(requests) : w[h] \in Nat
  BY <1>1 DEF RequestRow
<1>3. UnmintedFor(p) = Total(w, Len(requests))
  BY DEF UnmintedFor
<1> HIDE DEF w
<1> QED BY <1>1, <1>2, <1>3, TotalBounds

LEMMA UnmintedDeposit ==
  ASSUME EvmTypeOK, NEW row \in RequestRow, requests' = Append(requests, row), UNCHANGED etoz,
         \A k \in DOMAIN etoz : etoz[k].evmRequest \in DOMAIN requests, NEW p
  PROVE  UnmintedFor(p)' = UnmintedFor(p) + (IF row.pair = p THEN row.amount ELSE 0)
<1> DEFINE n == Len(requests)
           w == [h \in 1..n |-> IF requests[h].pair = p /\ EvmRequestUnused(h)
                                THEN requests[h].amount ELSE 0]
           v == [h \in 1..(n+1) |-> IF requests'[h].pair = p /\ EvmRequestUnused(h)
                                    THEN requests'[h].amount ELSE 0]
<1>1. /\ n \in Nat /\ DOMAIN requests = 1..n /\ Len(requests') = n + 1
      /\ DOMAIN requests' = 1..(n+1) /\ requests'[n+1] = row
      /\ \A h \in 1..n : requests'[h] = requests[h] /\ requests[h] \in RequestRow
  BY RowAppended DEF EvmTypeOK
<1>2. \A h : EvmRequestUnused(h)' = EvmRequestUnused(h)
  BY DEF EvmRequestUnused
<1>3. UnmintedFor(p) = Total(w, n) /\ UnmintedFor(p)' = Total(v, n+1)
  <2>1. UnmintedFor(p) = Total(w, n)
    BY <1>1 DEF UnmintedFor
  <2>2. UnmintedFor(p)' = Total(v, n+1)
    BY <1>1, <1>2 DEF UnmintedFor
  <2> QED BY <2>1, <2>2
<1> HIDE DEF n
<1>4. row.amount \in Int /\ \A h \in 1..n : requests[h].amount \in Int
  BY <1>1 DEF RequestRow
<1>5. Weights(w, n) /\ \A h \in 1..n : v[h] = w[h]
  BY <1>1, <1>4 DEF Weights
<1>6. EvmRequestUnused(n+1)
  BY <1>1 DEF EvmRequestUnused
<1>7. v[n+1] = (IF row.pair = p THEN row.amount ELSE 0) /\ v[n+1] \in Int
  BY <1>1, <1>4, <1>6
<1> HIDE DEF w, v
<1>8. Total(v, n+1) = Total(w, n) + v[n+1]
  BY <1>1, <1>5, <1>7, TotalAppend
<1> QED BY <1>3, <1>7, <1>8

LEMMA UnmintedMint ==
  ASSUME EvmTypeOK, UNCHANGED requests, NEW h \in DOMAIN requests, EvmRequestUnused(h),
         \A g : EvmRequestUnused(g)' <=> EvmRequestUnused(g) /\ g # h, NEW p
  PROVE  UnmintedFor(p)' = UnmintedFor(p)
                           - (IF requests[h].pair = p THEN requests[h].amount ELSE 0)
<1> DEFINE n == Len(requests)
           w == [g \in 1..n |-> IF requests[g].pair = p /\ EvmRequestUnused(g)
                                THEN requests[g].amount ELSE 0]
           v == [g \in 1..n |-> IF requests[g].pair = p /\ EvmRequestUnused(g) /\ g # h
                                THEN requests[g].amount ELSE 0]
<1>1. n \in Nat /\ DOMAIN requests = 1..n /\ \A g \in 1..n : requests[g] \in RequestRow
  BY LenProperties DEF EvmTypeOK
<1>2. UnmintedFor(p) = Total(w, n) /\ UnmintedFor(p)' = Total(v, n)
  <2>1. UnmintedFor(p) = Total(w, n)
    BY <1>1 DEF UnmintedFor
  <2>2. UnmintedFor(p)' = Total(v, n)
    BY <1>1 DEF UnmintedFor
  <2> QED BY <2>1, <2>2
<1> HIDE DEF n
<1>3. \A g \in 1..n : requests[g].amount \in Int
  BY <1>1 DEF RequestRow
<1>4. /\ Weights(w, n) /\ Weights(v, n) /\ \A g \in 1..n : g # h => v[g] = w[g]
      /\ v[h] = 0 /\ w[h] = (IF requests[h].pair = p THEN requests[h].amount ELSE 0)
  BY <1>1, <1>3 DEF Weights
<1>5. w[h] \in Int
  BY <1>1, <1>4 DEF Weights
<1> HIDE DEF w, v
<1>6. Total(v, n) = Total(w, n) - w[h] + v[h] /\ Total(w, n) \in Int
  BY <1>1, <1>4, TotalChange, TotalType
<1> QED BY <1>2, <1>4, <1>5, <1>6

DepositLedger == \A p : DepositsOf(p) = MintedFor(p) + UnmintedFor(p)

(* Only a proof mints and only the EVM side takes deposits. *)
LEMMA DepositsOrMints ==
  ASSUME Wellformed, NoDevMode, [Next]_vars
  PROVE  \/ UNCHANGED <<etoz, requests>>
         \/ UNCHANGED etoz /\ \E row \in RequestRow : requests' = Append(requests, row)
         \/ UNCHANGED requests /\
            \E p \in PairIds, h \in 1..MaxRequests, receiver \in Accounts, q \in Amounts,
               sender \in EvmUsers : ProveEtoZ(p, h, receiver, q, sender)
<1>1. CASE EvmStep
  <2>1. ASSUME NEW b \in EvmBridges, NEW p \in PairIds, NEW sender \in EvmUsers,
               NEW amount \in Amounts, NEW receiver \in ZeroReceivers,
               DepositToZero(b, p, sender, amount, receiver)
        PROVE  \E row \in RequestRow : requests' = Append(requests, row)
    <3>1. StoredRequest(b, p, sender, amount, receiver) \in RequestRow
      BY EvmEscrowAssumption DEF StoredRequest, RequestRow, PairIds, Wellformed, EvmTypeOK
    <3> QED BY <2>1, <3>1 DEF DepositToZero
  <2>2. UNCHANGED requests \/ \E row \in RequestRow : requests' = Append(requests, row)
    <3>1. CASE OwnerNext \/ Tick
      BY <3>1 DEF OwnerNext, RegisterPair, SetPairActive, SetPairLimits, SetPaused, SetBridge, Tick
    <3>2. CASE UserNext
      BY <3>2, <2>1 DEF UserNext, SendErc20
    <3> QED BY <1>1, <3>1, <3>2 DEF EvmStep, EvmOwnNext
  <2> QED BY <1>1, <2>2 DEF EvmStep, nativeVars
<1>2. CASE AdminNext
  BY <1>2 DEF AdminNext, InitBridge, SetAdmin, SetDevMode, SetEvmRelay, Pause, SetEvmConf,
              SetEvmChain, AddPair, SetPair, RefundZtoE, evmVars
<1>3. CASE MintNext
  <2>1. PICK p \in PairIds, h \in 1..MaxRequests, receiver \in Accounts, q \in Amounts,
             sender \in EvmUsers : ProveEtoZ(p, h, receiver, q, sender)
    BY <1>3 DEF MintNext, ProcessEtoZ, NoDevMode
  <2>2. UNCHANGED requests
    BY <2>1 DEF ProveEtoZ, Mint, evmVars
  <2> QED BY <2>1, <2>2
<1>4. CASE ExitNext
  <2>1. ASSUME NEW request, NEW burn, Raw(request, burn) PROVE UNCHANGED requests
    BY <2>1 DEF Raw, ReleaseToEvm, evmVars
  <2> QED BY <1>4, <2>1, ZenonT(40) DEF ExitNext, OnTransfer, RelayZtoE, nativeVars
<1>5. CASE AssetUserNext \/ UNCHANGED vars
  BY <1>5 DEF AssetUserNext, PlainTransfer, OwnBurn, nativeVars, evmVars, vars
<1> QED BY <1>1, <1>2, <1>3, <1>4, <1>5 DEF Next

LEMMA DepositLedgerStep ==
  ASSUME Wellformed, NoDevMode, MintsMatchDeposits, DepositLedger, [Next]_vars
  PROVE  DepositLedger'
<1> SUFFICES ASSUME NEW p PROVE DepositsOf(p)' = MintedFor(p)' + UnmintedFor(p)'
  BY DEF DepositLedger
<1>0. /\ DepositsOf(p) = MintedFor(p) + UnmintedFor(p)
      /\ MintedFor(p) \in Int /\ UnmintedFor(p) \in Int
  BY UnmintedType, TableSumTypes DEF DepositLedger, Wellformed
<1>1. CASE UNCHANGED <<etoz, requests>>
  BY <1>0, <1>1 DEF DepositsOf, MintedFor, UnmintedFor, EvmRequestUnused
<1>2. ASSUME UNCHANGED etoz, NEW row \in RequestRow, requests' = Append(requests, row)
      PROVE  DepositsOf(p)' = MintedFor(p)' + UnmintedFor(p)'
  <2> DEFINE gain == IF row.pair = p THEN row.amount ELSE 0
  <2>1. gain \in Int
    BY DEF RequestRow
  <2> HIDE DEF gain
  <2>2. DepositsOf(p)' = DepositsOf(p) + gain
    BY <1>2, RequestAdded DEF Wellformed, gain
  <2>3. UnmintedFor(p)' = UnmintedFor(p) + gain
    BY <1>2, UnmintedDeposit DEF Wellformed, MintsMatchDeposits, gain
  <2>4. MintedFor(p)' = MintedFor(p)
    BY <1>2 DEF MintedFor
  <2> QED BY <1>0, <2>1, <2>2, <2>3, <2>4
<1>3. ASSUME UNCHANGED requests, NEW r \in PairIds, NEW h \in 1..MaxRequests,
             NEW receiver \in Accounts, NEW q \in Amounts, NEW sender \in EvmUsers,
             ProveEtoZ(r, h, receiver, q, sender)
      PROVE  DepositsOf(p)' = MintedFor(p)' + UnmintedFor(p)'
  <2> DEFINE row == [evmRequest |-> h, pair |-> r, receiver |-> receiver, quantity |-> q,
                     sender |-> sender]
             gain == IF r = p THEN q ELSE 0
  <2>1. row \in EtozRow /\ etoz' = Append(etoz, row) /\ etoz \in Seq(EtozRow)
    BY <1>3, EvmEscrowAssumption
       DEF EtozRow, ProveEtoZ, CanProve, Mint, Wellformed, NativeTypeOK
  <2>2. row.pair = r /\ row.quantity = q /\ row.evmRequest = h /\ q \in Int /\ gain \in Int
    BY EvmEscrowAssumption
  <2> HIDE DEF row
  <2>3. MintedFor(p)' = MintedFor(p) + gain
    BY <2>1, <2>2, MintedAppend, SumsOverTables
  <2>4. h \in DOMAIN requests /\ EvmRequestUnused(h)
        /\ requests[h].pair = r /\ requests[h].amount = q
    BY <1>3 DEF ProveEtoZ, CanProve, ProofMatches
  <2>5. \A g : EvmRequestUnused(g)' <=> EvmRequestUnused(g) /\ g # h
    BY <2>1, <2>2, RowAppended DEF EvmRequestUnused
  <2>6. UnmintedFor(p)' = UnmintedFor(p) - gain
    BY <1>3, <2>4, <2>5, UnmintedMint DEF Wellformed
  <2>7. DepositsOf(p)' = DepositsOf(p)
    BY <1>3 DEF DepositsOf
  <2> HIDE DEF gain
  <2> QED BY <1>0, <2>2, <2>3, <2>6, <2>7
<1> QED BY <1>1, <1>2, <1>3, DepositsOrMints

LEMMA DepositLedgerInit == ASSUME Init PROVE DepositLedger
<1>1. Wellformed
  BY WellformedInit
<1>2. requests = << >> /\ DOMAIN zpairs = {}
  BY DEF Init, EvmInit
<1> SUFFICES ASSUME NEW p PROVE DepositsOf(p) = MintedFor(p) + UnmintedFor(p)
  BY DEF DepositLedger
<1>3. MintedFor(p) = 0
  BY <1>1, <1>2, NoRowsNoSums
<1>4. DepositsOf(p) = 0
  BY <1>1, <1>2, LogTotals DEF Wellformed
<1>5. UnmintedFor(p) = 0
  BY <1>2, TotalZero DEF UnmintedFor
<1> QED BY <1>3, <1>4, <1>5
-----------------------------------------------------------------------------
(* Burns are paid, refunded or owed.  The sums are over a table of requests *)
(* and a set of processed burns; a step changes the table, the set, or the  *)
(* table and then the set.                                                  *)
ReleasesIn(done, i) ==
  Total([b \in EvmBridges |-> IF <<b, i>> \in done THEN 1 ELSE 0], NumEvmBridges)
OpenShare(row, releases) ==
  row.quantity * (1 - releases - (IF row.refunded THEN 1 ELSE 0))
OwedIn(table, done, p) ==
  Total([i \in DOMAIN table |-> IF table[i].pair = p
                                THEN OpenShare(table[i], ReleasesIn(done, i)) ELSE 0], Len(table))

LEMMA OwedOverTables ==
  /\ \A i : ReleasesFor(i) = ReleasesIn(processed, i)
  /\ \A p : OwedFor(p) = OwedIn(ztoe, processed, p)
  /\ \A p : OwedFor(p)' = OwedIn(ztoe', processed', p)
BY DEF ReleasesFor, ReleasesIn, OwedFor, OwedIn, OpenShare

LEMMA ReleasesType ==
  ASSUME NEW done, NEW i
  PROVE  /\ ReleasesIn(done, i) \in Nat
         /\ (\A b \in EvmBridges : <<b, i>> \notin done) => ReleasesIn(done, i) = 0
<1> DEFINE w == [b \in EvmBridges |-> IF <<b, i>> \in done THEN 1 ELSE 0]
<1>1. \A b \in 1..NumEvmBridges : w[b] \in Nat
  BY DEF EvmBridges
<1>2. (\A b \in EvmBridges : <<b, i>> \notin done) => \A b \in 1..NumEvmBridges : w[b] = 0
  BY DEF EvmBridges
<1> HIDE DEF w
<1>3. Total(w, NumEvmBridges) \in Nat
  BY <1>1, TotalBounds, EvmEscrowAssumption
<1>4. (\A b \in 1..NumEvmBridges : w[b] = 0) => Total(w, NumEvmBridges) = 0
  BY TotalOfZeros, EvmEscrowAssumption
<1> QED BY <1>2, <1>3, <1>4 DEF ReleasesIn, w

(* A release on a deployment that had not processed the burn counts once.   *)
LEMMA ReleaseCounts ==
  ASSUME NEW done, NEW b \in EvmBridges, NEW i, <<b, i>> \notin done, NEW j
  PROVE  ReleasesIn(done \cup {<<b, i>>}, j) = ReleasesIn(done, j) + (IF j = i THEN 1 ELSE 0)
<1> DEFINE n == NumEvmBridges
           w == [a \in EvmBridges |-> IF <<a, j>> \in done THEN 1 ELSE 0]
           v == [a \in EvmBridges |-> IF <<a, j>> \in done \cup {<<b, i>>} THEN 1 ELSE 0]
<1>1. n \in Nat /\ b \in 1..n
  BY EvmEscrowAssumption DEF EvmBridges
<1>2. \A a \in 1..n : a \in EvmBridges /\ w[a] \in Int /\ v[a] \in Int
  BY DEF EvmBridges
<1>3. \A a \in 1..n : a # b => v[a] = w[a]
  BY DEF EvmBridges
<1>4. j = i => v[b] = 1 /\ w[b] = 0
  OBVIOUS
<1>5. j # i => v[b] = w[b]
  OBVIOUS
<1>6. ReleasesIn(done, j) = Total(w, n) /\ ReleasesIn(done \cup {<<b, i>>}, j) = Total(v, n)
  BY DEF ReleasesIn
<1>7. ReleasesIn(done, j) \in Nat
  BY ReleasesType
<1> HIDE DEF w, v, n
<1>8. Total(v, n) = Total(w, n) - w[b] + v[b] /\ w[b] \in Int
  BY <1>1, <1>2, <1>3, TotalChange DEF Weights
<1> QED BY <1>4, <1>5, <1>6, <1>7, <1>8

LEMMA ShareType ==
  ASSUME NEW row \in ZtoeRow, NEW releases \in Nat
  PROVE  /\ OpenShare(row, releases) \in Int
         /\ OpenShare(row, releases + 1) = OpenShare(row, releases) - row.quantity
         /\ releases = 0 /\ ~row.refunded => OpenShare(row, releases) = row.quantity
<1> DEFINE q == row.quantity
           k == 1 - releases - (IF row.refunded THEN 1 ELSE 0)
<1>1. q \in Int /\ k \in Int
  BY DEF ZtoeRow
<1>2. 1 - (releases + 1) - (IF row.refunded THEN 1 ELSE 0) = k - 1
  OBVIOUS
<1>3. releases = 0 /\ ~row.refunded => k = 1
  OBVIOUS
<1>4. OpenShare(row, releases) = q * k /\ OpenShare(row, releases + 1) = q * (k - 1)
  BY <1>2 DEF OpenShare
<1> HIDE DEF q, k
<1>5. q * k \in Int /\ q * (k - 1) = q * k - q /\ (k = 1 => q * k = q)
  BY <1>1
<1> QED BY <1>3, <1>4, <1>5 DEF q

LEMMA OwedTypes ==
  ASSUME NEW table \in Seq(ZtoeRow), NEW done, NEW p
  PROVE  /\ OwedIn(table, done, p) \in Int
         /\ Len(table) \in Nat /\ DOMAIN table = 1..Len(table)
         /\ \A i \in 1..Len(table) :
              /\ table[i] \in ZtoeRow /\ table[i].quantity \in Int
              /\ OpenShare(table[i], ReleasesIn(done, i)) \in Int
<1> DEFINE n == Len(table)
           w == [i \in 1..n |-> IF table[i].pair = p
                                THEN OpenShare(table[i], ReleasesIn(done, i)) ELSE 0]
<1>1. n \in Nat /\ DOMAIN table = 1..n /\ \A i \in 1..n : table[i] \in ZtoeRow
  BY LenProperties
<1>2. \A i \in 1..n : OpenShare(table[i], ReleasesIn(done, i)) \in Int
  BY <1>1, ReleasesType, ShareType
<1>3. \A i \in 1..n : table[i].quantity \in Int
  BY <1>1 DEF ZtoeRow
<1>4. OwedIn(table, done, p) = Total(w, n)
  BY <1>1 DEF OwedIn
<1> HIDE DEF n
<1>5. Weights(w, n)
  BY <1>2 DEF Weights
<1> HIDE DEF w
<1> QED BY <1>1, <1>2, <1>3, <1>4, <1>5, TotalType DEF n

LEMMA OwedAppend ==
  ASSUME NEW table \in Seq(ZtoeRow), NEW row \in ZtoeRow, ~row.refunded, NEW done,
         \A b \in EvmBridges : <<b, Len(table) + 1>> \notin done, NEW p
  PROVE  OwedIn(Append(table, row), done, p)
           = OwedIn(table, done, p) + (IF row.pair = p THEN row.quantity ELSE 0)
<1> DEFINE new == Append(table, row)
           n == Len(table)
           Share(t, i) == IF t[i].pair = p THEN OpenShare(t[i], ReleasesIn(done, i)) ELSE 0
           w == [i \in 1..n |-> Share(table, i)]
           v == [i \in 1..(n+1) |-> Share(new, i)]
<1>1. /\ n \in Nat /\ DOMAIN table = 1..n /\ Len(new) = n + 1 /\ DOMAIN new = 1..(n+1)
      /\ new[n+1] = row /\ \A i \in 1..n : new[i] = table[i]
  BY RowAppended
<1>2. \A i \in 1..n : OpenShare(table[i], ReleasesIn(done, i)) \in Int
  BY OwedTypes
<1>3. ReleasesIn(done, n+1) = 0
  BY ReleasesType
<1> HIDE DEF new
<1>4. OwedIn(table, done, p) = Total(w, n) /\ OwedIn(new, done, p) = Total(v, n+1)
  BY <1>1 DEF OwedIn
<1> HIDE DEF n
<1>5. Weights(w, n) /\ \A i \in 1..n : v[i] = w[i]
  BY <1>1, <1>2 DEF Weights
<1>6. row.quantity \in Int /\ OpenShare(row, ReleasesIn(done, n+1)) = row.quantity
  BY <1>3, ShareType DEF ZtoeRow
<1>7. v[n+1] = (IF row.pair = p THEN row.quantity ELSE 0) /\ v[n+1] \in Int
  BY <1>1, <1>6
<1> HIDE DEF w, v
<1>8. Total(v, n+1) = Total(w, n) + v[n+1]
  BY <1>1, <1>5, <1>7, TotalAppend
<1> QED BY <1>4, <1>7, <1>8 DEF new

(* new is the table once its row i, not refunded before, is refunded. *)
Refunds(table, i, new) ==
  ~table[i].refunded /\ new = [table EXCEPT ![i].refunded = TRUE]

LEMMA OwedRefund ==
  ASSUME NEW table \in Seq(ZtoeRow), NEW i \in DOMAIN table, NEW new, Refunds(table, i, new),
         NEW done, NEW p
  PROVE  OwedIn(new, done, p)
           = OwedIn(table, done, p) - (IF table[i].pair = p THEN table[i].quantity ELSE 0)
<1> DEFINE n == Len(table)
           r == ReleasesIn(done, i)
           Share(t, j) == IF t[j].pair = p THEN OpenShare(t[j], ReleasesIn(done, j)) ELSE 0
           w == [j \in 1..n |-> Share(table, j)]
           v == [j \in 1..n |-> Share(new, j)]
<1>1. /\ n \in Nat /\ DOMAIN table = 1..n
      /\ \A j \in 1..n : table[j] \in ZtoeRow /\ table[j].quantity \in Int
      /\ \A j \in 1..n : OpenShare(table[j], ReleasesIn(done, j)) \in Int
  BY OwedTypes
<1>2. /\ Len(new) = n /\ DOMAIN new = 1..n
      /\ new[i].refunded /\ new[i].pair = table[i].pair /\ new[i].quantity = table[i].quantity
      /\ new \in Seq(ZtoeRow) /\ \A j \in 1..n : j # i => new[j] = table[j]
  <2>1. /\ [table[i] EXCEPT !.refunded = TRUE] \in ZtoeRow
        /\ [table[i] EXCEPT !.refunded = TRUE].refunded
        /\ [table[i] EXCEPT !.refunded = TRUE].pair = table[i].pair
        /\ [table[i] EXCEPT !.refunded = TRUE].quantity = table[i].quantity
    BY <1>1 DEF ZtoeRow
  <2>2. new[i] = [table[i] EXCEPT !.refunded = TRUE] /\ \A j \in 1..n : j # i => new[j] = table[j]
    BY <1>1 DEF Refunds
  <2>3. new \in [1..n -> ZtoeRow]
    BY <1>1, <2>1 DEF Refunds
  <2>4. new \in Seq(ZtoeRow) /\ Len(new) = n /\ DOMAIN new = 1..n
    <3> HIDE DEF n
    <3> QED BY <1>1, <2>3
  <2> QED BY <2>1, <2>2, <2>4
<1>3. OpenShare(new[i], r) = OpenShare(table[i], r) - table[i].quantity
  <2>1. r \in Nat
    BY ReleasesType
  <2> HIDE DEF r
  <2>2. OpenShare(new[i], r) = table[i].quantity * (1 - (r + 1))
    BY <1>2, <2>1 DEF OpenShare
  <2>3. OpenShare(table[i], r + 1) = table[i].quantity * (1 - (r + 1))
    BY <2>1 DEF OpenShare, Refunds
  <2>4. OpenShare(table[i], r + 1) = OpenShare(table[i], r) - table[i].quantity
    BY <1>1, <2>1, ShareType
  <2> QED BY <2>2, <2>3, <2>4
<1>4. OwedIn(table, done, p) = Total(w, n) /\ OwedIn(new, done, p) = Total(v, n)
  BY <1>1, <1>2 DEF OwedIn
<1>5. OwedIn(table, done, p) \in Int
  BY OwedTypes
<1>6. \A j \in 1..n : OpenShare(new[j], ReleasesIn(done, j)) \in Int
  BY <1>2, OwedTypes
<1> HIDE DEF n
<1>7. /\ Weights(w, n) /\ Weights(v, n)
      /\ \A j \in 1..n : j # i => v[j] = w[j]
  <2>1. Weights(w, n)
    BY <1>1 DEF Weights
  <2>2. Weights(v, n)
    BY <1>6 DEF Weights
  <2>3. \A j \in 1..n : j # i => Share(new, j) = Share(table, j)
    BY <1>2
  <2> QED BY <2>1, <2>2, <2>3
<1>8. v[i] = w[i] - (IF table[i].pair = p THEN table[i].quantity ELSE 0) /\ w[i] \in Int
  BY <1>1, <1>2, <1>3, <1>7 DEF Weights
<1>9. table[i].quantity \in Int /\ i \in 1..n
  BY <1>1
<1> HIDE DEF w, v
<1>10. Total(v, n) = Total(w, n) - w[i] + v[i]
  BY <1>1, <1>7, <1>9, TotalChange
<1> QED BY <1>4, <1>5, <1>8, <1>9, <1>10

LEMMA OwedPay ==
  ASSUME NEW table \in Seq(ZtoeRow), NEW i \in DOMAIN table, NEW done,
         NEW b \in EvmBridges, <<b, i>> \notin done, NEW p
  PROVE  OwedIn(table, done \cup {<<b, i>>}, p)
           = OwedIn(table, done, p) - (IF table[i].pair = p THEN table[i].quantity ELSE 0)
<1> DEFINE paid == done \cup {<<b, i>>}
           n == Len(table)
           Share(d, j) == IF table[j].pair = p THEN OpenShare(table[j], ReleasesIn(d, j)) ELSE 0
           w == [j \in 1..n |-> Share(done, j)]
           v == [j \in 1..n |-> Share(paid, j)]
<1>1. /\ n \in Nat /\ DOMAIN table = 1..n
      /\ \A j \in 1..n : table[j] \in ZtoeRow /\ table[j].quantity \in Int
      /\ \A j \in 1..n : OpenShare(table[j], ReleasesIn(done, j)) \in Int
      /\ \A j \in 1..n : OpenShare(table[j], ReleasesIn(paid, j)) \in Int
      /\ OwedIn(table, done, p) \in Int
  BY OwedTypes
<1>2. \A j : ReleasesIn(paid, j) = ReleasesIn(done, j) + (IF j = i THEN 1 ELSE 0)
  BY ReleaseCounts
<1>3. \A j : ReleasesIn(done, j) \in Nat
  BY ReleasesType
<1>4. OwedIn(table, done, p) = Total(w, n) /\ OwedIn(table, paid, p) = Total(v, n)
  BY <1>1 DEF OwedIn
<1> HIDE DEF n, paid
<1>5. \A j \in 1..n : j # i => ReleasesIn(paid, j) = ReleasesIn(done, j)
  BY <1>2, <1>3
<1>6. OpenShare(table[i], ReleasesIn(paid, i))
        = OpenShare(table[i], ReleasesIn(done, i)) - table[i].quantity
  BY <1>1, <1>2, <1>3, ShareType
<1>7. /\ Weights(w, n) /\ Weights(v, n)
      /\ \A j \in 1..n : j # i => v[j] = w[j]
  BY <1>1, <1>5 DEF Weights
<1>8. v[i] = w[i] - (IF table[i].pair = p THEN table[i].quantity ELSE 0) /\ w[i] \in Int
  BY <1>1, <1>6, <1>7 DEF Weights
<1>9. table[i].quantity \in Int /\ i \in 1..n
  BY <1>1
<1> HIDE DEF w, v
<1>10. Total(v, n) = Total(w, n) - w[i] + v[i]
  BY <1>1, <1>7, <1>9, TotalChange
<1> QED BY <1>1, <1>4, <1>8, <1>9, <1>10 DEF paid
-----------------------------------------------------------------------------
(* The admin pairs tokens with the same number of decimals: a release then  *)
(* pays the quantity that was burned.                                       *)
DecimalsMatch == \A in \in PairInputs : in.decimals = ZeroDecimals[in.token]
SameDecimals == \A p \in DOMAIN zpairs : zpairs[p].decimals = ZeroDecimals[zpairs[p].token]

LEMMA SameDecimalsStep ==
  ASSUME DecimalsMatch, Wellformed, SameDecimals, [Next]_vars
  PROVE  SameDecimals'
<1>1. \A p \in DOMAIN zpairs : zpairs'[p].decimals = ZeroDecimals[zpairs'[p].token]
  BY RowsKept DEF PairsKept, SameDecimals
<1>2. CASE UNCHANGED zpairs
  BY <1>2 DEF SameDecimals
<1>3. ASSUME NEW in \in PairInputs, AddPair(in) PROVE SameDecimals'
  <2>1. zpairs' = [p \in DOMAIN zpairs \cup {in.id} |->
                     IF p = in.id THEN [token |-> in.token, decimals |-> in.decimals,
                                        active |-> TRUE, limits |-> in.limits]
                                  ELSE zpairs[p]]
    BY <1>3 DEF AddPair
  <2>2. /\ DOMAIN zpairs' = DOMAIN zpairs \cup {in.id}
        /\ zpairs'[in.id].token = in.token /\ zpairs'[in.id].decimals = in.decimals
    BY <2>1
  <2> QED BY <1>1, <2>2 DEF SameDecimals, DecimalsMatch
<1>4. ASSUME NEW p \in PairIds, NEW active \in BOOLEAN, NEW limits \in PairLimits,
             SetPair(p, active, limits)
      PROVE  SameDecimals'
  BY <1>1, <1>4 DEF SetPair, SameDecimals
<1> QED BY <1>2, <1>3, <1>4, PairsTableStep

LEMMA AmountIsQuantity ==
  ASSUME Wellformed, SameDecimals, NEW request \in ZtoeRow, request.pair \in DOMAIN zpairs
  PROVE  EvmAmount(request) = request.quantity
<1> DEFINE d == ZeroDecimals[zpairs[request.pair].token]
           q == request.quantity
<1>1. zpairs[request.pair].decimals = d /\ zpairs[request.pair].token \in ZeroTokens /\ q \in Int
  BY DEF SameDecimals, Wellformed, NativeTypeOK, ZPairRow, ZtoeRow
<1>2. d \in Nat
  BY <1>1, ZeroBridgeAssumption
<1>3. EvmAmount(request) = Convert(q, d, d)
  BY <1>1 DEF EvmAmount
<1> HIDE DEF d, q
<1>4. d >= d /\ d - d = 0
  BY <1>2
<1>5. Convert(q, d, d) = q * Pow10(0)
  BY <1>4 DEF Convert
<1>6. Pow10(0) = 1
  BY PowerZero
<1>7. q * Pow10(0) = q
  BY <1>1, <1>6
<1> QED BY <1>3, <1>5, <1>7 DEF q

(* Every step keeps the request table, appends an open row or refunds one.  *)
BurnAppended ==
  \E row \in ZtoeRow : ~row.refunded /\ row.quantity > 0 /\ ztoe' = Append(ztoe, row)
BurnRefunded ==
  \E i \in DOMAIN ztoe : Refunds(ztoe, i, ztoe')

LEMMA BurnTableStep ==
  ASSUME Wellformed, [Next]_vars
  PROVE  UNCHANGED ztoe \/ BurnAppended \/ BurnRefunded
<1>1. CASE MintMade \/ NoneMade
  BY <1>1 DEF MintMade, Mint, NoneMade
<1>2. CASE RefundMade
  BY <1>2 DEF RefundMade, RefundZtoE, CanRefund, BurnRefunded, Refunds
<1>3. CASE BurnMade
  <2>1. PICK p \in PairIds, from \in Accounts, q \in Quantities,
             memo \in EvmAddrs \cup {ZeroAddress} : OnTransfer(p, from, q, memo)
    BY <1>3 DEF BurnMade
  <2> DEFINE row == [pair |-> p, sender |-> from, quantity |-> q, receiver |-> memo,
                     createdAt |-> now, refunded |-> FALSE]
  <2>2. row \in ZtoeRow /\ ~row.refunded
    BY <2>1, OnTransferAppends
  <2>3. ztoe' = Append(ztoe, row) /\ row.quantity > 0
    BY <2>1 DEF OnTransfer, CanTransfer
  <2> HIDE DEF row
  <2> QED BY <2>2, <2>3 DEF BurnAppended
<1> QED BY <1>1, <1>2, <1>3, SupplyStep

ProcessedAreBurns == \A b, i : <<b, i>> \in processed => i \in DOMAIN ztoe
OwedIsUnpaid == \A p : OwedFor(p) = BurnedFor(p) - ReleasesOf(p)
BurnLedger == ProcessedAreBurns /\ OwedIsUnpaid

(* The table changes what is owed and what is burned alike. *)
LEMMA TableMovesOwed ==
  ASSUME Wellformed, ProcessedAreBurns, [Next]_vars, NEW p
  PROVE  \E d \in Int : /\ OwedIn(ztoe', processed, p) = OwedFor(p) + d
                        /\ BurnedFor(p)' = BurnedFor(p) + d
<1>0. ztoe \in Seq(ZtoeRow) /\ Len(ztoe) \in Nat /\ DOMAIN ztoe = 1..Len(ztoe)
  BY LenProperties DEF Wellformed, NativeTypeOK
<1>1. OwedFor(p) = OwedIn(ztoe, processed, p) /\ OwedFor(p) \in Int /\ BurnedFor(p) \in Int
  BY <1>0, OwedOverTables, OwedTypes, TableSumTypes
<1>2. BurnedFor(p) = BurnedIn(ztoe, p) /\ BurnedFor(p)' = BurnedIn(ztoe', p)
  BY SumsOverTables
<1>3. CASE UNCHANGED ztoe
  <2>1. /\ 0 \in Int /\ OwedIn(ztoe', processed, p) = OwedFor(p) + 0
        /\ BurnedFor(p)' = BurnedFor(p) + 0
    BY <1>1, <1>2, <1>3
  <2> QED BY <2>1, Zenon
<1>4. ASSUME NEW row \in ZtoeRow, ~row.refunded, ztoe' = Append(ztoe, row)
      PROVE  \E d \in Int : /\ OwedIn(ztoe', processed, p) = OwedFor(p) + d
                            /\ BurnedFor(p)' = BurnedFor(p) + d
  <2> DEFINE d == IF row.pair = p THEN row.quantity ELSE 0
  <2>1. d \in Int
    BY DEF ZtoeRow
  <2>2. \A b \in EvmBridges : <<b, Len(ztoe) + 1>> \notin processed
    BY <1>0 DEF ProcessedAreBurns
  <2>3. OwedIn(ztoe', processed, p) = OwedFor(p) + d
    BY <1>0, <1>1, <1>4, <2>2, OwedAppend
  <2>4. BurnedFor(p)' = BurnedFor(p) + d
    BY <1>0, <1>2, <1>4, BurnedAppend
  <2> HIDE DEF d
  <2> QED BY <2>1, <2>3, <2>4, Zenon
<1>5. ASSUME NEW i \in DOMAIN ztoe, Refunds(ztoe, i, ztoe')
      PROVE  \E d \in Int : /\ OwedIn(ztoe', processed, p) = OwedFor(p) + d
                            /\ BurnedFor(p)' = BurnedFor(p) + d
  <2> DEFINE g == IF ztoe[i].pair = p THEN ztoe[i].quantity ELSE 0
  <2>0. ztoe[i] \in ZtoeRow
    BY <1>0, <1>5
  <2>1. g \in Int
    BY <2>0 DEF ZtoeRow
  <2>2. OwedIn(ztoe', processed, p) = OwedFor(p) - g
    <3>1. OwedIn(ztoe', processed, p) = OwedIn(ztoe, processed, p) - g
      BY <1>0, <1>5, OwedRefund
    <3> QED BY <1>1, <3>1
  <2>3. BurnedFor(p)' = BurnedFor(p) - g
    BY <1>0, <1>2, <1>5, BurnedRefund, ZenonT(40) DEF Refunds
  <2> HIDE DEF g
  <2>4. /\ -g \in Int /\ OwedIn(ztoe', processed, p) = OwedFor(p) + (-g)
        /\ BurnedFor(p)' = BurnedFor(p) + (-g)
    BY <1>1, <2>1, <2>2, <2>3
  <2> QED BY <2>4, Zenon
<1> QED BY <1>3, <1>4, <1>5, BurnTableStep DEF BurnAppended, BurnRefunded

(* A payout by any deployment is one burn less that is owed. *)
LEMMA PayoutKeepsBurnLedger ==
  ASSUME Wellformed, Wellformed', SameDecimals, BurnLedger, DOMAIN ztoe \subseteq DOMAIN ztoe',
         \A p : \E d \in Int :
           /\ OwedIn(ztoe', processed, p) = BurnedFor(p) - ReleasesOf(p) + d
           /\ BurnedFor(p)' = BurnedFor(p) + d,
         NEW b \in EvmBridges, NEW i \in Nat, PaysOutOn(b, i)
  PROVE  BurnLedger'
<1> DEFINE row == ztoe'[i]
           event == [bridge |-> b, burn |-> i, pair |-> row.pair, receiver |-> row.receiver,
                     amount |-> EvmAmount(row)]
<1>0. ztoe' \in Seq(ZtoeRow) /\ \A p : ReleasesOf(p) \in Int /\ BurnedFor(p) \in Int
  BY LogTotals, TableSumTypes DEF Wellformed, NativeTypeOK
<1>1. /\ i \in DOMAIN ztoe' /\ <<b, i>> \notin processed
      /\ processed' = processed \cup {<<b, i>>} /\ released' = Append(released, event)
      /\ UNCHANGED zpairs
  BY DEF PaysOutOn
<1>2. event \in ReleaseRow /\ event.pair = row.pair /\ event.amount = EvmAmount(row)
  BY EvmEscrowAssumption DEF PaysOutOn, ReleaseRow, PairIds
<1>3. row \in ZtoeRow /\ row.pair \in DOMAIN zpairs
  BY <1>1 DEF Wellformed, NativeTypeOK
<1>4. EvmAmount(row) = row.quantity /\ row.quantity \in Int
  <2> HIDE DEF row
  <2> QED BY <1>3, AmountIsQuantity DEF ZtoeRow
<1>5. ProcessedAreBurns'
  BY <1>1 DEF BurnLedger, ProcessedAreBurns
<1> HIDE DEF event
<1>6. ASSUME NEW p PROVE OwedFor(p)' = BurnedFor(p)' - ReleasesOf(p)'
  <2> DEFINE paid == IF row.pair = p THEN row.quantity ELSE 0
  <2>1. OwedFor(p)' = OwedIn(ztoe', processed, p) - paid
    BY <1>0, <1>1, OwedPay, OwedOverTables
  <2>2. ReleasesOf(p)' = ReleasesOf(p) + paid
    BY <1>1, <1>2, <1>4, EventAdded DEF Wellformed
  <2>3. paid \in Int
    BY <1>4
  <2> HIDE DEF paid, row
  <2> QED BY <1>0, <2>1, <2>2, <2>3
<1> QED BY <1>5, <1>6 DEF BurnLedger, OwedIsUnpaid

LEMMA BurnLedgerStep ==
  ASSUME Wellformed, Wellformed', SameDecimals, BurnLedger, [Next]_vars
  PROVE  BurnLedger'
<1>0. \A p : ReleasesOf(p) \in Int /\ BurnedFor(p) \in Int
  BY LogTotals, TableSumTypes DEF Wellformed
<1>1. DOMAIN ztoe \subseteq DOMAIN ztoe'
  BY RowsKept DEF RequestsKept, RequestKept
<1>2. ASSUME NEW p
      PROVE  \E d \in Int : /\ OwedIn(ztoe', processed, p) = BurnedFor(p) - ReleasesOf(p) + d
                            /\ BurnedFor(p)' = BurnedFor(p) + d
  BY TableMovesOwed DEF BurnLedger, OwedIsUnpaid
<1>3. CASE UNCHANGED <<released, processed>>
  <2>1. ProcessedAreBurns'
    BY <1>1, <1>3 DEF BurnLedger, ProcessedAreBurns
  <2>2. ASSUME NEW p PROVE OwedFor(p)' = BurnedFor(p)' - ReleasesOf(p)'
    <3>1. OwedFor(p)' = OwedIn(ztoe', processed, p) /\ ReleasesOf(p)' = ReleasesOf(p)
      BY <1>3, OwedOverTables DEF ReleasesOf
    <3> QED BY <1>0, <1>2, <3>1
  <2> QED BY <2>1, <2>2 DEF BurnLedger, OwedIsUnpaid
<1>4. ASSUME NEW i \in Nat, PaysOut(i) PROVE BurnLedger'
  <2>1. PaysOutOn(evmconfig.bridge, i) /\ evmconfig.bridge \in EvmBridges
    BY <1>4 DEF PaysOut, PaysOutOn
  <2> QED BY <1>1, <1>2, <2>1, PayoutKeepsBurnLedger
<1> QED BY <1>3, <1>4, PayoutStep

LEMMA BurnLedgerInit == ASSUME Init PROVE BurnLedger
<1>1. Wellformed /\ DOMAIN zpairs = {} /\ ztoe = << >> /\ processed = {} /\ released = << >>
  BY WellformedInit DEF Init, EvmInit
<1>2. ASSUME NEW p PROVE OwedFor(p) = BurnedFor(p) - ReleasesOf(p)
  <2>1. OwedFor(p) = 0
    BY <1>1, TotalZero DEF OwedFor
  <2>2. BurnedFor(p) = 0
    BY <1>1, NoRowsNoSums
  <2>3. ReleasesOf(p) = 0
    BY <1>1, LogTotals DEF Wellformed
  <2> QED BY <2>1, <2>2, <2>3
<1> QED BY <1>1, <1>2 DEF BurnLedger, ProcessedAreBurns, OwedIsUnpaid
-----------------------------------------------------------------------------
(* The four ledgers. *)
Ledgers == SupplyLedger /\ EvmLedger /\ DepositLedger /\ BurnLedger

(* The ledgers with what their steps need to know. *)
BackingInv == NoDevMode /\ MintsMatchDeposits /\ SameDecimals /\ Ledgers

LEMMA BackingInit == ASSUME Init PROVE BackingInv
<1>1. NoDevMode /\ MintsMatchDeposits /\ SameDecimals
  BY EmptySeq DEF Init, NoDevMode, MintsMatchDeposits, SameDecimals
<1>2. EvmLedger
  BY EvmLedgerInit DEF Init
<1> QED BY <1>1, <1>2, SupplyLedgerInit, DepositLedgerInit, BurnLedgerInit DEF BackingInv, Ledgers

LEMMA BackingStep ==
  ASSUME DevModes \subseteq {FALSE}, DecimalsMatch, Wellformed, Wellformed', BackingInv,
         [Next]_vars
  PROVE  BackingInv'
<1>1. /\ NoDevMode /\ MintsMatchDeposits /\ SameDecimals
      /\ SupplyLedger /\ EvmLedger /\ DepositLedger /\ BurnLedger
  BY DEF BackingInv, Ledgers
<1>2. NoDevMode' /\ MintsMatchDeposits' /\ SameDecimals'
  BY <1>1, DevModeStaysOff, MintsMatchStep, SameDecimalsStep
<1>3. SupplyLedger' /\ EvmLedger' /\ DepositLedger' /\ BurnLedger'
  BY <1>1, SupplyLedgerStep, EvmLedgerStep, DepositLedgerStep, BurnLedgerStep
<1> QED BY <1>2, <1>3 DEF BackingInv, Ledgers

LEMMA LedgersAlways ==
  ASSUME DevModes \subseteq {FALSE}, DecimalsMatch
  PROVE  Spec => []Ledgers
<1>1. Init => BackingInv
  BY BackingInit
<1>2. Wellformed /\ Wellformed' /\ BackingInv /\ [Next]_vars => BackingInv'
  BY BackingStep
<1>3. BackingInv => Ledgers
  BY DEF BackingInv
<1> QED BY <1>1, <1>2, <1>3, WellformedAlways, PTL DEF Spec

(* Added up, they back every unit. *)
LEMMA LedgersAddUp ==
  ASSUME Wellformed, Ledgers, NEW p \in DOMAIN registry, p \in DOMAIN zpairs
  PROVE  /\ EvmSide(p) + InitialSupply(zpairs[p].token)
              >= asset[zpairs[p].token].supply + UnmintedFor(p) + OwedFor(p)
         /\ EvmSide(p) \in Int /\ InitialSupply(zpairs[p].token) \in Int
         /\ asset[zpairs[p].token].supply \in Int /\ asset[zpairs[p].token].maxSupply \in Nat
         /\ UnmintedFor(p) \in Nat /\ OwedFor(p) \in Int
<1> DEFINE supply == asset[zpairs[p].token].supply
           initial == InitialSupply(zpairs[p].token)
<1>1. zpairs[p].token \in ZeroTokens
  BY DEF Wellformed, NativeTypeOK, ZPairRow
<1>2. /\ supply \in Int /\ initial \in Int /\ asset[zpairs[p].token].maxSupply \in Nat
  BY <1>1, LedgerRows, InitialSupplyType
<1>3. supply + BurnedFor(p) <= initial + MintedFor(p)
  BY DEF Ledgers, SupplyLedger, SupplyMatchesTables
<1>4. EvmSide(p) >= DepositsOf(p) - ReleasesOf(p) /\ EvmSide(p) \in Int
  BY SideType DEF Ledgers, EvmLedger, EvmSideCoversLogs
<1>5. DepositsOf(p) = MintedFor(p) + UnmintedFor(p) /\ OwedFor(p) = BurnedFor(p) - ReleasesOf(p)
  BY DEF Ledgers, DepositLedger, BurnLedger, OwedIsUnpaid
<1>6. /\ MintedFor(p) \in Int /\ BurnedFor(p) \in Int /\ UnmintedFor(p) \in Nat
      /\ DepositsOf(p) \in Nat /\ ReleasesOf(p) \in Nat
  BY TableSumTypes, UnmintedType, LogTotals DEF Wellformed
<1> HIDE DEF supply, initial
<1>7. OwedFor(p) \in Int
  BY <1>5, <1>6
<1>8. EvmSide(p) + initial >= supply + UnmintedFor(p) + OwedFor(p)
  BY <1>2, <1>3, <1>4, <1>5, <1>6
<1> QED BY <1>2, <1>4, <1>6, <1>7, <1>8 DEF supply, initial

(* With dev mode never allowed and tokens paired with the same decimals,    *)
(* for any number of pairs, deployments, holders and requests: the EVM side *)
(* of a pair covers its Zero supply, the deposits not yet minted and the    *)
(* burns not yet paid.                                                      *)
THEOREM UnitsAreBacked ==
  ASSUME DevModes \subseteq {FALSE}, DecimalsMatch
  PROVE  Spec => []EveryUnitBacked
<1>1. Wellformed /\ Ledgers => EveryUnitBacked
  BY LedgersAddUp DEF EveryUnitBacked
<1> QED BY <1>1, LedgersAlways, WellformedAlways, PTL
-----------------------------------------------------------------------------
(* A refund needs the stat row as the token was created, and a positive     *)
(* quantity.                                                                *)
TokensSetUp ==
  \A t \in ZeroTokens :
    asset[t].exists /\ asset[t].issuer = Bridge /\ asset[t].maxSupply = MaxSupply[t]
BurnsPositive == \A i \in DOMAIN ztoe : ztoe[i].quantity > 0

LEMMA StatsKept ==
  ASSUME Wellformed, [Next]_vars
  PROVE  \A t \in ZeroTokens : SameStat(asset'[t], asset[t])
<1>1. ASSUME NEW u \in ZeroTokens, NEW new, asset' = [asset EXCEPT ![u] = new],
             SameStat(new, asset[u])
      PROVE  \A t \in ZeroTokens : SameStat(asset'[t], asset[t])
  <2> TAKE t \in ZeroTokens
  <2>1. asset'[t] = IF t = u THEN new ELSE asset[t]
    BY <1>1 DEF Wellformed, AssetSound
  <2> QED BY <1>1, <2>1 DEF SameStat
<1>2. \A p \in DOMAIN zpairs : zpairs[p].token \in ZeroTokens
  BY DEF Wellformed, NativeTypeOK, ZPairRow
<1>3. CASE MintMade
  <2>1. PICK p \in DOMAIN zpairs, h \in Nat, receiver \in Accounts, q \in Int,
             sender \in EvmUsers : Mint(p, h, receiver, q, sender)
    BY <1>3 DEF MintMade
  <2>2. SameStat(Issued(asset[zpairs[p].token], receiver, q), asset[zpairs[p].token])
    BY <1>2, LedgerRows, StatRow
  <2> QED BY <1>1, <1>2, <2>1, <2>2 DEF Mint
<1>4. CASE RefundMade
  <2>1. PICK i \in 1..MaxRequests : RefundZtoE(i)
    BY <1>4 DEF RefundMade
  <2> DEFINE t == zpairs[ztoe[i].pair].token
             new == Issued(asset[t], ztoe[i].sender, ztoe[i].quantity)
  <2>2. ztoe[i] \in ZtoeRow /\ t \in ZeroTokens
    BY <1>2, <2>1 DEF RefundZtoE, CanRefund, Wellformed, NativeTypeOK
  <2>3. SameStat(new, asset[t])
    BY <2>2, LedgerRows, StatRow DEF ZtoeRow
  <2>4. asset' = [asset EXCEPT ![t] = new]
    BY <2>1 DEF RefundZtoE
  <2> HIDE DEF t, new
  <2> QED BY <1>1, <2>2, <2>3, <2>4
<1>5. CASE BurnMade
  <2>1. PICK p \in PairIds, from \in Accounts, q \in Quantities,
             memo \in EvmAddrs \cup {ZeroAddress} : OnTransfer(p, from, q, memo)
    BY <1>5 DEF BurnMade
  <2> DEFINE t == zpairs[p].token
             new == Burned(Transferred(asset[t], from, Bridge, q), Bridge, q)
  <2>2. t \in ZeroTokens /\ asset' = [asset EXCEPT ![t] = new]
    BY <1>2, <2>1 DEF OnTransfer
  <2>3. SameStat(new, asset[t])
    BY <2>2, LedgerRows, StatRow, ZeroAssetAssumption, ZeroBridgeAssumption
  <2> HIDE DEF t, new
  <2> QED BY <1>1, <2>2, <2>3
<1> QED BY <1>3, <1>4, <1>5, SupplyStep DEF NoneMade

LEMMA TokensSetUpStep ==
  ASSUME Wellformed, TokensSetUp, [Next]_vars
  PROVE  TokensSetUp'
BY StatsKept DEF TokensSetUp, SameStat

LEMMA BurnsPositiveStep ==
  ASSUME Wellformed, BurnsPositive, [Next]_vars
  PROVE  BurnsPositive'
<1>0. ztoe \in Seq(ZtoeRow)
  BY DEF Wellformed, NativeTypeOK
<1>1. \A i \in DOMAIN ztoe : i \in DOMAIN ztoe' /\ ztoe'[i].quantity > 0
  BY RowsKept DEF RequestsKept, RequestKept, BurnsPositive
<1>2. CASE UNCHANGED ztoe
  BY <1>2 DEF BurnsPositive
<1>3. ASSUME NEW row \in ZtoeRow, row.quantity > 0, ztoe' = Append(ztoe, row)
      PROVE  BurnsPositive'
  <2>1. /\ DOMAIN ztoe = 1..Len(ztoe) /\ DOMAIN ztoe' = 1..(Len(ztoe) + 1)
        /\ ztoe'[Len(ztoe) + 1] = row /\ Len(ztoe) \in Nat
    BY <1>0, <1>3, RowAppended
  <2> QED BY <1>1, <1>3, <2>1 DEF BurnsPositive
<1>4. ASSUME NEW i \in DOMAIN ztoe, Refunds(ztoe, i, ztoe') PROVE BurnsPositive'
  <2>1. DOMAIN ztoe' = DOMAIN ztoe
    BY <1>4 DEF Refunds
  <2> QED BY <1>1, <2>1 DEF BurnsPositive
<1> QED BY <1>2, <1>3, <1>4, BurnTableStep DEF BurnAppended, BurnRefunded

(* The EVM side never holds more for a pair than the token's initial        *)
(* supply.                                                                  *)
LEMMA SideBounded ==
  ASSUME EvmLedger, NEW p \in DOMAIN registry
  PROVE  EvmSide(p) <= InitialErc20Supply(registry[p].token)
<1> DEFINE t == registry[p].token
           held == erc20[t].balance
<1>1. t \in EvmTokens
  BY PairFacts DEF EvmLedger
<1>2. SoundErc20(erc20[t]) /\ InitialErc20Supply(t) \in Nat
  BY <1>1, InitialErc20Type DEF EvmLedger
<1>3. held \in [EvmAddrs -> Int] /\ \A a \in EvmAddrs : held[a] >= 0
  BY <1>2 DEF SoundErc20, Erc20Row
<1>4. erc20[t].supply = Total(held, NumEvmAddrs) /\ erc20[t].supply \in Int
  BY <1>2 DEF SoundErc20, Erc20Row
<1> HIDE DEF t, held
<1>5. \A a \in 1..NumEvmAddrs : held[a] \in Nat
  BY <1>3 DEF EvmAddrs
<1>6. Total(held, NumEvmAddrs) \in Nat
  BY <1>5, TotalBounds, EvmEscrowAssumption
<1>7. CASE registry[p].mintBurn
  <2>1. EvmSide(p) = InitialErc20Supply(t) - erc20[t].supply
    BY <1>7 DEF EvmSide, t
  <2> QED BY <1>2, <1>4, <1>6, <2>1 DEF t
<1>8. CASE ~registry[p].mintBurn
  <2>1. ~MintedByPair(t)
    BY <1>8 DEF MintedByPair, EvmLedger, OnePairPerToken, t
  <2>2. erc20[t].supply = InitialErc20Supply(t)
    BY <1>1, <2>1 DEF EvmLedger, OnlyPairsMint
  <2> DEFINE v == [b \in EvmBridges |-> erc20[t].balance[b]]
  <2>3. EvmSide(p) = Total(v, NumEvmBridges)
    BY <1>8 DEF EvmSide, Escrowed, Held, t
  <2>4. /\ NumEvmBridges \in Nat /\ NumEvmAddrs \in Nat /\ NumEvmBridges <= NumEvmAddrs
    BY EvmEscrowAssumption
  <2>5. \A b \in 1..NumEvmBridges : v[b] = held[b] /\ held[b] \in Int
    BY <1>5, <2>4 DEF EvmBridges, held
  <2> HIDE DEF v
  <2>6. Total(v, NumEvmBridges) = Total(held, NumEvmBridges)
    BY <2>4, <2>5, TotalAgree DEF Weights
  <2>7. Total(held, NumEvmBridges) <= Total(held, NumEvmAddrs)
    BY <1>5, <2>4, TotalPrefix
  <2> QED BY <1>4, <2>2, <2>3, <2>6, <2>7 DEF t
<1> QED BY <1>7, <1>8

(* When nothing is paid twice, all shares are natural and an open burn is   *)
(* among what is owed.                                                      *)
LEMMA OpenBurnOwed ==
  ASSUME Wellformed, BurnsPositive, ~PaidTwice, NEW i \in DOMAIN ztoe,
         ~ztoe[i].refunded, ReleasesFor(i) = 0
  PROVE  ztoe[i].quantity <= OwedFor(ztoe[i].pair)
<1> DEFINE p == ztoe[i].pair
           n == Len(ztoe)
           Share(j) == IF ztoe[j].pair = p THEN OpenShare(ztoe[j], ReleasesIn(processed, j)) ELSE 0
           w == [j \in 1..n |-> Share(j)]
<1>1. ztoe \in Seq(ZtoeRow)
  BY DEF Wellformed, NativeTypeOK
<1>2. /\ n \in Nat /\ DOMAIN ztoe = 1..n
      /\ \A j \in 1..n : ztoe[j] \in ZtoeRow /\ ztoe[j].quantity \in Int
      /\ \A j \in 1..n : OpenShare(ztoe[j], ReleasesIn(processed, j)) \in Int
  BY <1>1, OwedTypes
<1>3. \A j : ReleasesFor(j) = ReleasesIn(processed, j) /\ ReleasesIn(processed, j) \in Nat
  BY OwedOverTables, ReleasesType
<1>4. OwedFor(p) = Total(w, n)
  BY <1>2, OwedOverTables DEF OwedIn
<1> HIDE DEF n
<1>5. ASSUME NEW j \in 1..n PROVE OpenShare(ztoe[j], ReleasesIn(processed, j)) \in Nat
  <2> DEFINE q == ztoe[j].quantity
             r == ReleasesIn(processed, j)
             k == 1 - r - (IF ztoe[j].refunded THEN 1 ELSE 0)
  <2>1. q \in Int /\ q > 0 /\ r \in Nat
    BY <1>2, <1>3 DEF BurnsPositive
  <2>2. r + (IF ztoe[j].refunded THEN 1 ELSE 0) <= 1
    <3>1. ~(ReleasesFor(j) + (IF ztoe[j].refunded THEN 1 ELSE 0) > 1)
      BY <1>2 DEF PaidTwice
    <3> QED BY <1>3, <2>1, <3>1
  <2>3. k = 0 \/ k = 1
    BY <2>1, <2>2
  <2>4. OpenShare(ztoe[j], r) = q * k
    BY DEF OpenShare
  <2> HIDE DEF q, k
  <2> QED BY <2>1, <2>3, <2>4
<1>6. \A j \in 1..n : w[j] \in Nat
  BY <1>5
<1>7. w[i] = ztoe[i].quantity /\ i \in 1..n
  BY <1>2, <1>3, ShareType
<1> HIDE DEF w, p
<1>8. w[i] <= Total(w, n)
  BY <1>2, <1>6, <1>7, TotalBounds
<1> QED BY <1>4, <1>7, <1>8 DEF p

(* What a refund checks of the token and of the row. *)
RefundInv == TokensSetUp /\ BurnsPositive

LEMMA RefundInit == ASSUME Init PROVE RefundInv
<1>1. ASSUME NEW t \in ZeroTokens
      PROVE  asset[t].exists /\ asset[t].issuer = Bridge /\ asset[t].maxSupply = MaxSupply[t]
  BY <1>1 DEF Init
<1>2. DOMAIN ztoe = {}
  BY EmptySeq DEF Init
<1> QED BY <1>1, <1>2 DEF RefundInv, TokensSetUp, BurnsPositive

LEMMA RefundsRoom ==
  ASSUME Wellformed, Ledgers, RefundInv
  PROVE  OpenBurnsRefundable
<1> SUFFICES ASSUME Wellformed, Ledgers, TokensSetUp, BurnsPositive, ~PaidTwice,
                    NEW i \in DOMAIN ztoe, ~ztoe[i].refunded, ReleasesFor(i) = 0,
                    ztoe[i].pair \in DOMAIN registry, RoomForAll(ztoe[i].pair)
             PROVE  CanIssue(asset[zpairs[ztoe[i].pair].token], Bridge, ztoe[i].quantity)
  BY DEF OpenBurnsRefundable, RefundInv
<1> DEFINE p == ztoe[i].pair
           q == ztoe[i].quantity
           row == asset[zpairs[p].token]
<1>1. p \in DOMAIN zpairs /\ ztoe[i] \in ZtoeRow /\ zpairs[p].token \in ZeroTokens
  BY DEF Wellformed, NativeTypeOK, ZPairRow
<1>2. row.exists /\ row.issuer = Bridge /\ row.maxSupply = MaxSupply[zpairs[p].token]
  BY <1>1 DEF TokensSetUp
<1>3. q \in Int /\ q > 0 /\ q <= OwedFor(p)
  BY <1>1, OpenBurnOwed DEF BurnsPositive, ZtoeRow
<1>4. /\ EvmSide(p) + InitialSupply(zpairs[p].token)
           >= row.supply + UnmintedFor(p) + OwedFor(p)
      /\ EvmSide(p) \in Int /\ InitialSupply(zpairs[p].token) \in Int
      /\ row.supply \in Int /\ row.maxSupply \in Nat
      /\ UnmintedFor(p) \in Nat /\ OwedFor(p) \in Int
  BY <1>1, LedgersAddUp
<1>5. /\ EvmSide(p) <= InitialErc20Supply(registry[p].token)
      /\ InitialErc20Supply(registry[p].token) \in Nat
  BY SideBounded, PairFacts, InitialErc20Type DEF Ledgers, EvmLedger
<1>6. InitialSupply(zpairs[p].token) + InitialErc20Supply(registry[p].token) <= row.maxSupply
  BY <1>2 DEF RoomForAll
<1> HIDE DEF p, q, row
<1>7. q <= row.maxSupply - row.supply
  BY <1>3, <1>4, <1>5, <1>6
<1>8. CanIssue(row, Bridge, q)
  BY <1>2, <1>3, <1>7 DEF CanIssue
<1> QED BY <1>8 DEF row, q, p

(* Under the same assumptions an open burn can always be refunded, whatever *)
(* was minted in the meantime.                                              *)
THEOREM OpenBurnsAreRefundable ==
  ASSUME DevModes \subseteq {FALSE}, DecimalsMatch
  PROVE  Spec => []OpenBurnsRefundable
<1>1. Init => RefundInv
  BY RefundInit
<1>2. Wellformed /\ RefundInv /\ [Next]_vars => RefundInv'
  BY TokensSetUpStep, BurnsPositiveStep DEF RefundInv
<1>3. Wellformed /\ Ledgers /\ RefundInv => OpenBurnsRefundable
  BY RefundsRoom
<1> QED BY <1>1, <1>2, <1>3, LedgersAlways, WellformedAlways, PTL DEF Spec
=============================================================================
