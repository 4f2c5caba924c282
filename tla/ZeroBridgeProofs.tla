-------------------------- MODULE ZeroBridgeProofs --------------------------
(***************************************************************************)
(* The bridge for any number of accounts, addresses, deployments, tokens,  *)
(* pairs and requests.                                                     *)
(*                                                                         *)
(* Wellformed is the inductive invariant behind the types: the ledgers of  *)
(* zero.asset are sound, the EVM storage and the tables have their types,  *)
(* a configured EVM bridge is a deployment, and every request row names a  *)
(* pair that exists (pairs are never deleted).  The safety invariants are  *)
(* proved on top of it, each by the few actions that can disturb it.       *)
(***************************************************************************)
EXTENDS ZeroBridgeClaims, ZeroAssetProofs, EvmEscrowProofs, TLAPS

NativeTypeOK ==
  /\ config \in ConfigRow
  /\ evmconfig \in EvmConfigRow
  /\ evmconfig.exists => evmconfig.bridge \in EvmBridges
  /\ DOMAIN zpairs \subseteq PairIds /\ zpairs \in [DOMAIN zpairs -> ZPairRow]
  /\ etoz \in Seq(EtozRow)
  /\ ztoe \in Seq(ZtoeRow)
  /\ \A i \in DOMAIN ztoe : ztoe[i].pair \in DOMAIN zpairs
  /\ \A k \in DOMAIN etoz : etoz[k].pair \in DOMAIN zpairs

Wellformed == AssetSound /\ EvmTypeOK /\ NativeTypeOK

(* The release of a request keeps the EVM types. *)
LEMMA RawTypeOK ==
  ASSUME EvmTypeOK, NEW request \in ZtoeRow, NEW burn \in Nat,
         evmconfig.bridge \in EvmBridges, Raw(request, burn)
  PROVE  EvmTypeOK'
<1>1. CASE UNCHANGED evmVars
  BY <1>1 DEF evmVars, EvmTypeOK
<1>2. CASE ReleaseToEvm(evmconfig.bridge, LinkedAddress, request.pair, EvmAmount(request),
                        request.receiver, burn)
  <2>1. request.receiver \in EvmAddrs \cup {ZeroAddress}
    BY DEF ZtoeRow
  <2> QED BY <1>2, <2>1, ReleaseTypeOK
<1> QED BY <1>1, <1>2 DEF Raw

(* Replacing one token's ledger by a sound one. *)
LEMMA AssetSoundUpdate ==
  ASSUME AssetSound, NEW t \in ZeroTokens, NEW new, SoundRow(new),
         asset' = [asset EXCEPT ![t] = new]
  PROVE  AssetSound'
BY DEF AssetSound, SoundRow

LEMMA WellformedInit == ASSUME Init PROVE Wellformed
<1>1. EvmTypeOK
  BY EvmInitTypeOK DEF Init
<1>2. AssetSound
  <2>1. ASSUME NEW t \in ZeroTokens
        PROVE  SoundRow([exists |-> TRUE, issuer |-> Bridge, maxSupply |-> MaxSupply[t],
                         supply |-> Total(InitialBalances[t], NumAccounts),
                         balance |-> InitialBalances[t]])
    <3> DEFINE held == InitialBalances[t]
    <3>a. held \in [Accounts -> Nat]
      BY ZeroBridgeAssumption
    <3>1. held \in [Accounts -> Int] /\ Weights(held, NumAccounts)
      <4> HIDE DEF held
      <4> QED BY <3>a DEF Weights, Accounts
    <3>2. Total(held, NumAccounts) \in Int
      BY <3>1, TotalType, ZeroAssetAssumption
    <3>3. /\ Total(held, NumAccounts) <= MaxSupply[t] /\ MaxSupply[t] \in Nat
          /\ Bridge \in Accounts /\ \A a \in Accounts : held[a] >= 0
      BY <3>a, ZeroBridgeAssumption
    <3> HIDE DEF held
    <3> QED BY <3>1, <3>2, <3>3 DEF SoundRow, TokenRow, held
  <2> QED BY <2>1 DEF Init, AssetSound, SoundRow
<1>3. NativeTypeOK
  <2>1. config \in ConfigRow /\ evmconfig \in EvmConfigRow /\ ~evmconfig.exists
    BY ZeroBridgeAssumption DEF Init, ConfigRow, EvmConfigRow
  <2>2. DOMAIN zpairs = {} /\ zpairs \in [DOMAIN zpairs -> ZPairRow]
    BY EmptySeq DEF Init
  <2>3. etoz \in Seq(EtozRow) /\ ztoe \in Seq(ZtoeRow) /\ DOMAIN etoz = {} /\ DOMAIN ztoe = {}
    BY EmptySeq DEF Init
  <2> QED BY <2>1, <2>2, <2>3 DEF NativeTypeOK
<1> QED BY <1>1, <1>2, <1>3 DEF Wellformed

(* Settings: the singletons and the pairs table. *)
LEMMA ConfigStep ==
  ASSUME Wellformed, config' \in ConfigRow,
         UNCHANGED <<evmconfig, zpairs, etoz, ztoe, asset, evmVars>>
  PROVE  Wellformed'
BY DEF Wellformed, AssetSound, EvmTypeOK, NativeTypeOK, evmVars

LEMMA EvmConfigStep ==
  ASSUME Wellformed, evmconfig' \in EvmConfigRow,
         evmconfig'.exists => evmconfig'.bridge \in EvmBridges,
         UNCHANGED <<config, zpairs, etoz, ztoe, asset, evmVars>>
  PROVE  Wellformed'
BY DEF Wellformed, AssetSound, EvmTypeOK, NativeTypeOK, evmVars

LEMMA PairsStep ==
  ASSUME Wellformed, DOMAIN zpairs \subseteq DOMAIN zpairs', DOMAIN zpairs' \subseteq PairIds,
         zpairs' \in [DOMAIN zpairs' -> ZPairRow],
         UNCHANGED <<config, evmconfig, etoz, ztoe, asset, evmVars>>
  PROVE  Wellformed'
BY DEF Wellformed, AssetSound, EvmTypeOK, NativeTypeOK, evmVars

LEMMA MintWellformed ==
  ASSUME Wellformed, NEW p \in DOMAIN zpairs, NEW h \in Nat, NEW receiver \in Accounts,
         NEW q \in Int, NEW sender \in EvmUsers, Mint(p, h, receiver, q, sender)
  PROVE  Wellformed'
<1>1. p \in PairIds /\ zpairs[p].token \in ZeroTokens
  BY DEF Wellformed, NativeTypeOK, ZPairRow
<1>2. AssetSound'
  <2>1. SoundRow(Issued(asset[zpairs[p].token], receiver, q))
    BY <1>1, IssuedSound, ZeroAssetAssumption DEF Mint, Wellformed, AssetSound
  <2> QED BY <1>1, <2>1, AssetSoundUpdate DEF Mint, Wellformed
<1>3. EvmTypeOK'
  BY DEF Mint, Wellformed, EvmTypeOK, evmVars
<1> DEFINE row == [evmRequest |-> h, pair |-> p, receiver |-> receiver,
                   quantity |-> q, sender |-> sender]
<1>4. row \in EtozRow /\ row.pair = p
  BY <1>1 DEF EtozRow
<1>5. etoz' = Append(etoz, row)
  BY DEF Mint
<1>6. /\ etoz' \in Seq(EtozRow)
      /\ \A k \in DOMAIN etoz' : etoz'[k].pair \in DOMAIN zpairs
  <2> HIDE DEF row
  <2> QED BY <1>4, <1>5, AppendProperties, LenProperties DEF Wellformed, NativeTypeOK
<1>7. NativeTypeOK'
  BY <1>6 DEF Mint, Wellformed, NativeTypeOK
<1> QED BY <1>2, <1>3, <1>7 DEF Wellformed

LEMMA AdminWellformed == ASSUME Wellformed, AdminNext PROVE Wellformed'
<1> USE ZeroBridgeAssumption
<1>0. config \in ConfigRow /\ evmconfig \in EvmConfigRow
  BY DEF Wellformed, NativeTypeOK
<1>1. ASSUME NEW admin \in Admins, NEW evmAccount \in RelayAccounts, NEW devMode \in DevModes,
             InitBridge(admin, evmAccount, devMode)
      PROVE  Wellformed'
  BY <1>1, ConfigStep DEF InitBridge, ConfigRow
<1>2. ASSUME NEW admin \in Admins, SetAdmin(admin) PROVE Wellformed'
  BY <1>0, <1>2, ConfigStep DEF SetAdmin, ConfigRow
<1>3. ASSUME NEW devMode \in DevModes, SetDevMode(devMode) PROVE Wellformed'
  BY <1>0, <1>3, ConfigStep DEF SetDevMode, ConfigRow
<1>4. ASSUME NEW evmAccount \in RelayAccounts, SetEvmRelay(evmAccount) PROVE Wellformed'
  BY <1>0, <1>4, ConfigStep DEF SetEvmRelay, ConfigRow
<1>5. ASSUME NEW paused \in BOOLEAN, Pause(paused) PROVE Wellformed'
  BY <1>0, <1>5, ConfigStep DEF Pause, ConfigRow
<1>6. ASSUME NEW b \in EvmBridges, NEW delay \in FinalityDelays, SetEvmConf(b, delay)
      PROVE  Wellformed'
  BY <1>0, <1>6, EvmConfigStep DEF SetEvmConf, EvmConfigRow, TELOS_EVM_TESTNET_CHAIN_ID
<1>7. ASSUME NEW chainId \in ChainIds, SetEvmChain(chainId) PROVE Wellformed'
  BY <1>0, <1>7, EvmConfigStep DEF SetEvmChain, EvmConfigRow, Wellformed, NativeTypeOK
<1>8. ASSUME NEW in \in PairInputs, AddPair(in) PROVE Wellformed'
  <2>1. in.id \in PairIds
    BY <1>8, EvmEscrowAssumption DEF AddPair, ValidPairId, PairIds
  <2>2. [token |-> in.token, decimals |-> in.decimals, active |-> TRUE,
         limits |-> in.limits] \in ZPairRow
    BY DEF ZPairRow
  <2>3. DOMAIN zpairs' = DOMAIN zpairs \cup {in.id} /\ zpairs' \in [DOMAIN zpairs' -> ZPairRow]
    BY <1>8, <2>2 DEF AddPair, ValidPairId, Wellformed, NativeTypeOK
  <2>4. DOMAIN zpairs \subseteq PairIds
    BY DEF Wellformed, NativeTypeOK
  <2> QED BY <1>8, <2>1, <2>3, <2>4, PairsStep DEF AddPair, ValidPairId
<1>9. ASSUME NEW p \in PairIds, NEW active \in BOOLEAN, NEW limits \in PairLimits,
             SetPair(p, active, limits)
      PROVE  Wellformed'
  <2>1. zpairs[p] \in ZPairRow /\ limits \in ZeroLimits
    BY <1>9 DEF SetPair, Wellformed, NativeTypeOK
  <2>2. [zpairs[p] EXCEPT !.active = active, !.limits = limits] \in ZPairRow
    BY <2>1 DEF ZPairRow
  <2>3. DOMAIN zpairs' = DOMAIN zpairs /\ zpairs' \in [DOMAIN zpairs' -> ZPairRow]
    BY <1>9, <2>2 DEF SetPair, Wellformed, NativeTypeOK
  <2>4. DOMAIN zpairs \subseteq PairIds
    BY DEF Wellformed, NativeTypeOK
  <2> QED BY <1>9, <2>3, <2>4, PairsStep DEF SetPair
<1>10. ASSUME NEW i \in 1..MaxRequests, RefundZtoE(i) PROVE Wellformed'
  <2>1. /\ i \in 1..Len(ztoe) /\ ztoe[i] \in ZtoeRow
        /\ ztoe[i].pair \in DOMAIN zpairs
    BY <1>10 DEF RefundZtoE, CanRefund, Wellformed, NativeTypeOK
  <2>2. zpairs[ztoe[i].pair].token \in ZeroTokens /\ ztoe[i].sender \in Accounts /\ ztoe[i].quantity \in Int
    BY <2>1 DEF Wellformed, NativeTypeOK, ZPairRow, ZtoeRow
  <2>3. AssetSound'
    <3>1. SoundRow(Issued(asset[zpairs[ztoe[i].pair].token], ztoe[i].sender, ztoe[i].quantity))
      BY <1>10, <2>2, IssuedSound, ZeroAssetAssumption DEF RefundZtoE, CanRefund, Wellformed, AssetSound
    <3> QED BY <1>10, <2>2, <3>1, AssetSoundUpdate DEF RefundZtoE, CanRefund, Wellformed
  <2>4. EvmTypeOK'
    BY <1>10 DEF RefundZtoE, CanRefund, Wellformed, EvmTypeOK, evmVars
  <2>5. [ztoe[i] EXCEPT !.refunded = TRUE] \in ZtoeRow
    BY <2>1 DEF ZtoeRow
  <2>6. /\ ztoe' \in Seq(ZtoeRow)
        /\ DOMAIN ztoe' = DOMAIN ztoe
        /\ \A j \in DOMAIN ztoe : ztoe'[j].pair = ztoe[j].pair
    BY <1>10, <2>1, <2>5 DEF RefundZtoE, CanRefund, Wellformed, NativeTypeOK, ZtoeRow
  <2>7. NativeTypeOK'
    BY <1>10, <2>6 DEF RefundZtoE, CanRefund, Wellformed, NativeTypeOK
  <2> QED BY <2>3, <2>4, <2>7 DEF Wellformed
<1> QED BY <1>1, <1>2, <1>3, <1>4, <1>5, <1>6, <1>7, <1>8, <1>9, <1>10 DEF AdminNext

(* A mint leaves everything but the mint table and the ledger alone. *)
LEMMA MintFrame == MintNext => UNCHANGED <<config, evmconfig, zpairs, ztoe, evmVars>>
<1> SUFFICES ASSUME MintNext PROVE UNCHANGED <<config, evmconfig, zpairs, ztoe, evmVars>>
  OBVIOUS
<1>1. PICK p \in PairIds, h \in 1..MaxRequests, receiver \in Accounts,
           q \in Quantities \cup Amounts, sender \in EvmUsers :
        ProcessEtoZ(p, h, receiver, q, sender) \/ ProveEtoZ(p, h, receiver, q, sender)
  BY DEF MintNext
<1> QED BY <1>1 DEF ProcessEtoZ, ProveEtoZ, Mint

LEMMA MintNextWellformed == ASSUME Wellformed, MintNext PROVE Wellformed'
<1>1. PICK p \in PairIds, h \in 1..MaxRequests, receiver \in Accounts,
           q \in Quantities \cup Amounts, sender \in EvmUsers :
        ProcessEtoZ(p, h, receiver, q, sender) \/ ProveEtoZ(p, h, receiver, q, sender)
  BY DEF MintNext
<1>2. p \in DOMAIN zpairs /\ Mint(p, h, receiver, q, sender) /\ h \in Nat /\ q \in Int
  BY <1>1, EvmEscrowAssumption, ZeroAssetAssumption DEF ProcessEtoZ, ProveEtoZ, CanProve, ActiveZPair
<1> QED BY <1>2, MintWellformed

LEMMA ExitWellformed == ASSUME Wellformed, ExitNext PROVE Wellformed'
<1>1. ASSUME NEW p \in PairIds, NEW from \in Accounts, NEW q \in Quantities,
             NEW memo \in EvmAddrs \cup {ZeroAddress}, OnTransfer(p, from, q, memo)
      PROVE  Wellformed'
  <2> DEFINE request == [pair |-> p, sender |-> from, quantity |-> q, receiver |-> memo,
                         createdAt |-> now, refunded |-> FALSE]
             row == asset[zpairs[p].token]
             moved == Transferred(row, from, Bridge, q)
  <2>1. p \in DOMAIN zpairs /\ zpairs[p].token \in ZeroTokens /\ q \in Int
    BY <1>1, ZeroAssetAssumption DEF OnTransfer, Wellformed, NativeTypeOK, ZPairRow
  <2>2. request \in ZtoeRow /\ request.pair = p
    BY <2>1, EvmEscrowAssumption, ZeroBridgeAssumption DEF ZtoeRow, Wellformed, EvmTypeOK, EvmUsers
  <2>3. AssetSound'
    <3>1. SoundRow(row) /\ SoundRow(moved)
      BY <1>1, <2>1, TransferredSound, ZeroAssetAssumption, ZeroBridgeAssumption
         DEF OnTransfer, Wellformed, AssetSound
    <3>2. row.exists /\ q > 0 /\ row.balance \in [Accounts -> Int] /\ row.balance[Bridge] >= 0
      BY <1>1, <3>1, ZeroBridgeAssumption DEF OnTransfer, CanTransfer, SoundRow, TokenRow
    <3>3. moved.balance[Bridge] = row.balance[Bridge] + q /\ moved.exists
      BY <1>1, <3>1, <3>2, ZeroBridgeAssumption
         DEF OnTransfer, Transferred, AddBalance, SubBalance, SoundRow, TokenRow
    <3>4. CanBurn(moved, Bridge, q)
      BY <2>1, <3>2, <3>3, ZeroBridgeAssumption DEF CanBurn, HasBalance
    <3>5. SoundRow(Burned(moved, Bridge, q))
      BY <2>1, <3>1, <3>4, BurnedSound, ZeroAssetAssumption, ZeroBridgeAssumption
    <3> QED BY <1>1, <2>1, <3>5, AssetSoundUpdate DEF OnTransfer, Wellformed
  <2>4. EvmTypeOK'
    BY <1>1, <2>2, RawTypeOK DEF OnTransfer, CanRelay, Wellformed, NativeTypeOK
  <2>5. ztoe' = Append(ztoe, request)
    BY <1>1 DEF OnTransfer
  <2>6. /\ ztoe' \in Seq(ZtoeRow)
        /\ \A i \in DOMAIN ztoe' : ztoe'[i].pair \in DOMAIN zpairs
    <3> HIDE DEF request
    <3> QED BY <2>1, <2>2, <2>5, AppendProperties, LenProperties DEF Wellformed, NativeTypeOK
  <2>7. NativeTypeOK'
    BY <1>1, <2>6 DEF OnTransfer, Wellformed, NativeTypeOK
  <2> QED BY <2>3, <2>4, <2>7 DEF Wellformed
<1>2. ASSUME NEW i \in 1..MaxRequests, RelayZtoE(i) PROVE Wellformed'
  <2>1. ztoe[i] \in ZtoeRow
    BY <1>2 DEF RelayZtoE, Wellformed, NativeTypeOK
  <2>2. EvmTypeOK'
    BY <1>2, <2>1, RawTypeOK, EvmEscrowAssumption DEF RelayZtoE, CanRelay, Wellformed, NativeTypeOK
  <2> QED BY <1>2, <2>2 DEF RelayZtoE, Wellformed, NativeTypeOK, AssetSound, nativeVars
<1> QED BY <1>1, <1>2 DEF ExitNext

LEMMA AssetUserWellformed == ASSUME Wellformed, AssetUserNext PROVE Wellformed'
<1>1. ASSUME AssetSound', UNCHANGED <<nativeVars, evmVars>> PROVE Wellformed'
  BY <1>1 DEF Wellformed, NativeTypeOK, EvmTypeOK, nativeVars, evmVars
<1>2. ASSUME NEW t \in ZeroTokens, NEW from \in Accounts, NEW to \in Accounts,
             NEW q \in Quantities, PlainTransfer(t, from, to, q)
      PROVE  Wellformed'
  <2>1. SoundRow(Transferred(asset[t], from, to, q))
    BY <1>2, TransferredSound, ZeroAssetAssumption
       DEF PlainTransfer, Transfer, Wellformed, AssetSound
  <2> QED BY <1>1, <1>2, <2>1, AssetSoundUpdate DEF PlainTransfer, Transfer, Wellformed
<1>3. ASSUME NEW t \in ZeroTokens, NEW owner \in Accounts, NEW q \in Quantities,
             OwnBurn(t, owner, q)
      PROVE  Wellformed'
  <2>1. SoundRow(Burned(asset[t], owner, q))
    BY <1>3, BurnedSound, ZeroAssetAssumption DEF OwnBurn, Burn, Wellformed, AssetSound
  <2> QED BY <1>1, <1>3, <2>1, AssetSoundUpdate DEF OwnBurn, Burn, Wellformed
<1> QED BY <1>2, <1>3 DEF AssetUserNext

LEMMA WellformedStep == ASSUME Wellformed, [Next]_vars PROVE Wellformed'
<1>1. CASE UNCHANGED vars
  BY <1>1 DEF vars, nativeVars, evmVars, Wellformed, AssetSound, EvmTypeOK, NativeTypeOK
<1>2. CASE EvmStep
  BY <1>2, EvmOwnTypeOK DEF EvmStep, nativeVars, Wellformed, AssetSound, NativeTypeOK
<1> QED BY <1>1, <1>2, AdminWellformed, MintNextWellformed, ExitWellformed, AssetUserWellformed
        DEF Next

LEMMA WellformedAlways == Spec => []Wellformed
<1>1. Init => Wellformed
  BY WellformedInit
<1>2. Wellformed /\ [Next]_vars => Wellformed'
  BY WellformedStep
<1> QED BY <1>1, <1>2, PTL DEF Spec

(* The tables of both sides keep their types whatever users, relayers and   *)
(* administrators do.                                                       *)
THEOREM TypeCorrect == Spec => []TypeOK
<1>1. Wellformed => TypeOK
  BY DEF Wellformed, AssetSound, AssetTypeOK, NativeTypeOK, TypeOK
<1> QED BY <1>1, WellformedAlways, PTL

(* The ledger theorems of zero.asset hold under the bridge as well.         *)
THEOREM BridgeSupplyAddsUp == Spec => [](SupplyIsSumOfBalances /\ BalancesUnderCap)
<1>1. Wellformed => SupplyIsSumOfBalances /\ BalancesUnderCap
  BY AssetSoundMeaning DEF Wellformed
<1> QED BY <1>1, WellformedAlways, PTL
-----------------------------------------------------------------------------
(* What no step does to a stored row.  A pair keeps its token and decimals, *)
(* a request row everything but its refunded flag, which is only ever set,  *)
(* and a deposit its record.                                                *)
PairsKept ==
  \A p \in DOMAIN zpairs :
    /\ p \in DOMAIN zpairs'
    /\ zpairs'[p].token = zpairs[p].token /\ zpairs'[p].decimals = zpairs[p].decimals

RequestKept(i) ==
  /\ i \in DOMAIN ztoe'
  /\ ztoe'[i].pair = ztoe[i].pair /\ ztoe'[i].quantity = ztoe[i].quantity
  /\ ztoe'[i].receiver = ztoe[i].receiver
  /\ ztoe[i].refunded => ztoe'[i].refunded

RequestsKept == \A i \in DOMAIN ztoe : RequestKept(i)

DepositsKept ==
  \A h \in DOMAIN requests : h \in DOMAIN requests' /\ requests'[h] = requests[h]

LEMMA DepositsKeptByEvm ==
  ASSUME EvmTypeOK, EvmOwnNext
  PROVE  DepositsKept /\ UNCHANGED <<released, processed>>
<1>1. CASE OwnerNext
  BY <1>1 DEF OwnerNext, RegisterPair, SetPairActive, SetPairLimits, SetPaused, SetBridge, DepositsKept
<1>2. CASE UserNext
  <2>1. ASSUME NEW b \in EvmBridges, NEW p \in PairIds, NEW sender \in EvmUsers,
               NEW amount \in Amounts, NEW receiver \in ZeroReceivers,
               DepositToZero(b, p, sender, amount, receiver)
        PROVE  DepositsKept /\ UNCHANGED <<released, processed>>
    <3> DEFINE row == StoredRequest(b, p, sender, amount, receiver)
    <3>1. row \in RequestRow
      BY EvmEscrowAssumption DEF StoredRequest, RequestRow, PairIds, EvmTypeOK
    <3>2. requests' = Append(requests, row) /\ UNCHANGED <<released, processed>>
      BY <2>1 DEF DepositToZero
    <3> HIDE DEF row
    <3> QED BY <3>1, <3>2, AppendProperties, LenProperties DEF DepositsKept, EvmTypeOK
  <2>2. ASSUME NEW t \in EvmTokens, NEW from \in EvmUsers, NEW to \in EvmAddrs,
               NEW amount \in Amounts, SendErc20(t, from, to, amount)
        PROVE  DepositsKept /\ UNCHANGED <<released, processed>>
    BY <2>2 DEF SendErc20, DepositsKept
  <2> QED BY <1>2, <2>1, <2>2 DEF UserNext
<1>3. CASE Tick
  BY <1>3 DEF Tick, DepositsKept
<1> QED BY <1>1, <1>2, <1>3 DEF EvmOwnNext

LEMMA RawKeepsDeposits ==
  ASSUME NEW request, NEW burn, Raw(request, burn)
  PROVE  DepositsKept
BY DEF Raw, ReleaseToEvm, evmVars, DepositsKept

(* The request row OnTransfer appends, and the rows it leaves alone. *)
LEMMA OnTransferAppends ==
  ASSUME Wellformed, NEW p \in PairIds, NEW from \in Accounts, NEW q \in Quantities,
         NEW memo \in EvmAddrs \cup {ZeroAddress}, OnTransfer(p, from, q, memo),
         NEW request, request = [pair |-> p, sender |-> from, quantity |-> q,
                                 receiver |-> memo, createdAt |-> now, refunded |-> FALSE]
  PROVE  /\ request \in ZtoeRow
         /\ Len(ztoe) \in Nat /\ DOMAIN ztoe = 1..Len(ztoe)
         /\ Len(ztoe)+1 \in DOMAIN ztoe' /\ ztoe'[Len(ztoe)+1] = request
         /\ \A i \in DOMAIN ztoe : i \in DOMAIN ztoe' /\ ztoe'[i] = ztoe[i]
<1>1. request \in ZtoeRow
  BY ZeroAssetAssumption DEF ZtoeRow, Wellformed, EvmTypeOK, EvmUsers
<1>2. ztoe' = Append(ztoe, request)
  BY DEF OnTransfer
<1> QED BY <1>1, <1>2, AppendProperties, LenProperties DEF Wellformed, NativeTypeOK

LEMMA RowsKept ==
  ASSUME Wellformed, [Next]_vars
  PROVE  PairsKept /\ RequestsKept /\ DepositsKept
<1> USE DEF PairsKept, RequestsKept, RequestKept, DepositsKept
<1>1. CASE UNCHANGED vars
  BY <1>1 DEF vars, nativeVars, evmVars
<1>2. CASE AdminNext
  <2>1. ASSUME UNCHANGED <<zpairs, ztoe, evmVars>> PROVE PairsKept /\ RequestsKept /\ DepositsKept
    BY <2>1 DEF evmVars
  <2>2. ASSUME NEW in \in PairInputs, AddPair(in) PROVE PairsKept /\ RequestsKept /\ DepositsKept
    BY <2>2 DEF AddPair, ValidPairId, evmVars
  <2>3. ASSUME NEW p \in PairIds, NEW active \in BOOLEAN, NEW limits \in PairLimits,
               SetPair(p, active, limits)
        PROVE  PairsKept /\ RequestsKept /\ DepositsKept
    BY <2>3 DEF SetPair, evmVars, Wellformed, NativeTypeOK, ZPairRow
  <2>4. ASSUME NEW i \in 1..MaxRequests, RefundZtoE(i)
        PROVE  PairsKept /\ RequestsKept /\ DepositsKept
    BY <2>4 DEF RefundZtoE, CanRefund, evmVars, Wellformed, NativeTypeOK, ZtoeRow
  <2> QED BY <1>2, <2>1, <2>2, <2>3, <2>4
          DEF AdminNext, InitBridge, SetAdmin, SetDevMode, SetEvmRelay, Pause, SetEvmConf, SetEvmChain
<1>3. CASE MintNext
  BY <1>3, MintFrame DEF evmVars
<1>4. CASE ExitNext
  <2>1. ASSUME NEW p \in PairIds, NEW from \in Accounts, NEW q \in Quantities,
               NEW memo \in EvmAddrs \cup {ZeroAddress}, OnTransfer(p, from, q, memo)
        PROVE  PairsKept /\ RequestsKept /\ DepositsKept
    <3>1. DepositsKept /\ UNCHANGED zpairs
      BY <2>1, RawKeepsDeposits DEF OnTransfer
    <3>2. RequestsKept
      BY <2>1, OnTransferAppends
    <3> QED BY <3>1, <3>2
  <2>2. ASSUME NEW i \in 1..MaxRequests, RelayZtoE(i)
        PROVE  PairsKept /\ RequestsKept /\ DepositsKept
    BY <2>2, RawKeepsDeposits DEF RelayZtoE, nativeVars
  <2> QED BY <1>4, <2>1, <2>2 DEF ExitNext
<1>5. CASE AssetUserNext
  BY <1>5 DEF AssetUserNext, PlainTransfer, OwnBurn, nativeVars, evmVars
<1>6. CASE EvmStep
  BY <1>6, DepositsKeptByEvm DEF EvmStep, nativeVars, Wellformed
<1> QED BY <1>1, <1>2, <1>3, <1>4, <1>5, <1>6 DEF Next
-----------------------------------------------------------------------------
(* The only way anything is paid out: one request, not yet released on the  *)
(* bridge that pays, for what its row says; and by this contract only if    *)
(* the bridge is the configured one and the request is not refunded.        *)
PaysOutOn(b, i) ==
  /\ i \in DOMAIN ztoe' /\ i \in Nat
  /\ b \in EvmBridges
  /\ <<b, i>> \notin processed
  /\ processed' = processed \cup {<<b, i>>}
  /\ ztoe'[i].receiver \in EvmAddrs /\ EvmAmount(ztoe'[i]) \in Nat
  /\ ztoe'[i].pair \in PairIds
  /\ released' = Append(released, [bridge |-> b, burn |-> i,
                                   pair |-> ztoe'[i].pair, receiver |-> ztoe'[i].receiver,
                                   amount |-> EvmAmount(ztoe'[i])])
  /\ UNCHANGED zpairs
PaysOut(i) ==
  /\ i \in DOMAIN ztoe => ~ztoe[i].refunded
  /\ PaysOutOn(evmconfig.bridge, i)

LEMMA RawPaysOut ==
  ASSUME Wellformed, NEW request \in ZtoeRow, NEW burn \in Nat, CanRelay(request, burn),
         Raw(request, burn)
  PROVE  \/ UNCHANGED <<released, processed>>
         \/ /\ evmconfig.bridge \in EvmBridges
            /\ <<evmconfig.bridge, burn>> \notin processed
            /\ processed' = processed \cup {<<evmconfig.bridge, burn>>}
            /\ request.receiver \in EvmAddrs /\ EvmAmount(request) \in Nat
            /\ request.pair \in PairIds
            /\ released' = Append(released, [bridge |-> evmconfig.bridge, burn |-> burn,
                                             pair |-> request.pair,
                                             receiver |-> request.receiver,
                                             amount |-> EvmAmount(request)])
<1>1. CASE UNCHANGED evmVars
  BY <1>1 DEF evmVars
<1>2. CASE ReleaseToEvm(evmconfig.bridge, LinkedAddress, request.pair, EvmAmount(request),
                        request.receiver, burn)
  <2>1. evmconfig.bridge \in EvmBridges
    BY DEF CanRelay, Wellformed, NativeTypeOK
  <2>2. request.pair \in DOMAIN registry /\ request.receiver # ZeroAddress
    BY <1>2 DEF ReleaseToEvm, CanRelease, ActivePair
  <2>3. registry[request.pair] \in PairRow
    BY <2>2 DEF Wellformed, EvmTypeOK
  <2>4. EvmAmount(request) \in Nat
    BY <1>2, <2>3 DEF ReleaseToEvm, CanRelease, AmountAllowed, PairRow, Limits
  <2>5. request.receiver \in EvmAddrs /\ request.pair \in PairIds
    BY <2>2 DEF ZtoeRow
  <2> QED BY <1>2, <2>1, <2>4, <2>5 DEF ReleaseToEvm, CanRelease
<1> QED BY <1>1, <1>2 DEF Raw

LEMMA PayoutStep ==
  ASSUME Wellformed, [Next]_vars
  PROVE  UNCHANGED <<released, processed>> \/ \E i \in Nat : PaysOut(i)
<1>1. CASE UNCHANGED vars
  BY <1>1 DEF vars, evmVars
<1>2. CASE AdminNext
  BY <1>2 DEF AdminNext, InitBridge, SetAdmin, SetDevMode, SetEvmRelay, Pause, SetEvmConf,
              SetEvmChain, AddPair, SetPair, RefundZtoE, evmVars
<1>3. CASE MintNext
  BY <1>3, MintFrame DEF evmVars
<1>4. CASE ExitNext
  <2>1. ASSUME NEW p \in PairIds, NEW from \in Accounts, NEW q \in Quantities,
               NEW memo \in EvmAddrs \cup {ZeroAddress}, OnTransfer(p, from, q, memo)
        PROVE  UNCHANGED <<released, processed>> \/ \E i \in Nat : PaysOut(i)
    <3> DEFINE request == [pair |-> p, sender |-> from, quantity |-> q, receiver |-> memo,
                           createdAt |-> now, refunded |-> FALSE]
               burn == Len(ztoe) + 1
    <3>1. /\ request \in ZtoeRow
          /\ Len(ztoe) \in Nat /\ DOMAIN ztoe = 1..Len(ztoe)
          /\ burn \in DOMAIN ztoe' /\ ztoe'[burn] = request
      BY <2>1, OnTransferAppends
    <3>2. CanRelay(request, burn) /\ Raw(request, burn) /\ UNCHANGED zpairs
      BY <2>1 DEF OnTransfer
    <3>3. burn \in Nat /\ burn \notin DOMAIN ztoe
      BY <3>1
    <3> HIDE DEF request, burn
    <3> QED BY <3>1, <3>2, <3>3, RawPaysOut DEF PaysOut, PaysOutOn
  <2>2. ASSUME NEW i \in 1..MaxRequests, RelayZtoE(i)
        PROVE  UNCHANGED <<released, processed>> \/ \E j \in Nat : PaysOut(j)
    <3>1. i \in DOMAIN ztoe /\ CanRelay(ztoe[i], i) /\ Raw(ztoe[i], i) /\ UNCHANGED <<zpairs, ztoe>>
      BY <2>2 DEF RelayZtoE, nativeVars
    <3>2. ztoe[i] \in ZtoeRow /\ i \in Nat
      BY <3>1, EvmEscrowAssumption DEF Wellformed, NativeTypeOK
    <3>3. ~ztoe[i].refunded
      BY <3>1 DEF CanRelay, Unsettled
    <3> QED BY <3>1, <3>2, <3>3, RawPaysOut DEF PaysOut, PaysOutOn
  <2> QED BY <1>4, <2>1, <2>2 DEF ExitNext
<1>5. CASE AssetUserNext
  BY <1>5 DEF AssetUserNext, PlainTransfer, OwnBurn, evmVars
<1>6. CASE EvmStep
  BY <1>6, DepositsKeptByEvm DEF EvmStep, Wellformed
<1> QED BY <1>1, <1>2, <1>3, <1>4, <1>5, <1>6 DEF Next

(* A refunded burn stays refunded and is never released afterwards, by      *)
(* whatever deployment is configured and however often relayztoe is called. *)
THEOREM RefundsAreFinal == Spec => RefundIsFinal
<1>1. Wellformed /\ [Next]_vars => [RefundStands]_vars
  <2> SUFFICES ASSUME Wellformed, [Next]_vars, NEW i \in DOMAIN ztoe, ztoe[i].refunded
               PROVE  /\ ztoe'[i].refunded
                      /\ \A b \in EvmBridges : <<b, i>> \in processed' => <<b, i>> \in processed
    BY DEF RefundStands
  <2>1. ztoe'[i].refunded
    BY RowsKept DEF RequestsKept, RequestKept
  <2>2. CASE UNCHANGED <<released, processed>>
    BY <2>1, <2>2
  <2>3. ASSUME NEW j \in Nat, PaysOut(j)
        PROVE  \A b \in EvmBridges : <<b, i>> \in processed' => <<b, i>> \in processed
    BY <2>3 DEF PaysOut, PaysOutOn
  <2> QED BY <2>1, <2>2, <2>3, PayoutStep
<1> QED BY <1>1, WellformedAlways, PTL DEF Spec, RefundIsFinal
-----------------------------------------------------------------------------
(* The invariant behind ReleasesMatchBurns: an event is in the processed    *)
(* map of its bridge, which keeps the burn from being released again.       *)
PayoutsRecorded ==
  \A e \in DOMAIN released : <<released[e].bridge, released[e].burn>> \in processed

PayoutInv == ReleasesMatchBurns /\ PayoutsRecorded

(* The parts of ReleasesMatchBurns: an event is that of its burn, and no    *)
(* two events are of the same burn on the same bridge.                      *)
OfItsBurn(event) ==
  /\ event.burn \in DOMAIN ztoe
  /\ ztoe[event.burn].pair = event.pair
  /\ EvmAmount(ztoe[event.burn]) = event.amount
  /\ ztoe[event.burn].receiver = event.receiver
SameBurn(event, other) == event.bridge = other.bridge /\ event.burn = other.burn

EventsOfBurns ==
  \A e \in DOMAIN released :
    /\ OfItsBurn(released[e])
    /\ \A f \in DOMAIN released : SameBurn(released[f], released[e]) => f = e

LEMMA ReleasesMatchParts == ReleasesMatchBurns <=> EventsOfBurns
BY DEF ReleasesMatchBurns, EventsOfBurns, OfItsBurn, SameBurn

(* Rows of the bridge's tables never change in what an event speaks about.  *)
LEMMA BurnsStand ==
  ASSUME Wellformed, [Next]_vars, NEW event, OfItsBurn(event)
  PROVE  OfItsBurn(event)'
<1> DEFINE i == event.burn
           p == ztoe[i].pair
<1>1. i \in DOMAIN ztoe /\ p \in DOMAIN zpairs
  BY DEF OfItsBurn, Wellformed, NativeTypeOK
<1>2. /\ i \in DOMAIN ztoe' /\ ztoe'[i].pair = p
      /\ ztoe'[i].quantity = ztoe[i].quantity /\ ztoe'[i].receiver = ztoe[i].receiver
      /\ zpairs'[p].token = zpairs[p].token /\ zpairs'[p].decimals = zpairs[p].decimals
  BY <1>1, RowsKept DEF RequestsKept, RequestKept, PairsKept
<1> QED BY <1>2 DEF OfItsBurn, EvmAmount

(* One more payout, while the rows that earlier events speak about stand.   *)
LEMMA PayoutKeepsInv ==
  ASSUME Wellformed, PayoutInv, \A event : OfItsBurn(event) => OfItsBurn(event)',
         \/ UNCHANGED <<released, processed>>
         \/ \E b \in EvmBridges, i \in Nat : PaysOutOn(b, i)
  PROVE  PayoutInv'
<1>1. \A e \in DOMAIN released :
        /\ OfItsBurn(released[e])
        /\ \A f \in DOMAIN released : SameBurn(released[f], released[e]) => f = e
  BY ReleasesMatchParts DEF PayoutInv, EventsOfBurns
<1>2. \A event : OfItsBurn(event) => OfItsBurn(event)'
  OBVIOUS
<1>3. CASE UNCHANGED <<released, processed>>
  <2>1. \A e \in DOMAIN released' :
          /\ OfItsBurn(released[e])'
          /\ \A f \in DOMAIN released' : SameBurn(released'[f], released'[e]) => f = e
    <3> SUFFICES ASSUME NEW e \in DOMAIN released
                 PROVE  /\ OfItsBurn(released[e])'
                        /\ \A f \in DOMAIN released : SameBurn(released[f], released[e]) => f = e
      BY <1>3
    <3>1. ASSUME NEW event, event = released[e] PROVE OfItsBurn(event)'
      BY <1>1, <1>2, <3>1
    <3>2. OfItsBurn(released[e])'
      BY <3>1, <1>3 DEF OfItsBurn
    <3> QED BY <1>1, <3>2
  <2>2. EventsOfBurns'
    BY <2>1 DEF EventsOfBurns
  <2>3. ReleasesMatchBurns'
    BY <2>2, ReleasesMatchParts, PTL
  <2> QED BY <1>3, <2>3 DEF PayoutInv, PayoutsRecorded
<1>4. ASSUME NEW b \in EvmBridges, NEW i \in Nat, PaysOutOn(b, i) PROVE PayoutInv'
  <2> DEFINE n == Len(released) + 1
  <2>1. PICK event : /\ event \in ReleaseRow
                     /\ event.bridge = b /\ event.burn = i
                     /\ OfItsBurn(event)'
                     /\ released' = Append(released, event)
    <3> DEFINE new == [bridge |-> b, burn |-> i, pair |-> ztoe'[i].pair,
                       receiver |-> ztoe'[i].receiver, amount |-> EvmAmount(ztoe'[i])]
    <3>1. new \in ReleaseRow /\ released' = Append(released, new)
      BY <1>4, EvmEscrowAssumption DEF PaysOutOn, ReleaseRow, PairIds
    <3>2. ASSUME NEW event, event = new PROVE OfItsBurn(event)'
      BY <1>4, <3>2 DEF PaysOutOn, OfItsBurn, EvmAmount
    <3>3. new.bridge = b /\ new.burn = i
      OBVIOUS
    <3> HIDE DEF new
    <3> QED BY <3>1, <3>2, <3>3
  <2>2. /\ DOMAIN released' = DOMAIN released \cup {n}
        /\ released'[n] = event
        /\ \A e \in DOMAIN released : released'[e] = released[e] /\ e # n
    BY <2>1, AppendProperties, LenProperties DEF Wellformed, EvmTypeOK
  <2>3. processed' = processed \cup {<<event.bridge, event.burn>>}
    BY <1>4, <2>1 DEF PaysOutOn
  <2>4. \A e \in DOMAIN released : ~SameBurn(released[e], event) /\ ~SameBurn(event, released[e])
    BY <1>4, <2>1 DEF PaysOutOn, PayoutInv, PayoutsRecorded, SameBurn
  <2> HIDE DEF n
  <2>5. ASSUME NEW e \in DOMAIN released'
        PROVE  /\ OfItsBurn(released[e])'
               /\ \A f \in DOMAIN released' : SameBurn(released'[f], released'[e]) => f = e
    <3>1. ASSUME NEW row, row = released'[e] PROVE OfItsBurn(row)'
      BY <1>1, <1>2, <2>1, <2>2, <3>1
    <3>2. OfItsBurn(released[e])'
      BY <3>1 DEF OfItsBurn
    <3>3. ASSUME NEW f \in DOMAIN released', SameBurn(released'[f], released'[e]) PROVE f = e
      BY <1>1, <2>2, <2>4, <3>3
    <3> QED BY <3>2, <3>3
  <2>6. ReleasesMatchBurns'
    <3>1. EventsOfBurns'
      BY <2>5 DEF EventsOfBurns
    <3> QED BY <3>1, ReleasesMatchParts, PTL
  <2>7. PayoutsRecorded'
    BY <2>2, <2>3 DEF PayoutInv, PayoutsRecorded
  <2> QED BY <2>6, <2>7 DEF PayoutInv
<1> QED BY <1>3, <1>4

LEMMA PayoutInvStep == ASSUME Wellformed, PayoutInv, [Next]_vars PROVE PayoutInv'
<1>1. \A event : OfItsBurn(event) => OfItsBurn(event)'
  BY BurnsStand
<1>2. \/ UNCHANGED <<released, processed>>
      \/ \E b \in EvmBridges, i \in Nat : PaysOutOn(b, i)
  BY PayoutStep DEF PaysOut, PaysOutOn
<1> QED BY <1>1, <1>2, PayoutKeepsInv

(* Every payout is that of one burn, for its pair, amount and receiver, and *)
(* a burn is paid at most once by a deployment.                             *)
THEOREM PayoutsAreBurns == Spec => []ReleasesMatchBurns
<1>1. Init => PayoutInv
  BY EmptySeq DEF Init, EvmInit, PayoutInv, ReleasesMatchBurns, PayoutsRecorded
<1>2. Wellformed /\ PayoutInv /\ [Next]_vars => PayoutInv'
  BY PayoutInvStep
<1>3. PayoutInv => ReleasesMatchBurns
  BY DEF PayoutInv
<1> QED BY <1>1, <1>2, <1>3, WellformedAlways, PTL DEF Spec
-----------------------------------------------------------------------------
(* With dev mode never allowed, the switch is never on. *)
NoDevMode == ~config.devMode

LEMMA DevModeStaysOff ==
  ASSUME DevModes \subseteq {FALSE}, NoDevMode, Wellformed, [Next]_vars
  PROVE  NoDevMode'
<1>0. config \in ConfigRow
  BY DEF Wellformed, NativeTypeOK
<1>1. CASE UNCHANGED config
  BY <1>1 DEF NoDevMode
<1>2. ASSUME NEW admin \in Admins, NEW evmAccount \in RelayAccounts, NEW devMode \in DevModes,
             InitBridge(admin, evmAccount, devMode)
      PROVE  NoDevMode'
  BY <1>2 DEF InitBridge, NoDevMode
<1>3. ASSUME NEW admin \in Admins, SetAdmin(admin) PROVE NoDevMode'
  BY <1>0, <1>3 DEF SetAdmin, NoDevMode, ConfigRow
<1>4. ASSUME NEW devMode \in DevModes, SetDevMode(devMode) PROVE NoDevMode'
  BY <1>0, <1>4 DEF SetDevMode, NoDevMode, ConfigRow
<1>5. ASSUME NEW evmAccount \in RelayAccounts, SetEvmRelay(evmAccount) PROVE NoDevMode'
  BY <1>0, <1>5 DEF SetEvmRelay, NoDevMode, ConfigRow
<1>6. ASSUME NEW paused \in BOOLEAN, Pause(paused) PROVE NoDevMode'
  BY <1>0, <1>6 DEF Pause, NoDevMode, ConfigRow
<1>7. CASE AdminNext
  <2>1. \/ UNCHANGED config
        \/ \E admin \in Admins, evmAccount \in RelayAccounts, devMode \in DevModes :
              InitBridge(admin, evmAccount, devMode)
        \/ \E admin \in Admins : SetAdmin(admin)
        \/ \E devMode \in DevModes : SetDevMode(devMode)
        \/ \E evmAccount \in RelayAccounts : SetEvmRelay(evmAccount)
        \/ \E paused \in BOOLEAN : Pause(paused)
    BY <1>7 DEF AdminNext, SetEvmConf, SetEvmChain, AddPair, ValidPairId, SetPair, RefundZtoE
  <2> QED BY <1>1, <1>2, <1>3, <1>4, <1>5, <1>6, <2>1
<1>8. CASE ExitNext \/ MintNext \/ AssetUserNext \/ EvmStep \/ UNCHANGED vars
  <2>1. CASE ExitNext
    BY <2>1, <1>1, ZenonT(40) DEF ExitNext, OnTransfer, RelayZtoE, nativeVars
  <2>2. CASE MintNext
    BY <2>2, <1>1, MintFrame
  <2>3. CASE AssetUserNext
    BY <2>3, <1>1 DEF AssetUserNext, PlainTransfer, OwnBurn, nativeVars
  <2>4. CASE EvmStep \/ UNCHANGED vars
    BY <2>4, <1>1 DEF EvmStep, vars, nativeVars
  <2> QED BY <1>8, <2>1, <2>2, <2>3, <2>4
<1> QED BY <1>7, <1>8 DEF Next

(* Steps other than proveetoz leave the mint table alone. *)
LEMMA MintTableStep ==
  ASSUME NoDevMode, [Next]_vars
  PROVE  \/ UNCHANGED etoz
         \/ \E p \in PairIds, h \in 1..MaxRequests, receiver \in Accounts, q \in Amounts,
               sender \in EvmUsers : ProveEtoZ(p, h, receiver, q, sender)
<1>1. CASE AdminNext \/ ExitNext \/ AssetUserNext \/ EvmStep \/ UNCHANGED vars
  BY <1>1, ZenonT(40) DEF AdminNext, InitBridge, SetAdmin, SetDevMode, SetEvmRelay, Pause, SetEvmConf,
              SetEvmChain, AddPair, SetPair, RefundZtoE, ExitNext, OnTransfer, RelayZtoE, AssetUserNext,
              PlainTransfer, OwnBurn, EvmStep, vars, nativeVars
<1>2. CASE MintNext
  BY <1>2 DEF MintNext, ProcessEtoZ, NoDevMode
<1> QED BY <1>1, <1>2 DEF Next

LEMMA MintsMatchStep ==
  ASSUME Wellformed, NoDevMode, MintsMatchDeposits, [Next]_vars
  PROVE  MintsMatchDeposits'
<1>1. \A h \in DOMAIN requests : h \in DOMAIN requests' /\ requests'[h] = requests[h]
  BY RowsKept DEF DepositsKept
<1>2. CASE UNCHANGED etoz
  BY <1>1, <1>2 DEF MintsMatchDeposits
<1>3. ASSUME NEW p \in PairIds, NEW h \in 1..MaxRequests, NEW receiver \in Accounts,
             NEW q \in Amounts, NEW sender \in EvmUsers, ProveEtoZ(p, h, receiver, q, sender)
      PROVE  MintsMatchDeposits'
  <2> DEFINE row == [evmRequest |-> h, pair |-> p, receiver |-> receiver, quantity |-> q,
                     sender |-> sender]
             n == Len(etoz) + 1
  <2>1. row \in EtozRow /\ etoz' = Append(etoz, row)
    BY <1>3, EvmEscrowAssumption DEF EtozRow, ProveEtoZ, CanProve, Mint
  <2>2. /\ DOMAIN etoz' = DOMAIN etoz \cup {n} /\ etoz'[n] = row
        /\ \A k \in DOMAIN etoz : etoz'[k] = etoz[k]
    <3> HIDE DEF row
    <3> QED BY <2>1, AppendProperties, LenProperties DEF Wellformed, NativeTypeOK
  <2>3. /\ row.evmRequest \in DOMAIN requests
        /\ requests[row.evmRequest].pair = row.pair
        /\ requests[row.evmRequest].amount = row.quantity
        /\ requests[row.evmRequest].receiver = row.receiver
        /\ requests[row.evmRequest].sender = row.sender
        /\ \A k \in DOMAIN etoz : etoz[k].evmRequest # row.evmRequest
    BY <1>3 DEF ProveEtoZ, CanProve, ProofMatches, EvmRequestUnused
  <2> HIDE DEF row, n
  <2> QED BY <1>1, <2>2, <2>3 DEF MintsMatchDeposits
<1> QED BY <1>2, <1>3, MintTableStep

(* Without dev mode, every unit the bridge ever minted is the proof of one  *)
(* deposit, each deposit is minted at most once, and this survives any      *)
(* re-pointing of the bridge to another EVM deployment.                     *)
THEOREM MintsAreDeposits ==
  ASSUME DevModes \subseteq {FALSE}
  PROVE  Spec => []MintsMatchDeposits
<1>1. Init => NoDevMode /\ MintsMatchDeposits
  BY EmptySeq DEF Init, NoDevMode, MintsMatchDeposits
<1>2. NoDevMode /\ Wellformed /\ [Next]_vars => NoDevMode'
  BY DevModeStaysOff
<1>3. Wellformed /\ NoDevMode /\ MintsMatchDeposits /\ [Next]_vars => MintsMatchDeposits'
  BY MintsMatchStep
<1> QED BY <1>1, <1>2, <1>3, WellformedAlways, PTL DEF Spec
-----------------------------------------------------------------------------
(* Without dev mode the bridge implements Claims: the initial states map to *)
(* initial states, and every step to a step of Claims or a stutter.  Each   *)
(* action that is not a stutter has a lemma that names the claim it makes   *)
(* or settles.                                                              *)

(* What a mapped variable depends on. *)
LEMMA ClaimsStutter ==
  ASSUME UNCHANGED <<asset, requests, etoz, ztoe, processed>>,
         TokenOf' = TokenOf
  PROVE  UNCHANGED C!claimVars
BY DEF C!claimVars, Balance, Minted, Burns, Refunded

LEMMA AllStutter ==
  ASSUME UNCHANGED <<asset, zpairs, requests, etoz, ztoe, processed>>
  PROVE  UNCHANGED C!claimVars
BY ClaimsStutter DEF TokenOf

LEMMA AddPairClaims ==
  ASSUME Wellformed, NEW in \in PairInputs, AddPair(in)
  PROVE  C!ClaimsNext
<1>1. in.id \in PairIds /\ in.token \in ZeroTokens
  BY ZeroBridgeAssumption, EvmEscrowAssumption DEF AddPair, ValidPairId, PairIds
<1>2. /\ in.id \notin DOMAIN TokenOf
      /\ \A q \in DOMAIN TokenOf : TokenOf[q] # in.token
  BY DEF AddPair, TokenOf
<1>3. TokenOf' = [q \in DOMAIN TokenOf \cup {in.id} |-> IF q = in.id THEN in.token ELSE TokenOf[q]]
  BY DEF AddPair, TokenOf
<1>4. UNCHANGED <<Balance, requests, Minted, Burns, Refunded, processed>>
  BY DEF AddPair, evmVars, Balance, Minted, Burns, Refunded
<1>5. C!Register(in.id, in.token)
  BY <1>2, <1>3, <1>4 DEF C!Register
<1> QED BY <1>1, <1>5 DEF C!ClaimsNext

(* A changed ledger of one token, seen as balances. *)
LEMMA BalanceUpdate ==
  ASSUME AssetSound, NEW t \in ZeroTokens, NEW new, asset' = [asset EXCEPT ![t] = new]
  PROVE  /\ Balance' = [Balance EXCEPT ![t] = new.balance]
         /\ asset[t] \in TokenRow
         /\ Balance[t] = asset[t].balance /\ Balance[t] \in [Accounts -> Int]
BY DEF AssetSound, SoundRow, TokenRow, Balance

LEMMA BalanceChange ==
  ASSUME AssetSound, NEW t \in ZeroTokens, NEW a \in Accounts, NEW d \in Int, NEW new,
         asset' = [asset EXCEPT ![t] = new],
         new.balance = [asset[t].balance EXCEPT ![a] = @ + d]
  PROVE  C!Change(t, a, d)
<1>1. /\ Balance' = [Balance EXCEPT ![t] = new.balance]
      /\ Balance[t] = asset[t].balance
  BY BalanceUpdate
<1>2. new.balance = [Balance[t] EXCEPT ![a] = Balance[t][a] + d]
  BY <1>1
<1> HIDE DEF Balance
<1>3. Balance' = [Balance EXCEPT ![t] = [Balance[t] EXCEPT ![a] = Balance[t][a] + d]]
  BY <1>1, <1>2
<1> QED BY <1>3 DEF C!Change

LEMMA CreditedBalance ==
  ASSUME AssetSound, NEW t \in ZeroTokens, NEW a \in Accounts, NEW q \in Int,
         asset' = [asset EXCEPT ![t] = Issued(@, a, q)]
  PROVE  C!Change(t, a, q)
<1>1. asset[t] \in TokenRow
  BY DEF AssetSound, SoundRow
<1>2. Issued(asset[t], a, q).balance = [asset[t].balance EXCEPT ![a] = @ + q]
  BY <1>1 DEF Issued, AddBalance, TokenRow
<1>3. asset' = [asset EXCEPT ![t] = Issued(asset[t], a, q)]
  BY DEF AssetSound
<1> QED BY <1>2, <1>3, BalanceChange

(* An owner can only give what the balance shows. *)
LEMMA GivesFromBalance ==
  ASSUME AssetSound, NEW t \in ZeroTokens, NEW a \in Accounts, NEW q \in Int, q > 0,
         HasBalance(asset[t], a, q)
  PROVE  q \in 1..Balance[t][a]
BY DEF AssetSound, SoundRow, TokenRow, Balance, HasBalance

LEMMA MintClaims ==
  ASSUME Wellformed, NEW p \in PairIds, NEW h \in 1..MaxRequests, NEW receiver \in Accounts,
         NEW q \in Amounts, NEW sender \in EvmUsers, ProveEtoZ(p, h, receiver, q, sender)
  PROVE  C!ClaimsNext
<1> DEFINE row == [evmRequest |-> h, pair |-> p, receiver |-> receiver, quantity |-> q,
                   sender |-> sender]
           n == Len(etoz) + 1
<1>1. /\ p \in DOMAIN zpairs /\ zpairs[p].token \in ZeroTokens /\ q \in Int
      /\ TokenOf[p] = zpairs[p].token /\ p \in DOMAIN TokenOf
  BY EvmEscrowAssumption
     DEF ProveEtoZ, CanProve, ActiveZPair, Wellformed, NativeTypeOK, ZPairRow, TokenOf
<1>2. /\ h \in DOMAIN requests /\ requests[h].pair = p
      /\ requests[h].receiver = receiver /\ requests[h].amount = q
      /\ h \notin Minted
  BY DEF ProveEtoZ, CanProve, ProofMatches, EvmRequestUnused, Minted
<1>3. C!Change(TokenOf[p], receiver, q)
  BY <1>1, CreditedBalance DEF ProveEtoZ, Mint, Wellformed
<1>4. Minted' = Minted \cup {h}
  <2>1. row \in EtozRow /\ etoz' = Append(etoz, row) /\ row.evmRequest = h
    BY <1>1, EvmEscrowAssumption DEF EtozRow, ProveEtoZ, Mint
  <2>2. /\ DOMAIN etoz' = DOMAIN etoz \cup {n} /\ etoz'[n] = row
        /\ \A k \in DOMAIN etoz : etoz'[k] = etoz[k] /\ k # n
    <3> HIDE DEF row
    <3> QED BY <2>1, AppendProperties, LenProperties DEF Wellformed, NativeTypeOK
  <2> HIDE DEF row, n
  <2>3. \A k \in DOMAIN etoz' : etoz'[k].evmRequest = IF k = n THEN h ELSE etoz[k].evmRequest
    BY <2>1, <2>2
  <2> QED BY <2>2, <2>3 DEF Minted
<1>5. UNCHANGED <<TokenOf, requests, Burns, Refunded, processed>>
  BY DEF ProveEtoZ, Mint, evmVars, TokenOf, Burns, Refunded
<1>6. C!Mint(h)
  BY <1>1, <1>2, <1>3, <1>4, <1>5 DEF C!Mint
<1> QED BY <1>6 DEF C!ClaimsNext

LEMMA RefundClaims ==
  ASSUME Wellformed, NEW i \in 1..MaxRequests, RefundZtoE(i)
  PROVE  C!ClaimsNext
<1>1. /\ i \in DOMAIN ztoe /\ ztoe[i] \in ZtoeRow /\ ~ztoe[i].refunded
      /\ ztoe[i].pair \in DOMAIN zpairs /\ zpairs[ztoe[i].pair].token \in ZeroTokens
      /\ ztoe[i].sender \in Accounts /\ ztoe[i].quantity \in Int
  <2>1. i \in DOMAIN ztoe /\ ~ztoe[i].refunded /\ ztoe[i].pair \in DOMAIN zpairs
    BY DEF RefundZtoE, CanRefund
  <2>2. ztoe[i] \in ZtoeRow /\ zpairs[ztoe[i].pair] \in ZPairRow
    BY <2>1 DEF Wellformed, NativeTypeOK
  <2> QED BY <2>1, <2>2 DEF ZtoeRow, ZPairRow
<1>2. /\ DOMAIN ztoe' = DOMAIN ztoe /\ ztoe'[i].refunded
      /\ \A j \in DOMAIN ztoe :
           /\ ztoe'[j].pair = ztoe[j].pair /\ ztoe'[j].sender = ztoe[j].sender
           /\ ztoe'[j].quantity = ztoe[j].quantity
           /\ j # i => ztoe'[j] = ztoe[j]
  BY <1>1 DEF RefundZtoE, Wellformed, NativeTypeOK, ZtoeRow
<1>3. Refunded' = Refunded \cup {i} /\ Burns' = Burns /\ i \in DOMAIN Burns \ Refunded
  BY <1>1, <1>2 DEF Refunded, Burns
<1>4. /\ TokenOf[Burns[i].pair] = zpairs[ztoe[i].pair].token
      /\ Burns[i].sender = ztoe[i].sender /\ Burns[i].quantity = ztoe[i].quantity
  BY <1>1 DEF Burns, TokenOf
<1>5. C!Change(TokenOf[Burns[i].pair], Burns[i].sender, Burns[i].quantity)
  BY <1>1, <1>4, CreditedBalance DEF RefundZtoE, Wellformed
<1>6. UNCHANGED <<TokenOf, requests, Minted, processed>>
  BY DEF RefundZtoE, evmVars, TokenOf, Minted
<1>7. C!Refund(i)
  BY <1>3, <1>5, <1>6 DEF C!Refund
<1> QED BY <1>7 DEF C!ClaimsNext
(* What eosio.evm does with a relayed request is a payout of that burn.    *)
LEMMA RawPays ==
  ASSUME Wellformed, NEW request \in ZtoeRow, NEW burn \in Nat, CanRelay(request, burn),
         Raw(request, burn)
  PROVE  /\ UNCHANGED requests
         /\ \/ UNCHANGED processed
            \/ \E b \in EvmBridges : /\ <<b, burn>> \notin processed
                                    /\ processed' = processed \cup {<<b, burn>>}
<1>1. UNCHANGED requests
  BY DEF Raw, ReleaseToEvm, evmVars
<1> QED BY <1>1, RawPaysOut

LEMMA RelayClaims ==
  ASSUME Wellformed, NEW i \in 1..MaxRequests, RelayZtoE(i)
  PROVE  C!ClaimsNext \/ UNCHANGED C!claimVars
<1>1. /\ i \in DOMAIN ztoe /\ CanRelay(ztoe[i], i) /\ Raw(ztoe[i], i)
      /\ UNCHANGED <<asset, zpairs, etoz, ztoe>>
  BY DEF RelayZtoE, nativeVars
<1>2. ztoe[i] \in ZtoeRow /\ i \in Nat
  BY <1>1, EvmEscrowAssumption DEF Wellformed, NativeTypeOK
<1>3. UNCHANGED requests
  BY <1>1, <1>2, RawPays
<1>4. CASE UNCHANGED processed
  BY <1>1, <1>3, <1>4, AllStutter
<1>5. CASE \E b \in EvmBridges : <<b, i>> \notin processed /\ processed' = processed \cup {<<b, i>>}
  <2>1. i \in DOMAIN Burns \ Refunded
    BY <1>1 DEF CanRelay, Unsettled, Burns, Refunded
  <2>2. UNCHANGED <<TokenOf, Balance, requests, Minted, Burns, Refunded>>
    BY <1>1, <1>3 DEF TokenOf, Balance, Minted, Burns, Refunded
  <2>3. C!Pay(i)
    BY <1>5, <2>1, <2>2 DEF C!Pay
  <2> QED BY <2>3 DEF C!ClaimsNext
<1> QED BY <1>1, <1>2, <1>4, <1>5, RawPays

(* A move within one row of a table. *)
LEMMA MoveInRow ==
  ASSUME NEW S, NEW T, NEW F \in [T -> [S -> Int]], NEW t \in T, NEW a \in S, NEW b \in S,
         a # b, NEW q \in Int
  PROVE  [F EXCEPT ![t] = [[F[t] EXCEPT ![a] = @ - q] EXCEPT ![b] = @ + q]]
           = [F EXCEPT ![t][a] = @ - q, ![t][b] = @ + q]
<1> DEFINE mid == [F EXCEPT ![t][a] = @ - q]
           row == [F[t] EXCEPT ![a] = @ - q]
<1>1. mid[t] = row /\ mid \in [T -> [S -> Int]] /\ row \in [S -> Int]
  OBVIOUS
<1>2. [F EXCEPT ![t] = [row EXCEPT ![b] = row[b] + q]]
        = [mid EXCEPT ![t] = [mid[t] EXCEPT ![b] = mid[t][b] + q]]
  <2>1. \A u \in T \ {t} : mid[u] = F[u]
    OBVIOUS
  <2> HIDE DEF mid, row
  <2> QED BY <1>1, <2>1
<1> QED BY <1>2

(* A transfer to the bridge moves the tokens in and burns them: the sender  *)
(* alone is worse off.                                                      *)
LEMMA ExitBalance ==
  ASSUME Wellformed, NEW t \in ZeroTokens, NEW from \in Accounts, NEW q \in Int,
         from # Bridge,
         asset' = [asset EXCEPT ![t] = Burned(Transferred(@, from, Bridge, q), Bridge, q)]
  PROVE  C!Change(t, from, -q)
<1> DEFINE new == Burned(Transferred(asset[t], from, Bridge, q), Bridge, q)
           held == asset[t].balance
<1>1. asset[t] \in TokenRow /\ held \in [Accounts -> Int] /\ Bridge \in Accounts
  BY ZeroBridgeAssumption DEF Wellformed, AssetSound, SoundRow, TokenRow
<1>2. new.balance = [[[held EXCEPT ![from] = @ - q] EXCEPT ![Bridge] = @ + q] EXCEPT ![Bridge] = @ - q]
  BY <1>1 DEF Burned, Transferred, AddBalance, SubBalance, TokenRow
<1>3. asset' = [asset EXCEPT ![t] = new]
  BY DEF Wellformed, AssetSound
<1>4. ASSUME NEW d \in Int, d = -q PROVE C!Change(t, from, d)
  <2> HIDE DEF new
  <2>1. new.balance = [held EXCEPT ![from] = @ + d]
    <3> DEFINE less == [held EXCEPT ![from] = @ + d]
    <3> HIDE DEF held
    <3>1. new.balance \in [Accounts -> Int] /\ less \in [Accounts -> Int]
      BY <1>1, <1>2
    <3>2. \A a \in Accounts : new.balance[a] = less[a]
      BY <1>1, <1>2, <1>4
    <3>3. new.balance = less
      <4> HIDE DEF less
      <4> QED BY <3>1, <3>2
    <3> QED BY <3>3
  <2> QED BY <1>3, <2>1, BalanceChange DEF Wellformed
<1> QED BY <1>4

LEMMA ExitClaims ==
  ASSUME Wellformed, NEW p \in PairIds, NEW from \in Accounts, NEW q \in Quantities,
         NEW memo \in EvmAddrs \cup {ZeroAddress}, OnTransfer(p, from, q, memo)
  PROVE  C!ClaimsNext
<1> DEFINE request == [pair |-> p, sender |-> from, quantity |-> q, receiver |-> memo,
                       createdAt |-> now, refunded |-> FALSE]
           i == Len(ztoe) + 1
<1>1. /\ request \in ZtoeRow
      /\ Len(ztoe) \in Nat /\ DOMAIN ztoe = 1..Len(ztoe)
      /\ i \in DOMAIN ztoe' /\ ztoe'[i] = request
      /\ \A j \in DOMAIN ztoe : j \in DOMAIN ztoe' /\ ztoe'[j] = ztoe[j]
  BY OnTransferAppends
<1>2. DOMAIN ztoe' = DOMAIN ztoe \cup {i}
  BY <1>1, AppendProperties, LenProperties DEF OnTransfer, Wellformed, NativeTypeOK
<1>3. /\ p \in DOMAIN zpairs /\ zpairs[p].token \in ZeroTokens /\ q \in Int
      /\ TokenOf[p] = zpairs[p].token /\ p \in DOMAIN TokenOf
  BY ZeroAssetAssumption DEF OnTransfer, Wellformed, NativeTypeOK, ZPairRow, TokenOf
<1>4. q \in 1..Balance[TokenOf[p]][from]
  BY <1>3, GivesFromBalance DEF OnTransfer, CanTransfer, Wellformed
<1>5. C!Change(TokenOf[p], from, -q)
  BY <1>3, ExitBalance DEF OnTransfer
<1>6. i \in Nat /\ i \notin DOMAIN ztoe /\ i \in 1..MaxRequests
  BY <1>1, EvmEscrowAssumption DEF OnTransfer
<1>7. UNCHANGED requests /\ C!MayPay(i)
  <2>1. CanRelay(request, i) /\ Raw(request, i)
    BY DEF OnTransfer
  <2> HIDE DEF request, i
  <2> QED BY <1>1, <1>6, <2>1, RawPays DEF C!MayPay
<1>8. Burns' = [k \in DOMAIN Burns \cup {i} |->
                  IF k = i THEN [pair |-> p, sender |-> from, quantity |-> q] ELSE Burns[k]]
  <2>1. \A k \in DOMAIN ztoe : k # i /\ ztoe'[k] = ztoe[k]
    BY <1>1, <1>6
  <2>2. ztoe'[i].pair = p /\ ztoe'[i].sender = from /\ ztoe'[i].quantity = q
    BY <1>1
  <2> HIDE DEF request, i
  <2> QED BY <1>2, <2>1, <2>2 DEF Burns
<1>9. Refunded' = Refunded
  <2>1. ~ztoe'[i].refunded
    BY <1>1
  <2> HIDE DEF request, i
  <2> QED BY <1>1, <1>2, <2>1 DEF Refunded
<1>10. UNCHANGED <<TokenOf, Minted>>
  BY DEF OnTransfer, TokenOf, Minted
<1>11. i \notin DOMAIN Burns
  BY <1>6 DEF Burns
<1>12. C!Burn(i, p, from, q)
  BY <1>3, <1>4, <1>5, <1>7, <1>8, <1>9, <1>10, <1>11 DEF C!Burn
<1> QED BY <1>3, <1>4, <1>6, <1>12 DEF C!ClaimsNext

LEMMA TransferClaims ==
  ASSUME Wellformed, NEW t \in ZeroTokens, NEW from \in Accounts, NEW to \in Accounts,
         NEW q \in Quantities, PlainTransfer(t, from, to, q)
  PROVE  C!ClaimsNext
<1> DEFINE new == Transferred(asset[t], from, to, q)
<1>1. from # to /\ q \in Int /\ q \in 1..Balance[t][from]
  BY ZeroAssetAssumption, GivesFromBalance DEF PlainTransfer, Transfer, CanTransfer, Wellformed
<1>2. asset' = [asset EXCEPT ![t] = new]
  BY DEF PlainTransfer, Transfer, Wellformed, AssetSound
<1>3. /\ Balance' = [Balance EXCEPT ![t] = new.balance]
      /\ asset[t] \in TokenRow
      /\ Balance[t] = asset[t].balance /\ Balance[t] \in [Accounts -> Int]
  <2> HIDE DEF new
  <2> QED BY <1>2, BalanceUpdate DEF Wellformed
<1>4. new.balance = [[Balance[t] EXCEPT ![from] = @ - q] EXCEPT ![to] = @ + q]
  BY <1>3 DEF Transferred, AddBalance, SubBalance, TokenRow
<1>5. Balance' = [Balance EXCEPT ![t][from] = @ - q, ![t][to] = @ + q]
  <2>1. Balance \in [ZeroTokens -> [Accounts -> Int]]
    BY DEF Balance, Wellformed, AssetSound, SoundRow, TokenRow
  <2>2. Balance' = [Balance EXCEPT ![t] = [[Balance[t] EXCEPT ![from] = @ - q] EXCEPT ![to] = @ + q]]
    BY <1>3, <1>4
  <2> HIDE DEF Balance, new
  <2> QED BY <1>1, <2>1, <2>2, MoveInRow
<1>6. UNCHANGED <<TokenOf, requests, Minted, Burns, Refunded, processed>>
  BY DEF PlainTransfer, nativeVars, evmVars, TokenOf, Minted, Burns, Refunded
<1>7. C!Transfer(t, from, to, q)
  BY <1>1, <1>5, <1>6 DEF C!Transfer
<1> QED BY <1>1, <1>7 DEF C!ClaimsNext

LEMMA OwnBurnClaims ==
  ASSUME Wellformed, NEW t \in ZeroTokens, NEW owner \in Accounts, NEW q \in Quantities,
         OwnBurn(t, owner, q)
  PROVE  C!ClaimsNext
<1> DEFINE new == Burned(asset[t], owner, q)
<1>1. q \in Int /\ q \in 1..Balance[t][owner]
  BY ZeroAssetAssumption, GivesFromBalance DEF OwnBurn, Burn, CanBurn, Wellformed
<1>2. asset' = [asset EXCEPT ![t] = new]
  BY DEF OwnBurn, Burn, Wellformed, AssetSound
<1>3. asset[t] \in TokenRow
  BY DEF Wellformed, AssetSound, SoundRow
<1>4. new.balance = [asset[t].balance EXCEPT ![owner] = @ + (-q)]
  BY <1>1, <1>3 DEF Burned, SubBalance, TokenRow
<1>5. ASSUME NEW d \in Int, d = -q PROVE C!Change(t, owner, d)
  <2> HIDE DEF new
  <2>1. new.balance = [asset[t].balance EXCEPT ![owner] = @ + d]
    BY <1>4, <1>5
  <2> QED BY <1>2, <2>1, BalanceChange DEF Wellformed
<1>6. UNCHANGED <<TokenOf, requests, Minted, Burns, Refunded, processed>>
  BY DEF OwnBurn, nativeVars, evmVars, TokenOf, Minted, Burns, Refunded
<1>7. C!Destroy(t, owner, q)
  BY <1>1, <1>5, <1>6 DEF C!Destroy
<1> QED BY <1>1, <1>7 DEF C!ClaimsNext

(* A deposit makes a claim; the other steps of the EVM side do not show.    *)
LEMMA EvmClaims ==
  ASSUME Wellformed, EvmStep
  PROVE  C!ClaimsNext \/ UNCHANGED C!claimVars
<1>1. UNCHANGED <<asset, zpairs, etoz, ztoe>> /\ EvmOwnNext
  BY DEF EvmStep, nativeVars
<1>2. CASE UNCHANGED <<requests, processed>>
  BY <1>1, <1>2, AllStutter
<1>3. ASSUME NEW b \in EvmBridges, NEW p \in PairIds, NEW sender \in EvmUsers,
             NEW amount \in Amounts, NEW receiver \in ZeroReceivers,
             DepositToZero(b, p, sender, amount, receiver)
      PROVE  C!ClaimsNext
  <2> DEFINE row == StoredRequest(b, p, sender, amount, receiver)
             h == Len(requests) + 1
  <2>1. row \in RequestRow
    BY EvmEscrowAssumption DEF StoredRequest, RequestRow, PairIds, Wellformed, EvmTypeOK
  <2>2. requests' = Append(requests, row) /\ UNCHANGED processed /\ Len(requests) < MaxRequests
    BY <1>3 DEF DepositToZero
  <2>3. /\ DOMAIN requests' = DOMAIN requests \cup {h} /\ h \notin DOMAIN requests
        /\ h \in 1..MaxRequests
        /\ \A g \in DOMAIN requests : requests'[g] = requests[g]
    <3> HIDE DEF row
    <3> QED BY <2>1, <2>2, AppendProperties, LenProperties, EvmEscrowAssumption
            DEF Wellformed, EvmTypeOK
  <2>4. UNCHANGED <<TokenOf, Balance, Minted, Burns, Refunded, processed>>
    BY <1>1, <2>2 DEF TokenOf, Balance, Minted, Burns, Refunded
  <2>5. C!Deposit(h)
    BY <2>3, <2>4 DEF C!Deposit
  <2> HIDE DEF h
  <2> QED BY <2>3, <2>5 DEF C!ClaimsNext
<1>4. CASE OwnerNext
  BY <1>4, <1>2 DEF OwnerNext, RegisterPair, SetPairActive, SetPairLimits, SetPaused, SetBridge
<1>5. CASE UserNext
  BY <1>5, <1>2, <1>3 DEF UserNext, SendErc20
<1>6. CASE Tick
  BY <1>6, <1>2 DEF Tick
<1> QED BY <1>1, <1>4, <1>5, <1>6 DEF EvmOwnNext

LEMMA AdminClaims ==
  ASSUME Wellformed, AdminNext
  PROVE  C!ClaimsNext \/ UNCHANGED C!claimVars
<1>1. ASSUME UNCHANGED <<asset, zpairs, etoz, ztoe, evmVars>> PROVE UNCHANGED C!claimVars
  BY <1>1, AllStutter DEF evmVars
<1>2. ASSUME NEW p \in PairIds, NEW active \in BOOLEAN, NEW limits \in PairLimits,
             SetPair(p, active, limits)
      PROVE  UNCHANGED C!claimVars
  <2>1. TokenOf' = TokenOf
    BY <1>2 DEF SetPair, TokenOf, Wellformed, NativeTypeOK, ZPairRow
  <2> QED BY <1>2, <2>1, ClaimsStutter DEF SetPair, evmVars
<1> QED BY <1>1, <1>2, AddPairClaims, RefundClaims
        DEF AdminNext, InitBridge, SetAdmin, SetDevMode, SetEvmRelay, Pause, SetEvmConf, SetEvmChain

LEMMA StepClaims ==
  ASSUME Wellformed, NoDevMode, [Next]_vars
  PROVE  [C!ClaimsNext]_(C!claimVars)
<1>1. CASE AdminNext
  BY <1>1, AdminClaims
<1>2. CASE MintNext
  BY <1>2, MintClaims DEF MintNext, ProcessEtoZ, NoDevMode
<1>3. CASE ExitNext
  BY <1>3, ExitClaims, RelayClaims DEF ExitNext
<1>4. CASE AssetUserNext
  BY <1>4, TransferClaims, OwnBurnClaims DEF AssetUserNext
<1>5. CASE EvmStep
  BY <1>5, EvmClaims
<1>6. CASE UNCHANGED vars
  BY <1>6, AllStutter DEF vars, nativeVars, evmVars
<1> QED BY <1>1, <1>2, <1>3, <1>4, <1>5, <1>6 DEF Next

LEMMA InitClaims == ASSUME Init PROVE C!Init
<1>1. DOMAIN TokenOf = {} /\ DOMAIN Burns = {} /\ Minted = {} /\ Refunded = {}
  BY EmptySeq DEF Init, TokenOf, Burns, Minted, Refunded
<1>2. DOMAIN requests = {} /\ processed = {}
  BY EmptySeq DEF Init, EvmInit
<1>3. Balance \in [ZeroTokens -> [Accounts -> Nat]]
  BY ZeroBridgeAssumption DEF Init, Balance
<1> QED BY <1>1, <1>2, <1>3 DEF C!Init

(* The bridge without dev mode implements Claims: it honours each deposit   *)
(* and each refund once and for the right account, and no step of either    *)
(* chain moves a Zero token in any other way (zero.bridge.cpp:254-447).     *)
THEOREM BridgeHonoursClaims ==
  ASSUME DevModes \subseteq {FALSE}
  PROVE  Spec => HonoursClaims
<1>1. Init => NoDevMode /\ C!Init
  BY InitClaims DEF Init, NoDevMode
<1>2. NoDevMode /\ Wellformed /\ [Next]_vars => NoDevMode'
  BY DevModeStaysOff
<1>3. Wellformed /\ NoDevMode /\ [Next]_vars => [C!ClaimsNext]_(C!claimVars)
  BY StepClaims
<1> QED BY <1>1, <1>2, <1>3, WellformedAlways, PTL DEF Spec, HonoursClaims, C!ClaimsSpec
=============================================================================
