-------------------------- MODULE EvmEscrowProofs ---------------------------
(***************************************************************************)
(* Facts about the EVM side for any number of bridges, users, tokens and   *)
(* pairs, and any bounds.                                                  *)
(***************************************************************************)
EXTENDS EvmEscrow, TotalsTheorems, SequenceTheorems, TLAPS

(* A day number of the model is in Days. *)
LEMMA DivMonotone ==
  ASSUME NEW a \in Nat, NEW b \in Nat, NEW d \in Nat \ {0}, a <= b
  PROVE  a \div d \in 0..(b \div d)
OBVIOUS

LEMMA TodayInDays == ASSUME EvmTypeOK PROVE Today \in Days
<1>1. now \in Nat /\ MaxTime \in Nat /\ now <= MaxTime /\ DAY \in Nat \ {0}
  BY EvmEscrowAssumption DEF EvmTypeOK
<1>2. now \div DAY \in 0..(MaxTime \div DAY)
  BY <1>1, DivMonotone
<1> QED BY <1>2 DEF Today, Days

(* Moving, minting and burning an ERC20 keep the type of its storage. *)
LEMMA Erc20Types ==
  ASSUME NEW row \in Erc20Row, NEW from \in EvmAddrs, NEW to \in EvmAddrs, NEW amount \in Int
  PROVE  /\ MoveErc20(row, from, to, amount) \in Erc20Row
         /\ MintErc20(row, to, amount) \in Erc20Row
         /\ BurnErc20(row, from, amount) \in Erc20Row
<1>1. ASSUME NEW r \in Erc20Row, NEW a \in EvmAddrs, NEW d \in Int
      PROVE  [r EXCEPT !.balance[a] = @ + d] \in Erc20Row
  <2> DEFINE balance == [r.balance EXCEPT ![a] = @ + d]
  <2>1. balance \in [EvmAddrs -> Int]
    BY DEF Erc20Row
  <2>2. [r EXCEPT !.balance[a] = @ + d] = [r EXCEPT !.balance = balance]
    BY DEF Erc20Row
  <2> HIDE DEF balance
  <2> QED BY <2>1, <2>2 DEF Erc20Row
<1>2. ASSUME NEW r \in Erc20Row, NEW d \in Int
      PROVE  [r EXCEPT !.supply = @ + d] \in Erc20Row /\ [r EXCEPT !.supply = @ - d] \in Erc20Row
  BY DEF Erc20Row
<1>3. ASSUME NEW r \in Erc20Row, NEW a \in EvmAddrs
      PROVE  Credit(r, a, amount) \in Erc20Row /\ Debit(r, a, amount) \in Erc20Row
  <2>1. Credit(r, a, amount) \in Erc20Row
    BY <1>1 DEF Credit
  <2>2. Debit(r, a, amount) = [r EXCEPT !.balance[a] = @ + (-amount)]
    BY DEF Debit, Erc20Row
  <2>3. Debit(r, a, amount) \in Erc20Row
    BY <1>1, <2>2
  <2> QED BY <2>1, <2>3
<1> QED BY <1>2, <1>3 DEF MoveErc20, MintErc20, BurnErc20

LEMMA BridgesAreAddresses == EvmBridges \subseteq EvmAddrs
  BY EvmEscrowAssumption DEF EvmBridges, EvmAddrs

(* A release keeps the types. *)
LEMMA ReleaseTypeOK ==
  ASSUME EvmTypeOK, NEW b \in EvmBridges, NEW sender, NEW p, NEW amount,
         NEW receiver \in EvmAddrs \cup {ZeroAddress}, NEW burn \in Nat,
         ReleaseToEvm(b, sender, p, amount, receiver, burn)
  PROVE  EvmTypeOK'
<1>1. /\ p \in DOMAIN registry /\ registry[p] \in PairRow /\ p \in Nat
      /\ registry[p].token \in EvmTokens
      /\ amount \in Nat /\ receiver \in EvmAddrs /\ b \in EvmAddrs
  <2>1. p \in DOMAIN registry /\ receiver \in EvmAddrs
    BY DEF ReleaseToEvm, CanRelease, ActivePair
  <2>2. p \in 1..Len(registry) /\ registry[p] \in PairRow
    BY <2>1 DEF EvmTypeOK
  <2>3. registry[p].token \in EvmTokens /\ registry[p].limits \in Limits
    BY <2>2 DEF PairRow
  <2>4. amount \in Nat
    BY <2>3 DEF ReleaseToEvm, CanRelease, AmountAllowed, Limits
  <2> QED BY <2>1, <2>2, <2>3, <2>4, BridgesAreAddresses DEF EvmTypeOK
<1>2. erc20' \in [EvmTokens -> Erc20Row]
  BY <1>1, Erc20Types DEF EvmTypeOK, ReleaseToEvm, PaidOut
<1>3. released' \in Seq(ReleaseRow)
  BY <1>1 DEF EvmTypeOK, ReleaseToEvm, ReleaseRow
<1>4. processed' \subseteq EvmBridges \X Nat
  BY DEF EvmTypeOK, ReleaseToEvm
<1> QED BY <1>2, <1>3, <1>4 DEF EvmTypeOK, ReleaseToEvm

(* Each other operation keeps them. *)
LEMMA OwnerTypeOK == ASSUME EvmTypeOK, OwnerNext PROVE EvmTypeOK'
<1>1. ASSUME NEW in \in RegistryInputs, RegisterPair(in) PROVE EvmTypeOK'
  <2>1. [token |-> in.token, mintBurn |-> in.mintBurn, active |-> TRUE,
         limits |-> in.limits] \in PairRow
    BY EvmEscrowAssumption DEF PairRow
  <2>2. registry' \in Seq(PairRow) /\ Len(registry') <= MaxPairs
    BY <1>1, <2>1, EvmEscrowAssumption DEF RegisterPair, EvmTypeOK
  <2> QED BY <1>1, <2>2 DEF RegisterPair, EvmTypeOK
<1>2. ASSUME NEW p \in PairIds, NEW active \in BOOLEAN, SetPairActive(p, active)
      PROVE  EvmTypeOK'
  <2>1. registry[p] \in PairRow
    BY <1>2 DEF SetPairActive, EvmTypeOK
  <2>2. [registry[p] EXCEPT !.active = active] \in PairRow
    BY <2>1 DEF PairRow
  <2>3. registry' \in Seq(PairRow) /\ Len(registry') = Len(registry)
    BY <1>2, <2>2 DEF SetPairActive, EvmTypeOK
  <2> QED BY <1>2, <2>3 DEF SetPairActive, EvmTypeOK
<1>3. ASSUME NEW p \in PairIds, NEW limits \in RegistryLimits, SetPairLimits(p, limits)
      PROVE  EvmTypeOK'
  <2>1. registry[p] \in PairRow /\ limits \in Limits
    BY <1>3, EvmEscrowAssumption DEF SetPairLimits, EvmTypeOK
  <2>2. [registry[p] EXCEPT !.limits = limits] \in PairRow
    BY <2>1 DEF PairRow
  <2>3. registry' \in Seq(PairRow) /\ Len(registry') = Len(registry)
    BY <1>3, <2>2 DEF SetPairLimits, EvmTypeOK
  <2> QED BY <1>3, <2>3 DEF SetPairLimits, EvmTypeOK
<1>4. ASSUME NEW b \in EvmBridges, NEW paused \in BOOLEAN, SetPaused(b, paused)
      PROVE  EvmTypeOK'
  BY <1>4 DEF SetPaused, EvmTypeOK
<1>5. ASSUME NEW b \in EvmBridges, NEW t \in EvmTokens, SetBridge(t, b)
      PROVE  EvmTypeOK'
  <2>1. [erc20[t] EXCEPT !.bridge = b] \in Erc20Row
    BY DEF EvmTypeOK, Erc20Row
  <2> QED BY <1>5, <2>1 DEF SetBridge, EvmTypeOK
<1> QED BY <1>1, <1>2, <1>3, <1>4, <1>5 DEF OwnerNext

LEMMA UserTypeOK == ASSUME EvmTypeOK, UserNext PROVE EvmTypeOK'
<1>1. ASSUME NEW b \in EvmBridges, NEW p \in PairIds, NEW sender \in EvmUsers,
             NEW amount \in Amounts, NEW receiver \in ZeroReceivers,
             DepositToZero(b, p, sender, amount, receiver)
      PROVE  EvmTypeOK'
  <2>1. /\ amount \in Nat /\ p \in Nat /\ now \in Nat
        /\ b \in EvmAddrs /\ sender \in EvmAddrs
        /\ registry[p].token \in EvmTokens
    <3>1. p \in 1..Len(registry) /\ registry[p] \in PairRow
      BY <1>1 DEF DepositToZero, ActivePair, EvmTypeOK
    <3>2. registry[p].token \in EvmTokens
      BY <3>1 DEF PairRow
    <3>3. amount \in Nat /\ now \in Nat
      BY EvmEscrowAssumption DEF EvmTypeOK
    <3> QED BY <3>1, <3>2, <3>3, BridgesAreAddresses DEF EvmUsers, EvmTypeOK
  <2>2. requests' \in Seq(RequestRow)
    BY <1>1, <2>1 DEF EvmTypeOK, DepositToZero, StoredRequest, RequestRow
  <2>3. daily' \in [EvmBridges -> [PairIds -> [Days -> Nat]]]
    <3>1. Today \in Days /\ daily[b][p] \in [Days -> Nat] /\ daily[b] \in [PairIds -> [Days -> Nat]]
      BY TodayInDays DEF EvmTypeOK
    <3>2. [daily[b][p] EXCEPT ![Today] = @ + amount] \in [Days -> Nat]
      BY <2>1, <3>1
    <3>3. [daily[b] EXCEPT ![p][Today] = @ + amount] \in [PairIds -> [Days -> Nat]]
      BY <3>1, <3>2
    <3> QED BY <1>1, <3>3 DEF DepositToZero, EvmTypeOK
  <2>4. erc20' \in [EvmTokens -> Erc20Row]
    BY <1>1, <2>1, Erc20Types DEF EvmTypeOK, DepositToZero, TakenIn
  <2> QED BY <1>1, <2>2, <2>3, <2>4 DEF EvmTypeOK, DepositToZero
<1>2. ASSUME NEW t \in EvmTokens, NEW from \in EvmUsers, NEW to \in EvmAddrs,
             NEW amount \in Amounts, SendErc20(t, from, to, amount)
      PROVE  EvmTypeOK'
  <2>1. amount \in Int /\ from \in EvmAddrs
    BY EvmEscrowAssumption DEF EvmUsers
  <2> QED BY <1>2, <2>1, Erc20Types DEF EvmTypeOK, SendErc20
<1> QED BY <1>1, <1>2 DEF UserNext

LEMMA EvmOwnTypeOK == ASSUME EvmTypeOK, EvmOwnNext PROVE EvmTypeOK'
<1>1. CASE Tick
  BY <1>1, EvmEscrowAssumption DEF Tick, EvmTypeOK
<1> QED BY <1>1, OwnerTypeOK, UserTypeOK DEF EvmOwnNext

LEMMA EvmInitTypeOK == ASSUME EvmInit PROVE EvmTypeOK
<1>1. ASSUME NEW t \in EvmTokens
      PROVE  [balance |-> InitialErc20[t], supply |-> InitialErc20Supply(t),
              bridge |-> ZeroAddress] \in Erc20Row
  <2>1. InitialErc20[t] \in [EvmAddrs -> Nat] /\ Weights(InitialErc20[t], NumEvmAddrs)
    BY EvmEscrowAssumption DEF Weights, EvmAddrs
  <2>2. InitialErc20Supply(t) \in Int
    BY <2>1, TotalType, EvmEscrowAssumption DEF InitialErc20Supply
  <2> QED BY <2>1, <2>2 DEF Erc20Row
<1>2. erc20 \in [EvmTokens -> Erc20Row]
  BY <1>1 DEF EvmInit
<1>3. now \in 1..MaxTime /\ Len(registry) <= MaxPairs
  BY EvmEscrowAssumption DEF EvmInit
<1>4. daily \in [EvmBridges -> [PairIds -> [Days -> Nat]]]
  BY DEF EvmInit
<1>5. registry \in Seq(PairRow) /\ requests \in Seq(RequestRow) /\ released \in Seq(ReleaseRow)
  BY EmptySeq DEF EvmInit
<1>6. evmPaused \in [EvmBridges -> BOOLEAN] /\ processed \subseteq EvmBridges \X Nat
  BY DEF EvmInit
<1> QED BY <1>2, <1>3, <1>4, <1>5, <1>6 DEF EvmTypeOK

(* The EVM side's storage keeps its types under deposits, releases and      *)
(* administration in any order.                                             *)
THEOREM EvmTypeCorrect == EvmSpec => []EvmTypeOK
<1>1. EvmInit => EvmTypeOK
  BY EvmInitTypeOK
<1>2. EvmTypeOK /\ [EvmNext]_evmVars => EvmTypeOK'
  <2> SUFFICES ASSUME EvmTypeOK, [EvmNext]_evmVars PROVE EvmTypeOK'
    OBVIOUS
  <2>1. CASE UNCHANGED evmVars
    BY <2>1 DEF evmVars, EvmTypeOK
  <2>2. CASE EvmOwnNext
    BY <2>2, EvmOwnTypeOK
  <2>3. ASSUME NEW b \in EvmBridges, NEW p \in PairIds, NEW amount \in Amounts,
               NEW receiver \in EvmAddrs \cup {ZeroAddress}, NEW burn \in 1..MaxRequests,
               ReleaseToEvm(b, ZeroBridgeOf[b], p, amount, receiver, burn)
        PROVE  EvmTypeOK'
    BY <2>3, ReleaseTypeOK, EvmEscrowAssumption
  <2> QED BY <2>1, <2>2, <2>3 DEF EvmNext
<1> QED BY <1>1, <1>2, PTL DEF EvmSpec
-----------------------------------------------------------------------------
(* The tokens' own books: no balance is overdrawn and the balances add up   *)
(* to the supply.                                                           *)
SoundErc20(row) ==
  /\ row \in Erc20Row
  /\ \A a \in EvmAddrs : row.balance[a] >= 0
  /\ row.supply = Total(row.balance, NumEvmAddrs)

(* One changed balance changes the sum by the difference, and what the      *)
(* bridges hold if it is the balance of a bridge.                           *)
LEMMA HeldChange ==
  ASSUME NEW old \in Erc20Row, NEW new \in Erc20Row, NEW a \in EvmAddrs,
         \A x \in EvmAddrs : x # a => new.balance[x] = old.balance[x]
  PROVE  /\ Total(old.balance, NumEvmAddrs) \in Int /\ Held(old) \in Int
         /\ Total(new.balance, NumEvmAddrs)
              = Total(old.balance, NumEvmAddrs) - old.balance[a] + new.balance[a]
         /\ Held(new) = Held(old)
                          + (IF a \in EvmBridges THEN new.balance[a] - old.balance[a] ELSE 0)
<1> DEFINE oldHeld == [b \in EvmBridges |-> old.balance[b]]
           newHeld == [b \in EvmBridges |-> new.balance[b]]
<1>1. /\ old.balance \in [EvmAddrs -> Int] /\ new.balance \in [EvmAddrs -> Int]
      /\ NumEvmAddrs \in Nat /\ NumEvmBridges \in Nat
      /\ EvmAddrs = 1..NumEvmAddrs /\ EvmBridges = 1..NumEvmBridges
  BY EvmEscrowAssumption DEF Erc20Row, EvmAddrs, EvmBridges
<1>2. Weights(old.balance, NumEvmAddrs) /\ Weights(new.balance, NumEvmAddrs)
  BY <1>1 DEF Weights
<1>3. /\ Weights(oldHeld, NumEvmBridges) /\ Weights(newHeld, NumEvmBridges)
      /\ \A b \in EvmBridges : oldHeld[b] = old.balance[b] /\ newHeld[b] = new.balance[b]
  BY <1>1, BridgesAreAddresses DEF Weights
<1>4. Held(old) = Total(oldHeld, NumEvmBridges) /\ Held(new) = Total(newHeld, NumEvmBridges)
  BY DEF Held
<1> HIDE DEF oldHeld, newHeld
<1>5. Total(new.balance, NumEvmAddrs)
        = Total(old.balance, NumEvmAddrs) - old.balance[a] + new.balance[a]
  BY <1>1, <1>2, TotalChange
<1>6. CASE a \in EvmBridges
  <2>1. Total(newHeld, NumEvmBridges) = Total(oldHeld, NumEvmBridges) - oldHeld[a] + newHeld[a]
    BY <1>1, <1>3, <1>6, BridgesAreAddresses, TotalChange
  <2>2. Held(old) \in Int /\ oldHeld[a] \in Int /\ newHeld[a] \in Int
    BY <1>1, <1>3, <1>4, <1>6, TotalType DEF Weights
  <2> QED BY <1>1, <1>2, <1>3, <1>4, <1>5, <1>6, <2>1, <2>2, TotalType
<1>7. CASE a \notin EvmBridges
  <2>1. Total(newHeld, NumEvmBridges) = Total(oldHeld, NumEvmBridges)
    BY <1>1, <1>3, <1>7, BridgesAreAddresses, TotalAgree
  <2>2. Held(old) \in Int
    BY <1>1, <1>3, <1>4, TotalType
  <2> QED BY <1>1, <1>2, <1>4, <1>5, <1>7, <2>1, <2>2, TotalType
<1> QED BY <1>6, <1>7

(* A credit, a debit and a change of the supply, field by field. *)
LEMMA Erc20Fields ==
  ASSUME NEW row \in Erc20Row, NEW a \in EvmAddrs, NEW amount \in Int
  PROVE  /\ Credit(row, a, amount) \in Erc20Row
         /\ Credit(row, a, amount).supply = row.supply
         /\ \A x \in EvmAddrs : Credit(row, a, amount).balance[x]
                                  = row.balance[x] + (IF x = a THEN amount ELSE 0)
         /\ Debit(row, a, amount) \in Erc20Row
         /\ Debit(row, a, amount).supply = row.supply
         /\ \A x \in EvmAddrs : Debit(row, a, amount).balance[x]
                                  = row.balance[x] - (IF x = a THEN amount ELSE 0)
         /\ row.balance[a] \in Int /\ row.supply \in Int
<1>1. row.balance \in [EvmAddrs -> Int] /\ row.supply \in Int
  BY DEF Erc20Row
<1>2. \A x \in EvmAddrs : row.balance[x] \in Int
  BY <1>1
<1> QED BY <1>1, <1>2 DEF Credit, Debit, Erc20Row

(* Transfer, mint and burn keep the books, and what they do to the supply   *)
(* and to what the bridges hold.                                            *)
LEMMA MovedErc20 ==
  ASSUME NEW row, SoundErc20(row), NEW from \in EvmAddrs, NEW to \in EvmAddrs,
         NEW amount \in Nat, row.balance[from] >= amount,
         NEW new, new = MoveErc20(row, from, to, amount)
  PROVE  /\ SoundErc20(new) /\ new.supply = row.supply /\ Held(row) \in Int
         /\ Held(new) = Held(row) - (IF from \in EvmBridges THEN amount ELSE 0)
                                  + (IF to \in EvmBridges THEN amount ELSE 0)
<1> DEFINE mid == Debit(row, from, amount)
<1>1. row \in Erc20Row /\ \A a \in EvmAddrs : row.balance[a] \in Int /\ row.balance[a] >= 0
  BY DEF SoundErc20, Erc20Row
<1>2. /\ mid \in Erc20Row /\ mid.supply = row.supply
      /\ \A x \in EvmAddrs : mid.balance[x] = row.balance[x] - (IF x = from THEN amount ELSE 0)
  BY <1>1, Erc20Fields
<1>3. new = Credit(mid, to, amount)
  BY DEF MoveErc20
<1> HIDE DEF mid
<1>4. /\ new \in Erc20Row /\ new.supply = mid.supply
      /\ \A x \in EvmAddrs : new.balance[x] = mid.balance[x] + (IF x = to THEN amount ELSE 0)
  BY <1>2, <1>3, Erc20Fields
<1>5. /\ Total(row.balance, NumEvmAddrs) \in Int /\ Held(row) \in Int
      /\ Total(mid.balance, NumEvmAddrs) = Total(row.balance, NumEvmAddrs) - amount
      /\ Held(mid) = Held(row) - (IF from \in EvmBridges THEN amount ELSE 0)
  <2>1. \A x \in EvmAddrs : x # from => mid.balance[x] = row.balance[x]
    BY <1>1, <1>2
  <2>2. mid.balance[from] = row.balance[from] - amount
    BY <1>2
  <2> QED BY <1>1, <1>2, <2>1, <2>2, HeldChange
<1>6. /\ Total(new.balance, NumEvmAddrs) = Total(mid.balance, NumEvmAddrs) + amount
      /\ Held(new) = Held(mid) + (IF to \in EvmBridges THEN amount ELSE 0)
  <2>1. \A x \in EvmAddrs : mid.balance[x] \in Int
    BY <1>1, <1>2
  <2>2. \A x \in EvmAddrs : x # to => new.balance[x] = mid.balance[x]
    BY <1>4, <2>1
  <2>3. new.balance[to] = mid.balance[to] + amount /\ mid.balance[to] \in Int
    BY <1>4, <2>1
  <2> QED BY <1>2, <1>4, <2>2, <2>3, HeldChange
<1>7. \A a \in EvmAddrs : new.balance[a] >= 0
  BY <1>1, <1>2, <1>4
<1> QED BY <1>2, <1>4, <1>5, <1>6, <1>7 DEF SoundErc20

LEMMA MintedErc20 ==
  ASSUME NEW row, SoundErc20(row), NEW to \in EvmAddrs, NEW amount \in Nat,
         NEW new, new = MintErc20(row, to, amount)
  PROVE  SoundErc20(new) /\ new.supply = row.supply + amount /\ row.supply \in Int
<1> DEFINE mid == Credit(row, to, amount)
<1>1. row \in Erc20Row /\ \A a \in EvmAddrs : row.balance[a] \in Int /\ row.balance[a] >= 0
  BY DEF SoundErc20, Erc20Row
<1>2. /\ mid \in Erc20Row /\ mid.supply = row.supply /\ row.supply \in Int
      /\ \A x \in EvmAddrs : mid.balance[x] = row.balance[x] + (IF x = to THEN amount ELSE 0)
  BY <1>1, Erc20Fields
<1>3. new = [mid EXCEPT !.supply = @ + amount]
  BY DEF MintErc20
<1> HIDE DEF mid
<1>4. new \in Erc20Row /\ new.supply = row.supply + amount /\ new.balance = mid.balance
  BY <1>2, <1>3 DEF Erc20Row
<1>5. Total(mid.balance, NumEvmAddrs) = Total(row.balance, NumEvmAddrs) + amount
  <2>1. \A x \in EvmAddrs : x # to => mid.balance[x] = row.balance[x]
    BY <1>1, <1>2
  <2>2. mid.balance[to] = row.balance[to] + amount
    BY <1>2
  <2> QED BY <1>1, <1>2, <2>1, <2>2, HeldChange
<1>6. \A a \in EvmAddrs : new.balance[a] >= 0
  BY <1>1, <1>2, <1>4
<1> QED BY <1>2, <1>4, <1>5, <1>6 DEF SoundErc20

LEMMA BurnedErc20 ==
  ASSUME NEW row, SoundErc20(row), NEW owner \in EvmAddrs, NEW amount \in Nat,
         row.balance[owner] >= amount, NEW new, new = BurnErc20(row, owner, amount)
  PROVE  SoundErc20(new) /\ new.supply = row.supply - amount /\ row.supply \in Int
<1> DEFINE mid == Debit(row, owner, amount)
<1>1. row \in Erc20Row /\ \A a \in EvmAddrs : row.balance[a] \in Int /\ row.balance[a] >= 0
  BY DEF SoundErc20, Erc20Row
<1>2. /\ mid \in Erc20Row /\ mid.supply = row.supply /\ row.supply \in Int
      /\ \A x \in EvmAddrs : mid.balance[x] = row.balance[x] - (IF x = owner THEN amount ELSE 0)
  BY <1>1, Erc20Fields
<1>3. new = [mid EXCEPT !.supply = @ - amount]
  BY DEF BurnErc20
<1> HIDE DEF mid
<1>4. new \in Erc20Row /\ new.supply = row.supply - amount /\ new.balance = mid.balance
  BY <1>2, <1>3 DEF Erc20Row
<1>5. Total(mid.balance, NumEvmAddrs) = Total(row.balance, NumEvmAddrs) - amount
  <2>1. \A x \in EvmAddrs : x # owner => mid.balance[x] = row.balance[x]
    BY <1>1, <1>2
  <2>2. mid.balance[owner] = row.balance[owner] - amount
    BY <1>2
  <2> QED BY <1>1, <1>2, <2>1, <2>2, HeldChange
<1>6. \A a \in EvmAddrs : new.balance[a] >= 0
  BY <1>1, <1>2, <1>4
<1> QED BY <1>2, <1>4, <1>5, <1>6 DEF SoundErc20

(* Taking in for a mint-burn pair: the tokens move and are burned there.    *)
LEMMA MovedAndBurned ==
  ASSUME NEW row, SoundErc20(row), NEW from \in EvmAddrs, NEW to \in EvmAddrs,
         NEW amount \in Nat, row.balance[from] >= amount,
         NEW new, new = BurnErc20(MoveErc20(row, from, to, amount), to, amount)
  PROVE  SoundErc20(new) /\ new.supply = row.supply - amount /\ row.supply \in Int
<1> DEFINE mid == MoveErc20(row, from, to, amount)
<1>1. SoundErc20(mid) /\ mid.supply = row.supply
  BY MovedErc20
<1>2. mid.balance[to] >= amount
  <2>1. row \in Erc20Row /\ \A a \in EvmAddrs : row.balance[a] \in Int /\ row.balance[a] >= 0
    BY DEF SoundErc20, Erc20Row
  <2>2. Debit(row, from, amount) \in Erc20Row
    BY <2>1, Erc20Fields
  <2>3. mid.balance[to] = Debit(row, from, amount).balance[to] + amount
    BY <2>2, Erc20Fields DEF MoveErc20
  <2>4. Debit(row, from, amount).balance[to] = row.balance[to] - (IF to = from THEN amount ELSE 0)
    BY <2>1, Erc20Fields
  <2> QED BY <2>1, <2>3, <2>4
<1> HIDE DEF mid
<1>3. new = BurnErc20(mid, to, amount)
  BY DEF mid
<1> QED BY <1>1, <1>2, <1>3, BurnedErc20
-----------------------------------------------------------------------------
(* The two logs: one more row adds its amount to the sums it belongs to.    *)
LEMMA RequestAdded ==
  ASSUME EvmTypeOK, NEW row \in RequestRow, requests' = Append(requests, row)
  PROVE  /\ Len(requests) \in Nat /\ DOMAIN requests = 1..Len(requests)
         /\ DOMAIN requests' = 1..Len(requests) + 1
         /\ requests'[Len(requests) + 1] = row
         /\ \A h \in DOMAIN requests : requests'[h] = requests[h]
         /\ \A p : DepositsOf(p)' = DepositsOf(p) + (IF row.pair = p THEN row.amount ELSE 0)
         /\ \A b, p, d : DepositedOn(b, p, d)' = DepositedOn(b, p, d)
              + (IF row.bridge = b /\ row.pair = p /\ row.createdAt \div DAY = d
                 THEN row.amount ELSE 0)
<1> DEFINE n == Len(requests)
<1>1. /\ n \in Nat /\ DOMAIN requests = 1..n
      /\ Len(requests') = n + 1 /\ DOMAIN requests' = 1..(n+1)
      /\ requests'[n+1] = row
      /\ \A h \in 1..n : requests'[h] = requests[h] /\ requests[h] \in RequestRow
  BY AppendProperties, LenProperties DEF EvmTypeOK
<1>2. row.amount \in Int /\ \A h \in 1..n : requests[h].amount \in Int
  BY <1>1 DEF RequestRow
<1> HIDE DEF n
<1>3. ASSUME NEW p
      PROVE  DepositsOf(p)' = DepositsOf(p) + (IF row.pair = p THEN row.amount ELSE 0)
  <2> DEFINE w == [h \in 1..n |-> IF requests[h].pair = p THEN requests[h].amount ELSE 0]
             v == [h \in 1..(n+1) |-> IF requests'[h].pair = p THEN requests'[h].amount ELSE 0]
  <2>1. DepositsOf(p) = Total(w, n) /\ DepositsOf(p)' = Total(v, n+1)
    BY <1>1 DEF DepositsOf, n
  <2>2. Weights(w, n) /\ \A h \in 1..n : v[h] = w[h]
    BY <1>1, <1>2 DEF Weights
  <2>3. v[n+1] = (IF row.pair = p THEN row.amount ELSE 0) /\ v[n+1] \in Int
    BY <1>1, <1>2
  <2> HIDE DEF w, v
  <2> QED BY <1>1, <2>1, <2>2, <2>3, TotalAppend, SMTT(30)
<1>4. ASSUME NEW b, NEW p, NEW d
      PROVE  DepositedOn(b, p, d)' = DepositedOn(b, p, d)
               + (IF row.bridge = b /\ row.pair = p /\ row.createdAt \div DAY = d
                  THEN row.amount ELSE 0)
  <2> DEFINE In(r) == r.bridge = b /\ r.pair = p /\ r.createdAt \div DAY = d
             w == [h \in 1..n |-> IF In(requests[h]) THEN requests[h].amount ELSE 0]
             v == [h \in 1..(n+1) |-> IF In(requests'[h]) THEN requests'[h].amount ELSE 0]
  <2>1. DepositedOn(b, p, d) = Total(w, n) /\ DepositedOn(b, p, d)' = Total(v, n+1)
    BY <1>1 DEF DepositedOn, n
  <2>2. Weights(w, n) /\ \A h \in 1..n : v[h] = w[h]
    BY <1>1, <1>2 DEF Weights
  <2>3. v[n+1] = (IF In(row) THEN row.amount ELSE 0) /\ v[n+1] \in Int
    BY <1>1, <1>2
  <2> HIDE DEF w, v
  <2>4. Total(v, n+1) = Total(w, n) + v[n+1]
    BY <1>1, <2>2, <2>3, TotalAppend
  <2> QED BY <2>1, <2>3, <2>4
<1> QED BY <1>1, <1>3, <1>4 DEF n

LEMMA EventAdded ==
  ASSUME EvmTypeOK, NEW row \in ReleaseRow, released' = Append(released, row)
  PROVE  /\ Len(released) \in Nat /\ DOMAIN released = 1..Len(released)
         /\ DOMAIN released' = 1..Len(released) + 1
         /\ released'[Len(released) + 1] = row
         /\ \A e \in DOMAIN released : released'[e] = released[e]
         /\ \A p : ReleasesOf(p)' = ReleasesOf(p) + (IF row.pair = p THEN row.amount ELSE 0)
<1> DEFINE n == Len(released)
<1>1. /\ n \in Nat /\ DOMAIN released = 1..n
      /\ Len(released') = n + 1 /\ DOMAIN released' = 1..(n+1)
      /\ released'[n+1] = row
      /\ \A e \in 1..n : released'[e] = released[e] /\ released[e] \in ReleaseRow
  BY AppendProperties, LenProperties DEF EvmTypeOK
<1>2. row.amount \in Int /\ \A e \in 1..n : released[e].amount \in Int
  BY <1>1 DEF ReleaseRow
<1> HIDE DEF n
<1>3. ASSUME NEW p
      PROVE  ReleasesOf(p)' = ReleasesOf(p) + (IF row.pair = p THEN row.amount ELSE 0)
  <2> DEFINE w == [e \in 1..n |-> IF released[e].pair = p THEN released[e].amount ELSE 0]
             v == [e \in 1..(n+1) |-> IF released'[e].pair = p THEN released'[e].amount ELSE 0]
  <2>1. ReleasesOf(p) = Total(w, n) /\ ReleasesOf(p)' = Total(v, n+1)
    BY <1>1 DEF ReleasesOf, n
  <2>2. Weights(w, n) /\ \A e \in 1..n : v[e] = w[e]
    BY <1>1, <1>2 DEF Weights
  <2>3. v[n+1] = (IF row.pair = p THEN row.amount ELSE 0) /\ v[n+1] \in Int
    BY <1>1, <1>2
  <2> HIDE DEF w, v
  <2> QED BY <1>1, <2>1, <2>2, <2>3, TotalAppend, SMTT(30)
<1> QED BY <1>1, <1>3 DEF n

(* The sums are natural numbers, and zero for a pair no row names.          *)
LEMMA LogTotals ==
  ASSUME EvmTypeOK, NEW p
  PROVE  /\ DepositsOf(p) \in Nat /\ ReleasesOf(p) \in Nat
         /\ (\A h \in DOMAIN requests : requests[h].pair # p) => DepositsOf(p) = 0
         /\ (\A e \in DOMAIN released : released[e].pair # p) => ReleasesOf(p) = 0
<1> DEFINE w == [h \in DOMAIN requests |-> IF requests[h].pair = p THEN requests[h].amount ELSE 0]
           v == [e \in DOMAIN released |-> IF released[e].pair = p THEN released[e].amount ELSE 0]
<1>1. /\ Len(requests) \in Nat /\ DOMAIN requests = 1..Len(requests)
      /\ Len(released) \in Nat /\ DOMAIN released = 1..Len(released)
      /\ \A h \in DOMAIN requests : requests[h].amount \in Nat
      /\ \A e \in DOMAIN released : released[e].amount \in Nat
  <2>1. /\ Len(requests) \in Nat /\ DOMAIN requests = 1..Len(requests)
        /\ Len(released) \in Nat /\ DOMAIN released = 1..Len(released)
        /\ \A h \in DOMAIN requests : requests[h] \in RequestRow
        /\ \A e \in DOMAIN released : released[e] \in ReleaseRow
    BY LenProperties DEF EvmTypeOK
  <2> QED BY <2>1 DEF RequestRow, ReleaseRow
<1>2. /\ \A h \in 1..Len(requests) : w[h] \in Nat
      /\ \A e \in 1..Len(released) : v[e] \in Nat
      /\ (\A h \in DOMAIN requests : requests[h].pair # p) => \A h \in 1..Len(requests) : w[h] = 0
      /\ (\A e \in DOMAIN released : released[e].pair # p) => \A e \in 1..Len(released) : v[e] = 0
  BY <1>1
<1>3. DepositsOf(p) = Total(w, Len(requests)) /\ ReleasesOf(p) = Total(v, Len(released))
  BY DEF DepositsOf, ReleasesOf
<1> HIDE DEF w, v
<1> QED BY <1>1, <1>2, <1>3, TotalBounds, TotalOfZeros
-----------------------------------------------------------------------------
(* The invariant behind EvmSideCoversLogs.  Escrow balances alone are not   *)
(* inductive: a pair that is registered later starts with what its token's  *)
(* holders did before, so that no log may speak of it yet, no balance may   *)
(* be negative and nothing may have been minted for it; and a deposit for   *)
(* one pair leaves the side of another alone only because no token has two. *)
MintedByPair(t) == \E p \in DOMAIN registry : registry[p].token = t /\ registry[p].mintBurn

OnlyPairsMint ==
  \A t \in EvmTokens : ~MintedByPair(t) => erc20[t].supply = InitialErc20Supply(t)
OnePairPerToken ==
  \A p, q \in DOMAIN registry : registry[p].token = registry[q].token => p = q
LogsNamePairs ==
  /\ \A h \in DOMAIN requests : requests[h].pair \in DOMAIN registry
  /\ \A e \in DOMAIN released : released[e].pair \in DOMAIN registry

EvmLedger ==
  /\ EvmTypeOK
  /\ \A t \in EvmTokens : SoundErc20(erc20[t])
  /\ OnlyPairsMint
  /\ OnePairPerToken
  /\ LogsNamePairs
  /\ EvmSideCoversLogs

LEMMA InitialErc20Type ==
  ASSUME NEW t \in EvmTokens
  PROVE  /\ InitialErc20[t] \in [EvmAddrs -> Nat]
         /\ InitialErc20Supply(t) \in Nat
<1>1. InitialErc20[t] \in [EvmAddrs -> Nat] /\ NumEvmAddrs \in Nat
  BY EvmEscrowAssumption
<1>2. \A a \in 1..NumEvmAddrs : InitialErc20[t][a] \in Nat
  BY <1>1 DEF EvmAddrs
<1> QED BY <1>1, <1>2, TotalBounds DEF InitialErc20Supply

LEMMA EvmLedgerInit == ASSUME EvmInit PROVE EvmLedger
<1>1. EvmTypeOK
  BY EvmInitTypeOK
<1>2. ASSUME NEW t \in EvmTokens
      PROVE  SoundErc20(erc20[t]) /\ erc20[t].supply = InitialErc20Supply(t)
  <2>1. erc20[t].balance = InitialErc20[t] /\ erc20[t].supply = InitialErc20Supply(t)
    BY DEF EvmInit
  <2>2. erc20[t] \in Erc20Row
    BY <1>1 DEF EvmTypeOK
  <2>3. \A a \in EvmAddrs : erc20[t].balance[a] >= 0
    BY <2>1, InitialErc20Type
  <2> QED BY <2>1, <2>2, <2>3 DEF SoundErc20, InitialErc20Supply
<1>3. DOMAIN registry = {} /\ DOMAIN requests = {} /\ DOMAIN released = {}
  BY DEF EvmInit
<1> QED BY <1>1, <1>2, <1>3
        DEF EvmLedger, OnlyPairsMint, OnePairPerToken, LogsNamePairs, EvmSideCoversLogs

(* What every proof about the ledger reads off a registered pair.           *)
LEMMA PairFacts ==
  ASSUME EvmTypeOK, NEW p \in DOMAIN registry
  PROVE  /\ p \in Nat /\ p \in PairIds
         /\ registry[p] \in PairRow
         /\ registry[p].token \in EvmTokens /\ registry[p].mintBurn \in BOOLEAN
         /\ registry[p].limits \in Limits
<1>1. p \in 1..Len(registry) /\ registry[p] \in PairRow /\ Len(registry) \in Nat
  BY LenProperties DEF EvmTypeOK
<1>2. Len(registry) <= MaxPairs /\ MaxPairs \in Nat
  BY EvmEscrowAssumption DEF EvmTypeOK
<1> QED BY <1>1, <1>2 DEF PairRow, PairIds

LEMMA SideType ==
  ASSUME EvmLedger, NEW p \in DOMAIN registry
  PROVE  EvmSide(p) \in Int /\ erc20[registry[p].token].supply \in Int
<1>1. registry[p].token \in EvmTokens
  BY PairFacts DEF EvmLedger
<1>2. SoundErc20(erc20[registry[p].token]) /\ InitialErc20Supply(registry[p].token) \in Nat
  BY <1>1, InitialErc20Type DEF EvmLedger
<1>3. erc20[registry[p].token].supply \in Int
  BY <1>2 DEF SoundErc20, Erc20Row
<1>4. Held(erc20[registry[p].token]) \in Int
  <2> DEFINE held == [b \in EvmBridges |-> erc20[registry[p].token].balance[b]]
  <2>1. Weights(held, NumEvmBridges) /\ NumEvmBridges \in Nat
    BY <1>2, BridgesAreAddresses, EvmEscrowAssumption DEF SoundErc20, Erc20Row, Weights, EvmBridges
  <2> QED BY <2>1, TotalType DEF Held
<1> QED BY <1>2, <1>3, <1>4 DEF EvmSide, Escrowed

(* A step that touches one token, keeps every pair's token, and changes no  *)
(* pair's side by less than its logs.                                       *)
LEMMA LedgerStep ==
  ASSUME EvmLedger, EvmTypeOK', LogsNamePairs',
         DOMAIN registry' = DOMAIN registry,
         \A p \in DOMAIN registry : /\ registry'[p].token = registry[p].token
                                    /\ registry'[p].mintBurn = registry[p].mintBurn,
         \A t \in EvmTokens :
           /\ SoundErc20(erc20'[t])
           /\ erc20'[t].supply = erc20[t].supply \/ MintedByPair(t),
         \A p \in DOMAIN registry :
           \E gain \in Int, deposit \in Nat, release \in Nat :
             /\ gain >= deposit - release
             /\ EvmSide(p)' = EvmSide(p) + gain
             /\ DepositsOf(p)' = DepositsOf(p) + deposit
             /\ ReleasesOf(p)' = ReleasesOf(p) + release
  PROVE  EvmLedger'
<1>1. OnlyPairsMint'
  BY DEF EvmLedger, OnlyPairsMint, MintedByPair
<1>2. OnePairPerToken'
  BY DEF EvmLedger, OnePairPerToken
<1>3. EvmSideCoversLogs'
  <2> SUFFICES ASSUME NEW p \in DOMAIN registry
               PROVE  EvmSide(p)' >= DepositsOf(p)' - ReleasesOf(p)'
    BY DEF EvmSideCoversLogs
  <2>1. /\ EvmSide(p) >= DepositsOf(p) - ReleasesOf(p)
        /\ EvmSide(p) \in Int /\ DepositsOf(p) \in Nat /\ ReleasesOf(p) \in Nat
    BY SideType, LogTotals DEF EvmLedger, EvmSideCoversLogs
  <2> QED BY <2>1
<1> QED BY <1>1, <1>2, <1>3 DEF EvmLedger

(* What happens to a pair's side, read off its token.                       *)
LEMMA SideAfter ==
  ASSUME NEW p \in DOMAIN registry, p \in DOMAIN registry',
         registry'[p].token = registry[p].token, registry'[p].mintBurn = registry[p].mintBurn
  PROVE  EvmSide(p)' = IF registry[p].mintBurn
                       THEN InitialErc20Supply(registry[p].token) - erc20'[registry[p].token].supply
                       ELSE Held(erc20'[registry[p].token])
BY DEF EvmSide, Escrowed

(* Settings: limits, pauses, the bridge of a token, the clock.              *)
LEMMA LedgerQuiet ==
  ASSUME EvmLedger, EvmTypeOK', UNCHANGED <<requests, released>>,
         DOMAIN registry' = DOMAIN registry,
         \A p \in DOMAIN registry : /\ registry'[p].token = registry[p].token
                                    /\ registry'[p].mintBurn = registry[p].mintBurn,
         \A t \in EvmTokens : /\ erc20'[t].balance = erc20[t].balance
                              /\ erc20'[t].supply = erc20[t].supply
  PROVE  EvmLedger'
<1>1. LogsNamePairs'
  BY DEF EvmLedger, LogsNamePairs
<1>2. \A t \in EvmTokens : SoundErc20(erc20'[t])
  BY DEF EvmLedger, SoundErc20, EvmTypeOK
<1>3. ASSUME NEW p \in DOMAIN registry
      PROVE  \E gain \in Int, deposit \in Nat, release \in Nat :
               /\ gain >= deposit - release
               /\ EvmSide(p)' = EvmSide(p) + gain
               /\ DepositsOf(p)' = DepositsOf(p) + deposit
               /\ ReleasesOf(p)' = ReleasesOf(p) + release
  <2>1. registry[p].token \in EvmTokens
    BY PairFacts DEF EvmLedger
  <2>2. EvmSide(p)' = EvmSide(p)
    BY <2>1, SideAfter DEF EvmSide, Escrowed, Held
  <2>3. DepositsOf(p)' = DepositsOf(p) /\ ReleasesOf(p)' = ReleasesOf(p)
    BY DEF DepositsOf, ReleasesOf
  <2>4. EvmSide(p) \in Int /\ DepositsOf(p) \in Nat /\ ReleasesOf(p) \in Nat
    BY SideType, LogTotals DEF EvmLedger
  <2>5. 0 \in Int /\ 0 \in Nat /\ 0 >= 0 - 0
    OBVIOUS
  <2>6. /\ EvmSide(p)' = EvmSide(p) + 0 /\ DepositsOf(p)' = DepositsOf(p) + 0
        /\ ReleasesOf(p)' = ReleasesOf(p) + 0
    BY <2>2, <2>3, <2>4
  <2> QED BY <2>5, <2>6
<1> QED BY <1>1, <1>2, <1>3, LedgerStep

(* A new pair finds its token's balances at zero or above and its supply    *)
(* where it started.                                                        *)
LEMMA LedgerRegister ==
  ASSUME EvmLedger, EvmTypeOK', NEW in \in RegistryInputs, RegisterPair(in)
  PROVE  EvmLedger'
<1> DEFINE n == Len(registry) + 1
           row == [token |-> in.token, mintBurn |-> in.mintBurn, active |-> TRUE,
                   limits |-> in.limits]
<1>1. row \in PairRow /\ registry' = Append(registry, row)
  BY EvmEscrowAssumption DEF PairRow, RegisterPair
<1>2. row.token = in.token /\ row.mintBurn = in.mintBurn /\ in.token \in EvmTokens
      /\ in.mintBurn \in BOOLEAN
  BY EvmEscrowAssumption
<1> HIDE DEF row
<1>3. /\ DOMAIN registry = 1..Len(registry) /\ Len(registry) \in Nat
      /\ DOMAIN registry' = DOMAIN registry \cup {n} /\ registry'[n] = row
      /\ \A p \in DOMAIN registry : registry'[p] = registry[p] /\ p # n
  BY <1>1, AppendProperties, LenProperties DEF EvmLedger, EvmTypeOK
<1> HIDE DEF n
<1>4. \A p \in DOMAIN registry : registry[p].token # in.token
  BY DEF RegisterPair
<1>5. UNCHANGED <<requests, released, erc20>>
  BY DEF RegisterPair
<1>6. OnlyPairsMint'
  BY <1>3, <1>5 DEF EvmLedger, OnlyPairsMint, MintedByPair
<1>7. OnePairPerToken'
  BY <1>2, <1>3, <1>4 DEF EvmLedger, OnePairPerToken
<1>8. LogsNamePairs'
  BY <1>3, <1>5 DEF EvmLedger, LogsNamePairs
<1>9. \A p : DepositsOf(p)' = DepositsOf(p) /\ ReleasesOf(p)' = ReleasesOf(p)
  BY <1>5 DEF DepositsOf, ReleasesOf
<1>10. EvmSideCoversLogs'
  <2> SUFFICES ASSUME NEW p \in DOMAIN registry'
               PROVE  EvmSide(p)' >= DepositsOf(p) - ReleasesOf(p)
    BY <1>9 DEF EvmSideCoversLogs
  <2>1. CASE p \in DOMAIN registry
    <3>1. EvmSide(p)' = EvmSide(p)
      BY <1>3, <1>5, <2>1 DEF EvmSide, Escrowed
    <3> QED BY <2>1, <3>1 DEF EvmLedger, EvmSideCoversLogs
  <2>2. CASE p = n
    <3>1. DepositsOf(p) = 0 /\ ReleasesOf(p) = 0
      BY <1>3, <2>2, LogTotals DEF EvmLedger, LogsNamePairs
    <3>2. ~MintedByPair(in.token)
      BY <1>4 DEF MintedByPair
    <3>3. /\ SoundErc20(erc20[in.token]) /\ InitialErc20Supply(in.token) \in Nat
          /\ erc20[in.token].supply = InitialErc20Supply(in.token)
      BY <1>2, <3>2, InitialErc20Type DEF EvmLedger, OnlyPairsMint
    <3>4. Held(erc20[in.token]) \in Nat
      <4> DEFINE held == [b \in EvmBridges |-> erc20[in.token].balance[b]]
      <4>1. NumEvmBridges \in Nat /\ \A b \in 1..NumEvmBridges : held[b] \in Nat
        BY <3>3, BridgesAreAddresses, EvmEscrowAssumption DEF SoundErc20, Erc20Row, EvmBridges
      <4> HIDE DEF held
      <4>2. Total(held, NumEvmBridges) \in Nat
        BY <4>1, TotalBounds
      <4> QED BY <4>2 DEF Held, held
    <3>5. EvmSide(p)' = IF in.mintBurn THEN InitialErc20Supply(in.token) - erc20[in.token].supply
                                       ELSE Held(erc20[in.token])
      BY <1>2, <1>3, <1>5, <2>2 DEF EvmSide, Escrowed
    <3> QED BY <3>1, <3>3, <3>4, <3>5
  <2> QED BY <1>3, <2>1, <2>2
<1> QED BY <1>5, <1>6, <1>7, <1>8, <1>10 DEF EvmLedger

(* A step on the token of one pair: the other pairs keep their side.        *)
LEMMA OthersKeepSide ==
  ASSUME EvmLedger, UNCHANGED registry, NEW p \in DOMAIN registry,
         erc20'[registry[p].token] = erc20[registry[p].token]
  PROVE  EvmSide(p)' = EvmSide(p) + 0
<1>1. EvmSide(p) \in Int
  BY SideType
<1>2. EvmSide(p)' = EvmSide(p)
  BY DEF EvmSide, Escrowed
<1> QED BY <1>1, <1>2

LEMMA LedgerDeposit ==
  ASSUME EvmLedger, EvmTypeOK', NEW b \in EvmBridges, NEW p \in PairIds,
         NEW sender \in EvmUsers, NEW amount \in Amounts, NEW receiver \in ZeroReceivers,
         DepositToZero(b, p, sender, amount, receiver)
  PROVE  EvmLedger'
<1> DEFINE t == registry[p].token
           stored == StoredRequest(b, p, sender, amount, receiver)
           new == erc20'[t]
<1>1. /\ p \in DOMAIN registry /\ t \in EvmTokens /\ registry[p].mintBurn \in BOOLEAN
      /\ amount \in Nat /\ sender \in EvmAddrs /\ sender \notin EvmBridges
      /\ b \in EvmAddrs
      /\ SoundErc20(erc20[t]) /\ erc20[t].balance[sender] >= amount
  <2>1. p \in DOMAIN registry /\ erc20[t].balance[sender] >= amount
    BY DEF DepositToZero, ActivePair, HasErc20
  <2>2. t \in EvmTokens /\ registry[p].mintBurn \in BOOLEAN
    BY <2>1, PairFacts DEF EvmLedger
  <2>3. amount \in Nat /\ sender \in EvmAddrs /\ sender \notin EvmBridges /\ b \in EvmAddrs
    BY EvmEscrowAssumption, BridgesAreAddresses DEF EvmUsers
  <2> QED BY <2>1, <2>2, <2>3 DEF EvmLedger
<1>2. /\ UNCHANGED registry
      /\ erc20' = [erc20 EXCEPT ![t] = new]
      /\ IF registry[p].mintBurn
         THEN new = BurnErc20(MoveErc20(erc20[t], sender, b, amount), b, amount)
         ELSE new = MoveErc20(erc20[t], sender, b, amount)
  BY <1>1 DEF DepositToZero, TakenIn, EvmLedger, EvmTypeOK
<1>3. /\ SoundErc20(new)
      /\ IF registry[p].mintBurn
         THEN new.supply = erc20[t].supply - amount /\ erc20[t].supply \in Int
         ELSE /\ new.supply = erc20[t].supply
              /\ Held(new) = Held(erc20[t]) + amount /\ Held(erc20[t]) \in Int
  <2> HIDE DEF new, t
  <2>1. CASE registry[p].mintBurn
    BY <1>1, <1>2, <2>1, MovedAndBurned
  <2>2. CASE ~registry[p].mintBurn
    BY <1>1, <1>2, <2>2, MovedErc20
  <2> QED BY <1>1, <2>1, <2>2
<1>4. stored \in RequestRow /\ stored.pair = p /\ stored.amount = amount
  BY <1>1 DEF StoredRequest, RequestRow, PairIds, EvmLedger, EvmTypeOK
<1>5. requests' = Append(requests, stored) /\ UNCHANGED released
  BY DEF DepositToZero
<1> HIDE DEF stored
<1>6. /\ \A q : DepositsOf(q)' = DepositsOf(q) + (IF q = p THEN amount ELSE 0)
      /\ \A q : ReleasesOf(q)' = ReleasesOf(q)
      /\ LogsNamePairs'
  <2>1. \A q : DepositsOf(q)' = DepositsOf(q) + (IF q = p THEN amount ELSE 0)
    BY <1>4, <1>5, RequestAdded DEF EvmLedger
  <2>2. \A q : ReleasesOf(q)' = ReleasesOf(q)
    BY <1>5 DEF ReleasesOf
  <2>3. \A h \in DOMAIN requests' : requests'[h].pair \in DOMAIN registry
    BY <1>1, <1>4, <1>5, RequestAdded DEF EvmLedger, LogsNamePairs
  <2> QED BY <1>2, <1>5, <2>1, <2>2, <2>3 DEF EvmLedger, LogsNamePairs
<1> HIDE DEF new
<1>7. /\ \A u \in EvmTokens : erc20'[u] = IF u = t THEN new ELSE erc20[u]
      /\ \A u \in EvmTokens : /\ SoundErc20(erc20'[u])
                              /\ erc20'[u].supply = erc20[u].supply \/ MintedByPair(u)
  <2>1. \A u \in EvmTokens : erc20'[u] = IF u = t THEN new ELSE erc20[u]
    BY <1>1, <1>2 DEF EvmLedger, EvmTypeOK
  <2>2. registry[p].mintBurn => MintedByPair(t)
    BY <1>1 DEF MintedByPair
  <2> QED BY <1>1, <1>3, <2>1, <2>2 DEF EvmLedger
<1>8. ASSUME NEW q \in DOMAIN registry
      PROVE  \E gain \in Int, deposit \in Nat, release \in Nat :
               /\ gain >= deposit - release
               /\ EvmSide(q)' = EvmSide(q) + gain
               /\ DepositsOf(q)' = DepositsOf(q) + deposit
               /\ ReleasesOf(q)' = ReleasesOf(q) + release
  <2>1. EvmSide(q) \in Int /\ DepositsOf(q) \in Nat /\ ReleasesOf(q) \in Nat
    BY SideType, LogTotals DEF EvmLedger
  <2>2. CASE q # p
    <3>1. erc20'[registry[q].token] = erc20[registry[q].token]
      BY <1>1, <1>7, <2>2, PairFacts DEF EvmLedger, OnePairPerToken
    <3>2. EvmSide(q)' = EvmSide(q) + 0
      BY <1>2, <3>1, OthersKeepSide
    <3>3. DepositsOf(q)' = DepositsOf(q) + 0 /\ ReleasesOf(q)' = ReleasesOf(q) + 0
      BY <1>6, <2>1, <2>2
    <3>4. 0 \in Int /\ 0 \in Nat /\ 0 >= 0 - 0
      OBVIOUS
    <3> QED BY <3>2, <3>3, <3>4
  <2>3. CASE q = p
    <3>1. EvmSide(q)' = EvmSide(q) + amount
      <4>1. new = erc20'[t]
        BY DEF new
      <4>2. EvmSide(q)' = IF registry[q].mintBurn THEN InitialErc20Supply(t) - new.supply
                                                  ELSE Held(new)
        BY <1>2, <2>3, <4>1, SideAfter
      <4>3. EvmSide(q) = IF registry[q].mintBurn THEN InitialErc20Supply(t) - erc20[t].supply
                                                 ELSE Held(erc20[t])
        BY <2>3 DEF EvmSide, Escrowed
      <4>4. InitialErc20Supply(t) \in Int
        BY <1>1, InitialErc20Type
      <4> HIDE DEF t
      <4> QED BY <1>1, <1>3, <2>3, <4>2, <4>3, <4>4
    <3>2. DepositsOf(q)' = DepositsOf(q) + amount /\ ReleasesOf(q)' = ReleasesOf(q) + 0
      BY <1>6, <2>1, <2>3
    <3>3. amount \in Int /\ amount >= amount - 0 /\ 0 \in Nat
      BY <1>1
    <3> QED BY <1>1, <3>1, <3>2, <3>3
  <2> QED BY <2>2, <2>3
<1>9. \A q \in DOMAIN registry : registry'[q] = registry[q] /\ DOMAIN registry' = DOMAIN registry
  BY <1>2
<1> QED BY <1>2, <1>6, <1>7, <1>8, LedgerStep

(* A gift can only add to what the bridges hold.                            *)
LEMMA LedgerSend ==
  ASSUME EvmLedger, EvmTypeOK', NEW t \in EvmTokens, NEW from \in EvmUsers,
         NEW to \in EvmAddrs, NEW amount \in Amounts, SendErc20(t, from, to, amount)
  PROVE  EvmLedger'
<1>1. /\ amount \in Nat /\ from \in EvmAddrs /\ from \notin EvmBridges
      /\ SoundErc20(erc20[t]) /\ erc20[t].balance[from] >= amount
  BY EvmEscrowAssumption DEF EvmUsers, SendErc20, HasErc20, EvmLedger
<1>2. /\ erc20'[t] = MoveErc20(erc20[t], from, to, amount)
      /\ \A u \in EvmTokens : u # t => erc20'[u] = erc20[u]
      /\ UNCHANGED <<registry, requests, released>>
  BY DEF SendErc20, EvmLedger, EvmTypeOK
<1>3. /\ SoundErc20(erc20'[t]) /\ erc20'[t].supply = erc20[t].supply /\ Held(erc20[t]) \in Int
      /\ Held(erc20'[t]) = Held(erc20[t]) + (IF to \in EvmBridges THEN amount ELSE 0)
  BY <1>1, <1>2, MovedErc20
<1>4. \A u \in EvmTokens : SoundErc20(erc20'[u]) /\ erc20'[u].supply = erc20[u].supply
  BY <1>2, <1>3 DEF EvmLedger
<1>5. ASSUME NEW q \in DOMAIN registry
      PROVE  \E gain \in Int, deposit \in Nat, release \in Nat :
               /\ gain >= deposit - release
               /\ EvmSide(q)' = EvmSide(q) + gain
               /\ DepositsOf(q)' = DepositsOf(q) + deposit
               /\ ReleasesOf(q)' = ReleasesOf(q) + release
  <2>1. EvmSide(q) \in Int /\ DepositsOf(q) \in Nat /\ ReleasesOf(q) \in Nat
    BY SideType, LogTotals DEF EvmLedger
  <2>2. DepositsOf(q)' = DepositsOf(q) + 0 /\ ReleasesOf(q)' = ReleasesOf(q) + 0
    BY <1>2, <2>1 DEF DepositsOf, ReleasesOf
  <2>3. registry[q].token \in EvmTokens
    BY PairFacts DEF EvmLedger
  <2> DEFINE gain == IF registry[q].token = t /\ ~registry[q].mintBurn /\ to \in EvmBridges
                     THEN amount ELSE 0
  <2>4. EvmSide(q)' = EvmSide(q) + gain
    <3>1. EvmSide(q)' = IF registry[q].mintBurn
                        THEN InitialErc20Supply(registry[q].token) - erc20'[registry[q].token].supply
                        ELSE Held(erc20'[registry[q].token])
      BY <1>2, SideAfter
    <3>2. EvmSide(q) = IF registry[q].mintBurn
                       THEN InitialErc20Supply(registry[q].token) - erc20[registry[q].token].supply
                       ELSE Held(erc20[registry[q].token])
      BY DEF EvmSide, Escrowed
    <3>3. CASE registry[q].mintBurn
      BY <1>4, <2>1, <2>3, <3>1, <3>2, <3>3
    <3>4. CASE ~registry[q].mintBurn
      BY <1>1, <1>2, <1>3, <2>1, <2>3, <3>1, <3>2, <3>4
    <3> QED BY <3>3, <3>4
  <2>5. gain \in Int /\ gain >= 0 - 0 /\ 0 \in Nat
    BY <1>1
  <2> HIDE DEF gain
  <2> QED BY <2>2, <2>4, <2>5
<1>6. LogsNamePairs'
  BY <1>2 DEF EvmLedger, LogsNamePairs
<1> QED BY <1>2, <1>4, <1>5, <1>6, LedgerStep

LEMMA LedgerRelease ==
  ASSUME EvmLedger, NEW b \in EvmBridges, NEW sender, NEW p, NEW amount,
         NEW receiver \in EvmAddrs \cup {ZeroAddress}, NEW burn \in Nat,
         ReleaseToEvm(b, sender, p, amount, receiver, burn)
  PROVE  EvmLedger'
<1> DEFINE t == registry[p].token
           event == [bridge |-> b, burn |-> burn, pair |-> p, receiver |-> receiver,
                     amount |-> amount]
           new == erc20'[t]
<1>0. EvmTypeOK'
  BY ReleaseTypeOK DEF EvmLedger
<1>1. /\ p \in DOMAIN registry /\ t \in EvmTokens /\ registry[p].mintBurn \in BOOLEAN
      /\ p \in Nat /\ amount \in Nat /\ receiver \in EvmAddrs /\ b \in EvmAddrs
      /\ SoundErc20(erc20[t])
      /\ ~registry[p].mintBurn => erc20[t].balance[b] >= amount
  <2>1. /\ p \in DOMAIN registry /\ receiver \in EvmAddrs
        /\ ~registry[p].mintBurn => erc20[t].balance[b] >= amount
    BY DEF ReleaseToEvm, CanRelease, ActivePair, HasErc20
  <2>2. /\ t \in EvmTokens /\ registry[p].mintBurn \in BOOLEAN /\ p \in Nat
        /\ registry[p].limits \in Limits
    BY <2>1, PairFacts DEF EvmLedger
  <2>3. amount \in Nat
    BY <2>2 DEF ReleaseToEvm, CanRelease, AmountAllowed, Limits
  <2> QED BY <2>1, <2>2, <2>3, BridgesAreAddresses DEF EvmLedger
<1>2. /\ UNCHANGED <<registry, requests>>
      /\ \A u \in EvmTokens : erc20'[u] = IF u = t THEN new ELSE erc20[u]
      /\ new = IF registry[p].mintBurn THEN MintErc20(erc20[t], receiver, amount)
                                       ELSE MoveErc20(erc20[t], b, receiver, amount)
  BY <1>1 DEF ReleaseToEvm, PaidOut, EvmLedger, EvmTypeOK
<1>3. /\ SoundErc20(new)
      /\ IF registry[p].mintBurn
         THEN new.supply = erc20[t].supply + amount /\ erc20[t].supply \in Int
         ELSE /\ new.supply = erc20[t].supply /\ Held(erc20[t]) \in Int
              /\ Held(new) = Held(erc20[t]) - amount + (IF receiver \in EvmBridges THEN amount ELSE 0)
  <2> HIDE DEF new, t
  <2>1. CASE registry[p].mintBurn
    <3>1. new = MintErc20(erc20[t], receiver, amount)
      BY <1>2, <2>1
    <3> DEFINE row == erc20[t]
    <3>2. SoundErc20(row) /\ receiver \in EvmAddrs /\ amount \in Nat
      BY <1>1
    <3>3. new = MintErc20(row, receiver, amount)
      BY <3>1
    <3> HIDE DEF row
    <3>4. SoundErc20(new) /\ new.supply = row.supply + amount /\ row.supply \in Int
      BY <3>2, <3>3, MintedErc20
    <3> QED BY <2>1, <3>4 DEF row
  <2>2. CASE ~registry[p].mintBurn
    BY <1>1, <1>2, <2>2, MovedErc20
  <2> QED BY <1>1, <2>1, <2>2
<1>4. event \in ReleaseRow /\ event.pair = p /\ event.amount = amount
  BY <1>1 DEF ReleaseRow
<1>5. released' = Append(released, event)
  BY DEF ReleaseToEvm
<1> HIDE DEF event
<1>6. /\ \A q : ReleasesOf(q)' = ReleasesOf(q) + (IF q = p THEN amount ELSE 0)
      /\ \A q : DepositsOf(q)' = DepositsOf(q)
      /\ LogsNamePairs'
  <2>1. \A q : ReleasesOf(q)' = ReleasesOf(q) + (IF q = p THEN amount ELSE 0)
    BY <1>4, <1>5, EventAdded DEF EvmLedger
  <2>2. \A q : DepositsOf(q)' = DepositsOf(q)
    BY <1>2 DEF DepositsOf
  <2>3. \A e \in DOMAIN released' : released'[e].pair \in DOMAIN registry
    BY <1>1, <1>4, <1>5, EventAdded DEF EvmLedger, LogsNamePairs
  <2> QED BY <1>2, <2>1, <2>2, <2>3 DEF EvmLedger, LogsNamePairs
<1> HIDE DEF new
<1>7. \A u \in EvmTokens : /\ SoundErc20(erc20'[u])
                           /\ erc20'[u].supply = erc20[u].supply \/ MintedByPair(u)
  <2>1. registry[p].mintBurn => MintedByPair(t)
    BY <1>1 DEF MintedByPair
  <2> QED BY <1>1, <1>2, <1>3, <2>1 DEF EvmLedger
<1>8. ASSUME NEW q \in DOMAIN registry
      PROVE  \E gain \in Int, deposit \in Nat, release \in Nat :
               /\ gain >= deposit - release
               /\ EvmSide(q)' = EvmSide(q) + gain
               /\ DepositsOf(q)' = DepositsOf(q) + deposit
               /\ ReleasesOf(q)' = ReleasesOf(q) + release
  <2>1. EvmSide(q) \in Int /\ DepositsOf(q) \in Nat /\ ReleasesOf(q) \in Nat
    BY SideType, LogTotals DEF EvmLedger
  <2>2. CASE q # p
    <3>1. erc20'[registry[q].token] = erc20[registry[q].token]
      BY <1>1, <1>2, <2>2, PairFacts DEF EvmLedger, OnePairPerToken
    <3>2. EvmSide(q)' = EvmSide(q) + 0
      BY <1>2, <3>1, OthersKeepSide
    <3>3. DepositsOf(q)' = DepositsOf(q) + 0 /\ ReleasesOf(q)' = ReleasesOf(q) + 0
      BY <1>6, <2>1, <2>2
    <3>4. 0 \in Int /\ 0 \in Nat /\ 0 >= 0 - 0
      OBVIOUS
    <3> QED BY <3>2, <3>3, <3>4
  <2>3. CASE q = p
    <3> DEFINE back == IF ~registry[p].mintBurn /\ receiver \in EvmBridges THEN amount ELSE 0
    <3>1. EvmSide(q)' = EvmSide(q) + (back - amount)
      <4>1. new = erc20'[t]
        BY DEF new
      <4>2. EvmSide(q)' = IF registry[q].mintBurn THEN InitialErc20Supply(t) - new.supply
                                                  ELSE Held(new)
        BY <1>2, <2>3, <4>1, SideAfter
      <4>3. EvmSide(q) = IF registry[q].mintBurn THEN InitialErc20Supply(t) - erc20[t].supply
                                                 ELSE Held(erc20[t])
        BY <2>3 DEF EvmSide, Escrowed
      <4>4. InitialErc20Supply(t) \in Int
        BY <1>1, InitialErc20Type
      <4> HIDE DEF t
      <4> QED BY <1>1, <1>3, <2>3, <4>2, <4>3, <4>4
    <3>2. DepositsOf(q)' = DepositsOf(q) + 0 /\ ReleasesOf(q)' = ReleasesOf(q) + amount
      BY <1>6, <2>1, <2>3
    <3>3. back - amount \in Int /\ back - amount >= 0 - amount /\ 0 \in Nat
      BY <1>1
    <3> HIDE DEF back
    <3> QED BY <1>1, <3>1, <3>2, <3>3
  <2> QED BY <2>2, <2>3
<1> QED BY <1>0, <1>2, <1>6, <1>7, <1>8, LedgerStep

LEMMA LedgerOwn == ASSUME EvmLedger, EvmOwnNext PROVE EvmLedger'
<1>0. EvmTypeOK'
  BY EvmOwnTypeOK DEF EvmLedger
<1>t. registry \in Seq(PairRow) /\ erc20 \in [EvmTokens -> Erc20Row]
  BY DEF EvmLedger, EvmTypeOK
<1>1. ASSUME NEW in \in RegistryInputs, RegisterPair(in) PROVE EvmLedger'
  BY <1>0, <1>1, LedgerRegister
<1>2. ASSUME NEW p \in PairIds, NEW active \in BOOLEAN, SetPairActive(p, active) PROVE EvmLedger'
  <2>1. /\ DOMAIN registry' = DOMAIN registry
        /\ \A q \in DOMAIN registry : /\ registry'[q].token = registry[q].token
                                      /\ registry'[q].mintBurn = registry[q].mintBurn
    BY <1>2, <1>t, PairFacts DEF SetPairActive, PairRow, EvmLedger
  <2> QED BY <1>0, <1>2, <2>1, LedgerQuiet DEF SetPairActive
<1>3. ASSUME NEW p \in PairIds, NEW limits \in RegistryLimits, SetPairLimits(p, limits)
      PROVE  EvmLedger'
  <2>1. /\ DOMAIN registry' = DOMAIN registry
        /\ \A q \in DOMAIN registry : /\ registry'[q].token = registry[q].token
                                      /\ registry'[q].mintBurn = registry[q].mintBurn
    BY <1>3, <1>t, PairFacts DEF SetPairLimits, PairRow, EvmLedger
  <2> QED BY <1>0, <1>3, <2>1, LedgerQuiet DEF SetPairLimits
<1>4. ASSUME NEW b \in EvmBridges, NEW paused \in BOOLEAN, SetPaused(b, paused) PROVE EvmLedger'
  BY <1>0, <1>4, LedgerQuiet DEF SetPaused
<1>5. ASSUME NEW b \in EvmBridges, NEW t \in EvmTokens, SetBridge(t, b) PROVE EvmLedger'
  <2>1. \A u \in EvmTokens : /\ erc20'[u].balance = erc20[u].balance
                             /\ erc20'[u].supply = erc20[u].supply
    BY <1>5, <1>t DEF SetBridge, Erc20Row
  <2> QED BY <1>0, <1>5, <2>1, LedgerQuiet DEF SetBridge
<1>6. CASE Tick
  BY <1>0, <1>6, LedgerQuiet DEF Tick
<1>7. CASE UserNext
  BY <1>0, <1>7, LedgerDeposit, LedgerSend DEF UserNext
<1> QED BY <1>1, <1>2, <1>3, <1>4, <1>5, <1>6, <1>7 DEF EvmOwnNext, OwnerNext

LEMMA LedgerUnchanged == ASSUME EvmLedger, UNCHANGED evmVars PROVE EvmLedger'
<1>1. EvmTypeOK'
  BY DEF evmVars, EvmLedger, EvmTypeOK
<1> QED BY <1>1, LedgerQuiet DEF evmVars

LEMMA EvmLedgerAlways == EvmSpec => []EvmLedger
<1>1. EvmInit => EvmLedger
  BY EvmLedgerInit
<1>2. EvmLedger /\ [EvmNext]_evmVars => EvmLedger'
  <2> SUFFICES ASSUME EvmLedger, [EvmNext]_evmVars PROVE EvmLedger'
    OBVIOUS
  <2>1. ASSUME NEW b \in EvmBridges, NEW p \in PairIds, NEW amount \in Amounts,
               NEW receiver \in EvmAddrs \cup {ZeroAddress}, NEW burn \in 1..MaxRequests,
               ReleaseToEvm(b, ZeroBridgeOf[b], p, amount, receiver, burn)
        PROVE  EvmLedger'
    BY <2>1, LedgerRelease, EvmEscrowAssumption
  <2> QED BY <2>1, LedgerOwn, LedgerUnchanged DEF EvmNext
<1> QED BY <1>1, <1>2, PTL DEF EvmSpec

(* A pair's holdings, or the supply it burned, always cover its deposits    *)
(* less its releases, whatever releases the zeroBridge account sends and    *)
(* whatever pairs, limits, pauses and minting deployment the owner sets in  *)
(* between (EvmEscrowBridge.sol:111-114, 163-168).                          *)
THEOREM EscrowCoversLogs == EvmSpec => []EvmSideCoversLogs
<1>1. EvmLedger => EvmSideCoversLogs
  BY DEF EvmLedger
<1> QED BY <1>1, EvmLedgerAlways, PTL
-----------------------------------------------------------------------------
(* The invariant behind DailyLimit: the counter of a day is the sum of the  *)
(* request records of that day, and no record is of a later day, so that a  *)
(* new day starts at zero.                                                  *)
DailyCounts ==
  /\ \A b \in EvmBridges, p \in PairIds, d \in Days : daily[b][p][d] = DepositedOn(b, p, d)
  /\ \A h \in DOMAIN requests : requests[h].createdAt <= now

DailyInv == EvmTypeOK /\ DailyCounts

LEMMA DepositedType ==
  ASSUME EvmTypeOK, NEW b, NEW p, NEW d
  PROVE  /\ DepositedOn(b, p, d) \in Nat
         /\ (\A h \in DOMAIN requests : requests[h].createdAt \div DAY # d)
               => DepositedOn(b, p, d) = 0
<1> DEFINE In(r) == r.bridge = b /\ r.pair = p /\ r.createdAt \div DAY = d
           w == [h \in DOMAIN requests |-> IF In(requests[h]) THEN requests[h].amount ELSE 0]
<1>1. /\ Len(requests) \in Nat /\ DOMAIN requests = 1..Len(requests)
      /\ \A h \in DOMAIN requests : requests[h].amount \in Nat
  <2>1. /\ Len(requests) \in Nat /\ DOMAIN requests = 1..Len(requests)
        /\ \A h \in DOMAIN requests : requests[h] \in RequestRow
    BY LenProperties DEF EvmTypeOK
  <2> QED BY <2>1 DEF RequestRow
<1>2. \A h \in 1..Len(requests) : w[h] \in Nat
  <2> HIDE DEF In
  <2> QED BY <1>1
<1>3. (\A h \in DOMAIN requests : requests[h].createdAt \div DAY # d)
         => \A h \in 1..Len(requests) : w[h] = 0
  BY <1>1
<1>4. DepositedOn(b, p, d) = Total(w, Len(requests))
  BY DEF DepositedOn
<1> HIDE DEF w
<1> QED BY <1>1, <1>2, <1>3, <1>4, TotalBounds, TotalOfZeros

(* A later time is of the same day or of one nothing was deposited on.      *)
LEMMA DivOrder ==
  ASSUME NEW a \in Nat, NEW b \in Nat, NEW d \in Nat \ {0}, a <= b
  PROVE  a \div d <= b \div d /\ a \div d \in Nat /\ b \div d \in Nat
OBVIOUS

LEMMA DailyInit == ASSUME EvmInit PROVE DailyInv
<1>1. EvmTypeOK
  BY EvmInitTypeOK
<1>2. DOMAIN requests = {}
  BY DEF EvmInit
<1>3. ASSUME NEW b \in EvmBridges, NEW p \in PairIds, NEW d \in Days
      PROVE  daily[b][p][d] = DepositedOn(b, p, d)
  <2>1. daily[b][p][d] = 0
    BY DEF EvmInit
  <2>2. DepositedOn(b, p, d) = 0
    BY <1>1, <1>2, DepositedType
  <2> QED BY <2>1, <2>2
<1> QED BY <1>1, <1>2, <1>3 DEF DailyInv, DailyCounts

(* Only a deposit touches the records and the counters. *)
DepositMade ==
  \E b \in EvmBridges, p \in PairIds, sender \in EvmUsers, amount \in Amounts,
     receiver \in ZeroReceivers : DepositToZero(b, p, sender, amount, receiver)

RecordsStand == UNCHANGED <<requests, daily>> /\ (now' = now \/ now' = now + 1)

LEMMA RecordsStep == ASSUME [EvmOwnNext]_evmVars PROVE RecordsStand \/ DepositMade
<1>1. CASE OwnerNext
  BY <1>1 DEF OwnerNext, RegisterPair, SetPairActive, SetPairLimits, SetPaused, SetBridge,
              RecordsStand
<1>2. CASE UserNext
  BY <1>2 DEF UserNext, DepositMade, SendErc20, RecordsStand
<1>3. CASE Tick \/ UNCHANGED evmVars
  BY <1>3 DEF Tick, evmVars, RecordsStand
<1> QED BY <1>1, <1>2, <1>3 DEF EvmOwnNext

LEMMA RecordsStandCounts ==
  ASSUME DailyInv, EvmTypeOK', RecordsStand
  PROVE  DailyInv' /\ DepositKeepsDailyLimit
<1>1. /\ now \in Nat /\ now' \in Nat /\ now <= now' /\ DAY \in Nat \ {0}
      /\ UNCHANGED <<requests, daily>>
  BY EvmEscrowAssumption DEF DailyInv, EvmTypeOK, RecordsStand
<1>2. \A b, p, d : DepositedOn(b, p, d)' = DepositedOn(b, p, d)
  BY <1>1 DEF DepositedOn
<1>3. \A h \in DOMAIN requests : requests[h].createdAt \in Nat /\ requests[h].createdAt <= now
  <2>1. \A h \in DOMAIN requests : requests[h] \in RequestRow
    BY DEF DailyInv, EvmTypeOK
  <2> QED BY <2>1 DEF RequestRow, DailyInv, DailyCounts
<1>4. DailyCounts'
  BY <1>1, <1>2, <1>3 DEF DailyInv, DailyCounts
<1>5. ASSUME NEW b \in EvmBridges, NEW p \in PairIds
      PROVE  ~(DepositedOn(b, p, Today)' > DepositedOn(b, p, Today))
  <2>1. Today <= Today' /\ Today \in Nat /\ Today' \in Nat
    BY <1>1, DivOrder DEF Today
  <2>2. CASE Today' = Today
    <3>1. DepositedOn(b, p, Today)' = DepositedOn(b, p, Today)
      BY <1>1, <2>2 DEF DepositedOn
    <3>2. DepositedOn(b, p, Today) \in Nat
      <4>1. \A d : DepositedOn(b, p, d) \in Nat
        BY DepositedType DEF DailyInv
      <4> QED BY <4>1
    <3> QED BY <3>1, <3>2
  <2>3. CASE Today < Today'
    <3>1. \A h \in DOMAIN requests : requests[h].createdAt \div DAY <= Today
      BY <1>1, <1>3, DivOrder DEF Today
    <3>2. \A h \in DOMAIN requests : requests[h].createdAt \div DAY # Today'
      <4> SUFFICES ASSUME NEW h \in DOMAIN requests
                   PROVE  requests[h].createdAt \div DAY # Today'
        OBVIOUS
      <4>1. requests[h].createdAt \div DAY <= Today /\ requests[h].createdAt \div DAY \in Nat
        BY <1>1, <1>3, <3>1, DivOrder
      <4> QED BY <2>1, <2>3, <4>1
    <3>3. ASSUME NEW d, d = Today' PROVE DepositedOn(b, p, d) = 0
      BY <3>2, <3>3, DepositedType DEF DailyInv
    <3>4. DepositedOn(b, p, Today)' = 0
      <4>1. ASSUME NEW d, d = Today' PROVE DepositedOn(b, p, Today)' = DepositedOn(b, p, d)
        BY <1>1, <4>1 DEF DepositedOn
      <4> QED BY <3>3, <4>1
    <3>5. DepositedOn(b, p, Today) \in Nat
      <4>1. \A d : DepositedOn(b, p, d) \in Nat
        BY DepositedType DEF DailyInv
      <4> QED BY <4>1
    <3> QED BY <3>4, <3>5
  <2> QED BY <2>1, <2>2, <2>3
<1> QED BY <1>4, <1>5 DEF DailyInv, DepositKeepsDailyLimit

LEMMA DepositMadeCounts ==
  ASSUME DailyInv, EvmTypeOK', DepositMade
  PROVE  DailyInv' /\ DepositKeepsDailyLimit
<1>1. PICK b \in EvmBridges, p \in PairIds, sender \in EvmUsers, amount \in Amounts,
           receiver \in ZeroReceivers : DepositToZero(b, p, sender, amount, receiver)
  BY DEF DepositMade
<1> DEFINE row == StoredRequest(b, p, sender, amount, receiver)
           day == Today
<1>2. /\ row \in RequestRow /\ row.bridge = b /\ row.pair = p /\ row.amount = amount
      /\ row.createdAt = now /\ amount \in Nat /\ p \in Nat
  BY EvmEscrowAssumption DEF StoredRequest, RequestRow, PairIds, DailyInv, EvmTypeOK
<1>3. requests' = Append(requests, row) /\ UNCHANGED <<registry, now>>
  BY <1>1 DEF DepositToZero
<1>4. day \in Days /\ row.createdAt \div DAY = day
  BY <1>2, TodayInDays DEF DailyInv, Today
<1>5. \A c \in EvmBridges, q \in PairIds, d \in Days :
        daily'[c][q][d] = daily[c][q][d] + (IF c = b /\ q = p /\ d = day THEN amount ELSE 0)
  <2>1. daily' = [daily EXCEPT ![b][p][day] = @ + amount]
    BY <1>1 DEF DepositToZero
  <2>2. \A c \in EvmBridges, q \in PairIds, d \in Days : daily[c][q][d] \in Nat
    BY DEF DailyInv, EvmTypeOK
  <2>3. /\ daily \in [EvmBridges -> [PairIds -> [Days -> Nat]]]
        /\ daily[b] \in [PairIds -> [Days -> Nat]] /\ daily[b][p] \in [Days -> Nat]
    BY DEF DailyInv, EvmTypeOK
  <2> HIDE DEF day
  <2> QED BY <1>4, <2>1, <2>2, <2>3
<1> HIDE DEF row
<1>6. \A c, q, d : DepositedOn(c, q, d)' = DepositedOn(c, q, d)
                     + (IF c = b /\ q = p /\ d = day THEN amount ELSE 0)
  <2>1. \A c, q, d : DepositedOn(c, q, d)' = DepositedOn(c, q, d)
          + (IF row.bridge = c /\ row.pair = q /\ row.createdAt \div DAY = d THEN row.amount ELSE 0)
    BY <1>2, <1>3, RequestAdded DEF DailyInv
  <2> HIDE DEF day
  <2> QED BY <1>2, <1>4, <2>1
<1>7. \A h \in DOMAIN requests' : requests'[h].createdAt <= now'
  <2>1. now \in Int
    BY DEF DailyInv, EvmTypeOK
  <2> QED BY <1>2, <1>3, <2>1, RequestAdded DEF DailyInv, DailyCounts
<1>8. DailyCounts'
  <2>1. \A c \in EvmBridges, q \in PairIds, d \in Days : daily'[c][q][d] = DepositedOn(c, q, d)'
    <3> HIDE DEF day
    <3> QED BY <1>5, <1>6 DEF DailyInv, DailyCounts
  <2> QED BY <1>7, <2>1 DEF DailyCounts
<1>9. ASSUME NEW c \in EvmBridges, NEW q \in PairIds,
             DepositedOn(c, q, Today)' > DepositedOn(c, q, Today)
      PROVE  DepositedOn(c, q, Today)' <= registry[q].limits.daily
  <2>1. DepositedOn(c, q, Today)' = DepositedOn(c, q, day)
                                      + (IF c = b /\ q = p THEN amount ELSE 0)
    <3>1. ASSUME NEW d, d = day
          PROVE  DepositedOn(c, q, Today)' = DepositedOn(c, q, d)
                                               + (IF c = b /\ q = p THEN amount ELSE 0)
      <4>1. Today' = d
        BY <1>3, <3>1 DEF Today
      <4>2. DepositedOn(c, q, Today)' = DepositedOn(c, q, d)'
        BY <4>1 DEF DepositedOn
      <4> HIDE DEF day
      <4> QED BY <1>6, <3>1, <4>2
    <3> QED BY <3>1
  <2>2. DepositedOn(c, q, day) \in Nat
    <3>1. \A d : DepositedOn(c, q, d) \in Nat
      BY DepositedType DEF DailyInv
    <3> QED BY <3>1
  <2>3. c = b /\ q = p
    BY <1>9, <2>1, <2>2
  <2>4. daily[b][p][day] + amount <= registry[p].limits.daily
    BY <1>1 DEF DepositToZero, WithinDailyLimit
  <2>5. daily[b][p][day] = DepositedOn(b, p, day)
    BY <1>4 DEF DailyInv, DailyCounts
  <2> QED BY <2>1, <2>3, <2>4, <2>5
<1> QED BY <1>8, <1>9 DEF DailyInv, DepositKeepsDailyLimit

(* No deposit exceeds the limit in force, counted from the records.         *)
THEOREM DailyLimitKept == EvmSpec => DailyLimit
<1>1. EvmInit => DailyInv
  BY DailyInit
<1>2. EvmTypeOK' /\ DailyInv /\ [EvmNext]_evmVars => DailyInv' /\ [DepositKeepsDailyLimit]_evmVars
  <2> SUFFICES ASSUME EvmTypeOK', DailyInv, [EvmNext]_evmVars
               PROVE  RecordsStand \/ DepositMade
    BY RecordsStandCounts, DepositMadeCounts
  <2>1. ASSUME NEW b \in EvmBridges, NEW p \in PairIds, NEW amount \in Amounts,
               NEW receiver \in EvmAddrs \cup {ZeroAddress}, NEW burn \in 1..MaxRequests,
               ReleaseToEvm(b, ZeroBridgeOf[b], p, amount, receiver, burn)
        PROVE  RecordsStand
    BY <2>1 DEF ReleaseToEvm, RecordsStand
  <2> QED BY <2>1, RecordsStep DEF EvmNext
<1> QED BY <1>1, <1>2, EvmTypeCorrect, PTL DEF EvmSpec, DailyLimit
=============================================================================
