------------------------- MODULE ReleaseRelayerProofs -------------------------
(***************************************************************************)
(* The release watcher next to everything else: what it holds in its round *)
(* and in its sent transactions are burn rows it once read as open, so     *)
(* that a refund it can see is final, and what it makes the EVM bridge pay *)
(* is what the native contract would have paid.                            *)
(***************************************************************************)
EXTENDS ReleaseRelayer, ZeroBridgeBackingProofs

(* kept is the table of the prefixes of Ascending(S, n). *)
KeptPrefixes(kept, S, n) ==
  kept = [i \in 0..n |->
            IF i = 0 THEN << >> ELSE IF i \in S THEN Append(kept[i-1], i) ELSE kept[i-1]]

LEMMA KeptPrefixesExist ==
  ASSUME NEW S, NEW m \in Nat
  PROVE  \A n \in 0..m : \E kept \in [0..n -> Seq(S)] : KeptPrefixes(kept, S, n)
<1> DEFINE Bad == {n \in 0..m : ~\E kept \in [0..n -> Seq(S)] : KeptPrefixes(kept, S, n)}
<1> SUFFICES ASSUME Bad # {} PROVE FALSE
  BY Zenon
<1>1. PICK n \in Bad : \A k \in Bad : n <= k
  <2> Bad \in SUBSET Nat
    OBVIOUS
  <2> HIDE DEF Bad
  <2> QED BY Least
<1>2. n \in Nat /\ n <= m
  OBVIOUS
<1>3. n # 0
  <2> DEFINE s == [i \in 0..0 |-> << >>]
  <2>1. s \in [0..0 -> Seq(S)] /\ KeptPrefixes(s, S, 0)
    BY EmptySeq DEF KeptPrefixes
  <2> QED BY <2>1
<1>4. PICK s \in [0..(n-1) -> Seq(S)] : KeptPrefixes(s, S, n-1)
  BY <1>1, <1>2, <1>3
<1> DEFINE last == IF n \in S THEN Append(s[n-1], n) ELSE s[n-1]
           kept == [i \in 0..n |-> IF i = n THEN last ELSE s[i]]
<1>5. last \in Seq(S)
  <2>1. s[n-1] \in Seq(S)
    BY <1>2, <1>3
  <2>2. CASE n \in S
    <3>1. Append(s[n-1], n) \in Seq(S)
      BY <2>1, <2>2, AppendProperties
    <3> QED BY <2>2, <3>1
  <2> QED BY <2>1, <2>2
<1>6. kept \in [0..n -> Seq(S)]
  <2> HIDE DEF last
  <2> QED BY <1>2, <1>3, <1>5
<1>7. KeptPrefixes(kept, S, n)
  <2> \A i \in 0..n : kept[i] = IF i = 0 THEN << >>
                                ELSE IF i \in S THEN Append(kept[i-1], i) ELSE kept[i-1]
    <3> TAKE i \in 0..n
    <3>1. CASE i = 0
      BY <3>1, <1>2, <1>3, <1>4 DEF KeptPrefixes
    <3>2. CASE i = n
      <4>1. kept[i] = last /\ kept[i-1] = s[n-1]
        BY <3>2, <1>2, <1>3
      <4> HIDE DEF kept
      <4> QED BY <3>2, <4>1, <1>3
    <3>3. CASE i # 0 /\ i # n
      <4>1. i \in 0..(n-1) /\ i-1 \in 0..(n-1) /\ kept[i] = s[i] /\ kept[i-1] = s[i-1]
        BY <3>3, <1>2
      <4>2. s[i] = IF i \in S THEN Append(s[i-1], i) ELSE s[i-1]
        BY <3>3, <4>1, <1>4 DEF KeptPrefixes
      <4> HIDE DEF kept
      <4> QED BY <3>3, <4>1, <4>2
    <3> QED BY <3>1, <3>2, <3>3
  <2> QED BY DEF KeptPrefixes
<1> QED BY <1>6, <1>7

(* A row that Ascending returns is one it was asked for. *)
LEMMA AscendingType ==
  ASSUME NEW S, NEW n \in Nat
  PROVE  Ascending(S, n) \in Seq(S)
<1> DEFINE chosen == CHOOSE f :
             f = [i \in 0..n |->
                    IF i = 0 THEN << >> ELSE IF i \in S THEN Append(f[i-1], i) ELSE f[i-1]]
<1>1. PICK kept \in [0..n -> Seq(S)] : KeptPrefixes(kept, S, n)
  BY KeptPrefixesExist
<1>2. chosen = [i \in 0..n |-> IF i = 0 THEN << >>
                               ELSE IF i \in S THEN Append(chosen[i-1], i) ELSE chosen[i-1]]
  BY <1>1 DEF KeptPrefixes
<1>3. Ascending(S, n) = chosen[n]
  BY DEF Ascending
<1> HIDE DEF chosen
<1>4. \A i \in 0..n : chosen[i] = kept[i]
  <2> DEFINE Bad == {i \in 0..n : chosen[i] # kept[i]}
  <2> SUFFICES ASSUME Bad # {} PROVE FALSE
    OBVIOUS
  <2>1. PICK i \in Bad : \A j \in Bad : i <= j
    <3> Bad \in SUBSET Nat
      OBVIOUS
    <3> HIDE DEF Bad
    <3> QED BY Least
  <2>2. i # 0
    BY <1>1, <1>2 DEF KeptPrefixes
  <2>3. i - 1 \in 0..n /\ chosen[i-1] = kept[i-1]
    BY <2>1, <2>2
  <2>4. chosen[i] = IF i \in S THEN Append(chosen[i-1], i) ELSE chosen[i-1]
    BY <1>2, <2>2, <2>3
  <2>5. kept[i] = IF i \in S THEN Append(kept[i-1], i) ELSE kept[i-1]
    BY <1>1, <2>2, <2>3 DEF KeptPrefixes
  <2>6. chosen[i] = kept[i]
    <3>1. CASE i \in S
      BY <3>1, <2>3, <2>4, <2>5
    <3>2. CASE i \notin S
      BY <3>2, <2>3, <2>4, <2>5
    <3> QED BY <3>1, <3>2
  <2> QED BY <2>6
<1> QED BY <1>1, <1>3, <1>4

(* What the operations of the round do to the burns in a sequence. *)
LEMMA RangeFacts ==
  ASSUME NEW S, NEW s \in Seq(S), NEW x \in S
  PROVE  /\ Range(s) \subseteq S
         /\ Append(s, x) \in Seq(S) /\ Range(Append(s, x)) \subseteq Range(s) \cup {x}
         /\ s # << >> => /\ Head(s) \in Range(s) /\ Head(s) \in S
                         /\ Tail(s) \in Seq(S) /\ Range(Tail(s)) \subseteq Range(s)
         /\ Len(s) > 1 => Tail(s) # << >>
         /\ << >> \in Seq(S) /\ Range(<< >>) = {}
<1>1. Range(s) \subseteq S
  BY LenProperties DEF Range
<1>2. Append(s, x) \in Seq(S) /\ Range(Append(s, x)) \subseteq Range(s) \cup {x}
  BY AppendProperties, LenProperties DEF Range
<1>3. ASSUME s # << >>
      PROVE  /\ Head(s) \in Range(s) /\ Head(s) \in S
             /\ Tail(s) \in Seq(S) /\ Range(Tail(s)) \subseteq Range(s)
  <2>1. Len(s) \in Nat \ {0} /\ DOMAIN s = 1..Len(s) /\ s[1] \in S
    BY <1>3, EmptySeq, LenProperties
  <2>2. Head(s) = s[1] /\ Tail(s) \in Seq(S) /\ Len(Tail(s)) = Len(s) - 1
        /\ \A i \in 1..Len(Tail(s)) : Tail(s)[i] = s[i+1]
    BY <1>3, HeadTailProperties
  <2>3. DOMAIN Tail(s) = 1..(Len(s) - 1)
    BY <2>2, LenProperties
  <2> QED BY <2>1, <2>2, <2>3 DEF Range
<1>4. Len(s) > 1 => Tail(s) # << >>
  <2> SUFFICES ASSUME Len(s) > 1, Tail(s) = << >> PROVE FALSE
    OBVIOUS
  <2>1. s # << >> /\ Len(s) \in Nat
    BY EmptySeq, LenProperties
  <2> DEFINE n == Len(s)
  <2>2. Len(Tail(s)) = n - 1 /\ Len(Tail(s)) = 0
    BY <2>1, HeadTailProperties, EmptySeq
  <2>3. n > 1 /\ n \in Nat
    BY <2>1
  <2> HIDE DEF n
  <2>4. n - 1 = 0
    BY <2>2
  <2> QED BY <2>3, <2>4
<1>5. << >> \in Seq(S) /\ Range(<< >>) = {}
  BY EmptySeq DEF Range
<1> QED BY <1>1, <1>2, <1>3, <1>4, <1>5
-----------------------------------------------------------------------------
RelayerTypeOK ==
  /\ phase \in {"waiting", "checking", "sending", "awaiting"}
  /\ rows \in Seq(Nat) /\ releases \in Seq(Nat) /\ pending \in Seq(Nat)
  /\ phase = "sending" => releases # << >>

(* A row that a scan may hand to the round. *)
ReadAsOpen(i) == i \in DOMAIN ztoe /\ ~ztoe[i].refunded /\ CanBuild(ztoe[i])

(* What a step of the watcher adds to the burns in flight it has just read. *)
FlightGrows == \A i \in InFlight' : i \in InFlight \/ ReadAsOpen(i)

LEMMA ScanStep ==
  ASSUME Wellformed, RelayerTypeOK, Scan
  PROVE  RelayerTypeOK' /\ FlightGrows
<1> DEFINE open == {i \in DOMAIN ztoe : Relayable(i)}
           read == Ascending(open, Len(ztoe))
<1>1. Len(ztoe) \in Nat /\ DOMAIN ztoe = 1..Len(ztoe)
  BY LenProperties DEF Wellformed, NativeTypeOK
<1>2. read \in Seq(open)
  BY <1>1, AscendingType
<1>3. open \subseteq Nat
  BY <1>1
<1>4. /\ phase' = "checking" /\ rows' = read /\ UNCHANGED <<releases, pending>>
      /\ \A i \in Range(read) : CanBuild(ztoe[i])
  BY DEF Scan
<1>5. open \subseteq DOMAIN ztoe /\ \A i \in open : ~ztoe[i].refunded
  BY DEF Relayable
<1> HIDE DEF read, open
<1>6. read \in Seq(Nat) /\ Range(read) \subseteq open
  <2>1. read \in Seq(Nat)
    BY <1>2, <1>3, SeqMonotonic
  <2>2. Range(read) \subseteq open
    BY <1>2, LenProperties DEF Range
  <2> QED BY <2>1, <2>2
<1>7. RelayerTypeOK'
  BY <1>4, <1>6 DEF RelayerTypeOK
<1>8. FlightGrows
  BY <1>4, <1>5, <1>6 DEF FlightGrows, InFlight, ReadAsOpen
<1> QED BY <1>7, <1>8

LEMMA CheckStep ==
  ASSUME RelayerTypeOK, NEW i, Check(i)
  PROVE  RelayerTypeOK' /\ FlightGrows
<1>1. /\ rows # << >> /\ i = Head(rows) /\ rows' = Tail(rows) /\ phase = "checking"
      /\ releases' = Append(releases, i) \/ releases' = releases
      /\ UNCHANGED <<phase, pending>>
  BY DEF Check
<1>2. i \in Range(rows) /\ i \in Nat /\ Tail(rows) \in Seq(Nat) /\ Range(Tail(rows)) \subseteq Range(rows)
  BY <1>1, 0 \in Nat, RangeFacts DEF RelayerTypeOK
<1>3. Append(releases, i) \in Seq(Nat) /\ Range(Append(releases, i)) \subseteq Range(releases) \cup {i}
  BY <1>2, RangeFacts DEF RelayerTypeOK
<1>4. RelayerTypeOK'
  BY <1>1, <1>2, <1>3 DEF RelayerTypeOK
<1>5. FlightGrows
  BY <1>1, <1>2, <1>3 DEF FlightGrows, InFlight
<1> QED BY <1>4, <1>5

LEMMA SendStep ==
  ASSUME RelayerTypeOK, NEW i, Send(i)
  PROVE  RelayerTypeOK' /\ FlightGrows
<1>1. /\ releases # << >> /\ i = Head(releases) /\ pending' = Append(pending, i)
      /\ phase' = "awaiting" /\ UNCHANGED <<rows, releases>>
  BY DEF Send, RelayerTypeOK
<1>2. i \in Range(releases) /\ i \in Nat
  BY <1>1, 0 \in Nat, RangeFacts DEF RelayerTypeOK
<1>3. Append(pending, i) \in Seq(Nat) /\ Range(Append(pending, i)) \subseteq Range(pending) \cup {i}
  BY <1>2, RangeFacts DEF RelayerTypeOK
<1>4. RelayerTypeOK'
  BY <1>1, <1>3 DEF RelayerTypeOK
<1>5. FlightGrows
  BY <1>1, <1>2, <1>3 DEF FlightGrows, InFlight
<1> QED BY <1>4, <1>5

(* The other steps of a round forget burns or keep them. *)
LEMMA RoundStep ==
  ASSUME RelayerTypeOK, Start \/ Rejected \/ Receipt \/ Crash
  PROVE  RelayerTypeOK' /\ FlightGrows
<1>1. << >> \in Seq(Nat) /\ Range(<< >>) = {}
  BY 0 \in Nat, RangeFacts DEF RelayerTypeOK
<1>2. CASE StartOver /\ UNCHANGED pending
  <2>1. RelayerTypeOK'
    BY <1>1, <1>2 DEF StartOver, RelayerTypeOK
  <2>2. FlightGrows
    BY <1>1, <1>2 DEF StartOver, FlightGrows, InFlight
  <2> QED BY <2>1, <2>2
<1>3. CASE releases # << >> /\ phase' = "sending" /\ UNCHANGED <<rows, releases, pending>>
  BY <1>3 DEF RelayerTypeOK, FlightGrows, InFlight
<1>4. CASE Len(releases) > 1 /\ phase' = "sending" /\ releases' = Tail(releases)
             /\ UNCHANGED <<rows, pending>>
  <2>1. releases # << >>
    BY <1>4, EmptySeq DEF RelayerTypeOK
  <2>2. /\ Tail(releases) # << >> /\ Tail(releases) \in Seq(Nat)
        /\ Range(Tail(releases)) \subseteq Range(releases)
    BY <1>4, <2>1, 0 \in Nat, RangeFacts DEF RelayerTypeOK
  <2>3. RelayerTypeOK'
    BY <1>4, <2>2 DEF RelayerTypeOK
  <2>4. FlightGrows
    BY <1>4, <2>2 DEF FlightGrows, InFlight
  <2> QED BY <2>3, <2>4
<1> QED BY <1>2, <1>3, <1>4 DEF Start, Rejected, Receipt, Crash


(* A sent transaction pays the burn that comes first, or nothing. *)
LEMMA MineStep ==
  ASSUME RelayerTypeOK, Mine
  PROVE  LET i == Head(pending)
         IN  /\ RelayerTypeOK' /\ FlightGrows
             /\ i \in Nat /\ i \in InFlight
             /\ \/ UNCHANGED evmVars
                \/ ReleaseToEvm(RelayedBridge, RelayerKey, ztoe[i].pair, RelayedAmount(ztoe[i]),
                                ztoe[i].receiver, i)
             /\ UNCHANGED <<asset, nativeVars>>
<1> DEFINE i == Head(pending)
<1>1. /\ pending # << >> /\ pending' = Tail(pending)
      /\ UNCHANGED <<phase, rows, releases, asset, nativeVars>>
      /\ \/ UNCHANGED evmVars
         \/ ReleaseToEvm(RelayedBridge, RelayerKey, ztoe[i].pair, RelayedAmount(ztoe[i]),
                         ztoe[i].receiver, i)
  BY DEF Mine
<1>2. /\ i \in Range(pending) /\ i \in Nat
      /\ Tail(pending) \in Seq(Nat) /\ Range(Tail(pending)) \subseteq Range(pending)
  BY <1>1, 0 \in Nat, RangeFacts DEF RelayerTypeOK
<1>3. RelayerTypeOK'
  BY <1>1, <1>2 DEF RelayerTypeOK
<1>4. FlightGrows
  BY <1>1, <1>2 DEF FlightGrows, InFlight
<1> QED BY <1>1, <1>2, <1>3, <1>4 DEF InFlight

RelayedNext == ReleaseRelayerNext \/ (Next /\ UNCHANGED relayerVars)

(* A step is the watcher's own and leaves the chains alone, or mines one of *)
(* its transactions, or is a step of the bridge.                            *)
LEMMA RelayedStep ==
  ASSUME Wellformed, RelayerTypeOK, [RelayedNext]_<<vars, relayerVars>>
  PROVE  /\ RelayerTypeOK' /\ FlightGrows
         /\ Mine \/ [Next]_vars
<1>1. CASE (Scan \/ Start \/ Rejected \/ Receipt \/ Crash) /\ UNCHANGED vars
  BY <1>1, ScanStep, RoundStep
<1>2. ASSUME NEW i \in 1..MaxRequests, (Check(i) \/ Send(i)) /\ UNCHANGED vars
      PROVE  RelayerTypeOK' /\ FlightGrows /\ [Next]_vars
  BY <1>2, CheckStep, SendStep
<1>3. CASE Mine
  BY <1>3, MineStep
<1>4. CASE [Next]_vars /\ UNCHANGED relayerVars
  BY <1>4 DEF relayerVars, RelayerTypeOK, FlightGrows, InFlight
<1> QED BY <1>1, <1>2, <1>3, <1>4 DEF RelayedNext, ReleaseRelayerNext
-----------------------------------------------------------------------------
(* What is in flight are rows of the table that the watcher could build.    *)
FlightBuilt == \A i \in InFlight : i \in DOMAIN ztoe /\ CanBuild(ztoe[i])

LEMMA MineWellformed ==
  ASSUME Wellformed, RelayerTypeOK, FlightBuilt, Mine
  PROVE  Wellformed'
<1> DEFINE i == Head(pending)
<1>1. /\ i \in Nat /\ i \in InFlight /\ UNCHANGED <<asset, nativeVars>>
      /\ \/ UNCHANGED evmVars
         \/ ReleaseToEvm(RelayedBridge, RelayerKey, ztoe[i].pair, RelayedAmount(ztoe[i]),
                         ztoe[i].receiver, i)
  BY MineStep
<1>2. ztoe[i] \in ZtoeRow
  BY <1>1 DEF FlightBuilt, Wellformed, NativeTypeOK
<1>3. EvmTypeOK'
  <2>1. CASE UNCHANGED evmVars
    BY <2>1 DEF evmVars, Wellformed, EvmTypeOK
  <2>2. CASE ReleaseToEvm(RelayedBridge, RelayerKey, ztoe[i].pair, RelayedAmount(ztoe[i]),
                          ztoe[i].receiver, i)
    <3>1. ztoe[i].receiver \in EvmAddrs \cup {ZeroAddress}
      BY <1>2 DEF ZtoeRow
    <3> QED BY <1>1, <2>2, <3>1, ReleaseTypeOK, ReleaseRelayerAssumption DEF Wellformed
  <2> QED BY <1>1, <2>1, <2>2
<1> QED BY <1>1, <1>3 DEF Wellformed, AssetSound, NativeTypeOK, nativeVars

LEMMA RelayedWellformed == ReleaseRelayerSpec => [](Wellformed /\ RelayerTypeOK /\ FlightBuilt)
<1>1. Init /\ phase = "waiting" /\ rows = << >> /\ releases = << >> /\ pending = << >>
        => Wellformed /\ RelayerTypeOK /\ FlightBuilt
  BY WellformedInit, 0 \in Nat, EmptySeq DEF RelayerTypeOK, FlightBuilt, InFlight, Range
<1>2. ASSUME Wellformed, RelayerTypeOK, FlightBuilt, [RelayedNext]_<<vars, relayerVars>>
      PROVE  Wellformed' /\ RelayerTypeOK' /\ FlightBuilt'
  <2>1. RelayerTypeOK' /\ FlightGrows /\ (Mine \/ [Next]_vars)
    BY <1>2, RelayedStep
  <2>2. Wellformed'
    BY <1>2, <2>1, MineWellformed, WellformedStep
  <2>3. PairsKept /\ RequestsKept
    <3>1. CASE Mine
      BY <1>2, <3>1, MineStep DEF nativeVars, PairsKept, RequestsKept, RequestKept
    <3>2. CASE [Next]_vars
      BY <1>2, <3>2, RowsKept
    <3> QED BY <2>1, <3>1, <3>2
  <2>4. ASSUME NEW i \in InFlight' PROVE i \in DOMAIN ztoe' /\ CanBuild(ztoe[i])'
    <3>1. i \in DOMAIN ztoe /\ CanBuild(ztoe[i]) /\ ztoe[i].pair \in DOMAIN zpairs
      BY <1>2, <2>1, <2>4 DEF FlightGrows, ReadAsOpen, FlightBuilt, Wellformed, NativeTypeOK
    <3>2. /\ i \in DOMAIN ztoe' /\ ztoe'[i].pair = ztoe[i].pair
          /\ ztoe'[i].quantity = ztoe[i].quantity
          /\ zpairs'[ztoe[i].pair].token = zpairs[ztoe[i].pair].token
      BY <2>3, <3>1 DEF PairsKept, RequestsKept, RequestKept
    <3> QED BY <3>1, <3>2 DEF CanBuild, BurnDecimals, RelayedDecimals
  <2> QED BY <2>1, <2>2, <2>4 DEF FlightBuilt
<1> QED BY <1>1, <1>2, PTL DEF ReleaseRelayerSpec, RelayedNext

(* A burn that is refunded while no round and no transaction of the watcher *)
(* holds it is never taken up again, and no deployment pays it any more,    *)
(* neither for the watcher nor for the native contract.                     *)
THEOREM SeenRefundsAreFinal == ReleaseRelayerSpec => SeenRefundIsFinal
<1>1. ASSUME Wellformed, RelayerTypeOK, FlightBuilt, [RelayedNext]_<<vars, relayerVars>>
      PROVE  RefundIsSeen
  <2>1. SUFFICES ASSUME NEW i \in DOMAIN ztoe, ztoe[i].refunded, i \notin InFlight
                 PROVE  i \notin InFlight' /\ (Released(i)' => Released(i))
    BY DEF RefundIsSeen
  <2>2. FlightGrows /\ (Mine \/ [Next]_vars)
    BY <1>1, RelayedStep
  <2>3. i \notin InFlight'
    BY <2>1, <2>2 DEF FlightGrows, ReadAsOpen
  <2>4. CASE Mine
    <3>1. Head(pending) # i
      BY <1>1, <2>1, <2>4, MineStep
    <3>2. processed' = processed \/ processed' = processed \cup {<<RelayedBridge, Head(pending)>>}
      BY <1>1, <2>4, MineStep DEF evmVars, ReleaseToEvm
    <3> QED BY <2>3, <3>1, <3>2 DEF Released
  <2>5. CASE [Next]_vars
    <3>1. CASE UNCHANGED <<released, processed>>
      BY <2>3, <3>1 DEF Released
    <3>2. ASSUME NEW j \in Nat, PaysOut(j) PROVE Released(i)' => Released(i)
      <4>1. j # i /\ processed' = processed \cup {<<evmconfig.bridge, j>>}
        BY <2>1, <3>2 DEF PaysOut, PaysOutOn
      <4> QED BY <4>1 DEF Released
    <3> QED BY <1>1, <2>3, <2>5, <3>1, <3>2, PayoutStep
  <2> QED BY <2>2, <2>4, <2>5
<1> QED BY <1>1, RelayedWellformed, PTL DEF ReleaseRelayerSpec, RelayedNext, SeenRefundIsFinal
-----------------------------------------------------------------------------
(* config.pairs names the decimals that the admin stored for the same pair. *)
ConfigMatches ==
  \A in \in PairInputs :
    in.id \in DOMAIN RelayedPairs => RelayedPairs[in.id].decimals = in.decimals
DecimalsAgree ==
  \A p \in DOMAIN zpairs \cap DOMAIN RelayedPairs : zpairs[p].decimals = RelayedPairs[p].decimals

LEMMA DecimalsAgreeStep ==
  ASSUME ConfigMatches, Wellformed, DecimalsAgree, [Next]_vars
  PROVE  DecimalsAgree'
<1>1. CASE UNCHANGED zpairs
  BY <1>1 DEF DecimalsAgree
<1>2. ASSUME NEW in \in PairInputs, AddPair(in) PROVE DecimalsAgree'
  BY <1>2 DEF AddPair, DecimalsAgree, ConfigMatches
<1>3. ASSUME NEW p \in PairIds, NEW active \in BOOLEAN, NEW limits \in PairLimits,
             SetPair(p, active, limits)
      PROVE  DecimalsAgree'
  <2>1. \A id \in DOMAIN zpairs' : id \in DOMAIN zpairs /\ zpairs'[id].decimals = zpairs[id].decimals
    BY <1>3 DEF SetPair, Wellformed, NativeTypeOK, ZPairRow
  <2> QED BY <2>1 DEF DecimalsAgree
<1>4. CASE AdminNext
  BY <1>1, <1>2, <1>3, <1>4
     DEF AdminNext, InitBridge, SetAdmin, SetDevMode, SetEvmRelay, Pause, SetEvmConf, SetEvmChain,
         RefundZtoE
<1>5. CASE MintNext \/ ExitNext \/ AssetUserNext \/ EvmStep \/ UNCHANGED vars
  <2>1. UNCHANGED zpairs
    <3>1. CASE MintNext
      BY <3>1, ZenonT(40) DEF MintNext, ProcessEtoZ, ProveEtoZ, Mint
    <3>2. CASE ExitNext
      BY <3>2, ZenonT(40) DEF ExitNext, OnTransfer, RelayZtoE, nativeVars
    <3>3. CASE AssetUserNext
      BY <3>3 DEF AssetUserNext, PlainTransfer, OwnBurn, nativeVars
    <3>4. CASE EvmStep \/ UNCHANGED vars
      BY <3>4 DEF EvmStep, vars, nativeVars
    <3> QED BY <1>5, <3>1, <3>2, <3>3, <3>4
  <2> QED BY <1>1, <2>1
<1> QED BY <1>4, <1>5 DEF Next

(* The watcher pays what the native contract would have paid. *)
LEMMA MinePaysOut ==
  ASSUME Wellformed, RelayerTypeOK, FlightBuilt, DecimalsAgree, Mine
  PROVE  UNCHANGED <<released, processed>> \/ \E i \in Nat : PaysOutOn(RelayedBridge, i)
<1> DEFINE i == Head(pending)
           request == ztoe[i]
<1>1. /\ i \in Nat /\ i \in DOMAIN ztoe /\ CanBuild(request) /\ UNCHANGED <<zpairs, ztoe>>
      /\ \/ UNCHANGED evmVars
         \/ ReleaseToEvm(RelayedBridge, RelayerKey, request.pair, RelayedAmount(request),
                         request.receiver, i)
  BY MineStep DEF FlightBuilt, nativeVars
<1>2. request \in ZtoeRow /\ request.pair \in DOMAIN zpairs
  BY <1>1 DEF Wellformed, NativeTypeOK
<1>3. RelayedAmount(request) = EvmAmount(request)
  BY <1>1, <1>2 DEF DecimalsAgree, CanBuild, RelayedAmount, EvmAmount, BurnDecimals, RelayedDecimals
<1>4. CASE ReleaseToEvm(RelayedBridge, RelayerKey, request.pair, RelayedAmount(request),
                        request.receiver, i)
  <2>1. request.pair \in DOMAIN registry /\ request.receiver # ZeroAddress
    BY <1>4 DEF ReleaseToEvm, CanRelease, ActivePair
  <2>2. registry[request.pair] \in PairRow
    BY <2>1 DEF Wellformed, EvmTypeOK
  <2>3. EvmAmount(request) \in Nat
    BY <1>3, <1>4, <2>2 DEF ReleaseToEvm, CanRelease, AmountAllowed, PairRow, Limits
  <2>4. request.receiver \in EvmAddrs /\ request.pair \in PairIds
    BY <1>2, <2>1 DEF ZtoeRow
  <2>5. /\ <<RelayedBridge, i>> \notin processed
        /\ processed' = processed \cup {<<RelayedBridge, i>>}
        /\ released' = Append(released, [bridge |-> RelayedBridge, burn |-> i,
                                         pair |-> request.pair, receiver |-> request.receiver,
                                         amount |-> EvmAmount(request)])
    BY <1>3, <1>4 DEF ReleaseToEvm, CanRelease
  <2>6. ztoe'[i] = request /\ i \in DOMAIN ztoe' /\ EvmAmount(ztoe'[i]) = EvmAmount(request)
    BY <1>1
  <2>7. PaysOutOn(RelayedBridge, i)
    BY <1>1, <2>3, <2>4, <2>5, <2>6, ReleaseRelayerAssumption DEF PaysOutOn
  <2> QED BY <1>1, <2>7
<1> QED BY <1>1, <1>4 DEF evmVars

(* With the watcher at work, too, every payout is that of one burn, for its *)
(* pair, converted amount and receiver, and no burn is paid twice by one    *)
(* deployment, through stale reads, crashes and transactions still pending. *)
THEOREM WatcherPaysBurns ==
  ASSUME ConfigMatches
  PROVE  ReleaseRelayerSpec => []ReleasesMatchBurns
<1>1. Init => PayoutInv /\ DecimalsAgree
  BY EmptySeq DEF Init, EvmInit, PayoutInv, ReleasesMatchBurns, PayoutsRecorded, DecimalsAgree
<1>2. ASSUME Wellformed, RelayerTypeOK, FlightBuilt, PayoutInv, DecimalsAgree,
             [RelayedNext]_<<vars, relayerVars>>
      PROVE  PayoutInv' /\ DecimalsAgree'
  <2>1. Mine \/ [Next]_vars
    BY <1>2, RelayedStep
  <2>2. CASE Mine
    <3>1. UNCHANGED <<zpairs, ztoe>>
      BY <1>2, <2>2, MineStep DEF nativeVars
    <3>2. ASSUME NEW event, OfItsBurn(event) PROVE OfItsBurn(event)'
      BY <3>1, <3>2 DEF OfItsBurn, EvmAmount
    <3>3. PayoutInv'
      BY <1>2, <2>2, <3>2, MinePaysOut, PayoutKeepsInv, ReleaseRelayerAssumption
    <3> QED BY <1>2, <3>1, <3>3 DEF DecimalsAgree
  <2>3. CASE [Next]_vars
    BY <1>2, <2>3, PayoutInvStep, DecimalsAgreeStep
  <2> QED BY <2>1, <2>2, <2>3
<1>3. PayoutInv => ReleasesMatchBurns
  BY DEF PayoutInv
<1> QED BY <1>1, <1>2, <1>3, RelayedWellformed, PTL DEF ReleaseRelayerSpec, RelayedNext
-----------------------------------------------------------------------------
(* What a mined transaction leaves of the ledgers: the native side does not *)
(* move, and what the EVM side pays is one burn less that is owed.          *)
LEMMA MineBacked ==
  ASSUME Wellformed, Wellformed', RelayerTypeOK, FlightBuilt, DecimalsAgree, BackingInv, Mine
  PROVE  BackingInv'
<1> DEFINE i == Head(pending)
<1>0. /\ NoDevMode /\ MintsMatchDeposits /\ SameDecimals
      /\ SupplyLedger /\ EvmLedger /\ DepositLedger /\ BurnLedger
  BY DEF BackingInv, Ledgers
<1>1. /\ i \in Nat /\ i \in DOMAIN ztoe /\ UNCHANGED <<asset, nativeVars>>
      /\ \/ UNCHANGED evmVars
         \/ ReleaseToEvm(RelayedBridge, RelayerKey, ztoe[i].pair, RelayedAmount(ztoe[i]),
                         ztoe[i].receiver, i)
  BY MineStep DEF FlightBuilt
<1>2. UNCHANGED <<asset, config, zpairs, etoz, ztoe, requests>>
  BY <1>1 DEF nativeVars, evmVars, ReleaseToEvm
<1>3. NoDevMode' /\ MintsMatchDeposits' /\ SameDecimals'
  BY <1>0, <1>2 DEF NoDevMode, MintsMatchDeposits, SameDecimals
<1>4. SupplyLedger'
  BY <1>0, <1>2 DEF SupplyLedger, TokensPairedOnce, UnpairedNotIssued, Unpaired,
                    SupplyMatchesTables, MintedFor, BurnedFor
<1>5. DepositLedger'
  BY <1>0, <1>2 DEF DepositLedger, DepositsOf, MintedFor, UnmintedFor, EvmRequestUnused
<1>6. EvmLedger'
  <2> HIDE DEF i
  <2>0. ztoe[i] \in ZtoeRow
    BY <1>1 DEF Wellformed, NativeTypeOK
  <2>1. ztoe[i].receiver \in EvmAddrs \cup {ZeroAddress}
    BY <2>0 DEF ZtoeRow
  <2> QED BY <1>0, <1>1, <2>1, LedgerRelease, LedgerUnchanged, ReleaseRelayerAssumption
<1>7. BurnLedger'
  <2>1. ASSUME NEW p
        PROVE  \E d \in Int : /\ OwedIn(ztoe', processed, p) = BurnedFor(p) - ReleasesOf(p) + d
                              /\ BurnedFor(p)' = BurnedFor(p) + d
    <3>1. BurnedFor(p) \in Int /\ ReleasesOf(p) \in Int
      BY TableSumTypes, LogTotals DEF Wellformed
    <3>2. OwedIn(ztoe', processed, p) = BurnedFor(p) - ReleasesOf(p)
      BY <1>0, <1>2, OwedOverTables DEF BurnLedger, OwedIsUnpaid
    <3>3. BurnedFor(p)' = BurnedFor(p)
      BY <1>2 DEF BurnedFor
    <3>4. /\ 0 \in Int /\ OwedIn(ztoe', processed, p) = BurnedFor(p) - ReleasesOf(p) + 0
          /\ BurnedFor(p)' = BurnedFor(p) + 0
      BY <3>1, <3>2, <3>3
    <3> QED BY <3>4, Zenon
  <2>2. CASE UNCHANGED <<released, processed>>
    BY <1>0, <1>2, <2>2
       DEF BurnLedger, ProcessedAreBurns, OwedIsUnpaid, OwedFor, BurnedFor, ReleasesOf, ReleasesFor
  <2>3. ASSUME NEW k \in Nat, PaysOutOn(RelayedBridge, k) PROVE BurnLedger'
    BY <1>0, <1>2, <2>1, <2>3, PayoutKeepsBurnLedger, ReleaseRelayerAssumption
  <2> QED BY <2>2, <2>3, MinePaysOut
<1> QED BY <1>3, <1>4, <1>5, <1>6, <1>7 DEF BackingInv, Ledgers

LEMMA RelayedBacking ==
  ASSUME ConfigMatches, DevModes \subseteq {FALSE}, DecimalsMatch
  PROVE  ReleaseRelayerSpec => [](BackingInv /\ RefundInv)
<1>1. Init => BackingInv /\ RefundInv /\ DecimalsAgree
  BY BackingInit, RefundInit DEF Init, DecimalsAgree
<1>2. ASSUME Wellformed, Wellformed', RelayerTypeOK, FlightBuilt, BackingInv, RefundInv,
             DecimalsAgree, [RelayedNext]_<<vars, relayerVars>>
      PROVE  BackingInv' /\ RefundInv' /\ DecimalsAgree'
  <2>1. Mine \/ [Next]_vars
    BY <1>2, RelayedStep
  <2>2. CASE Mine
    <3>1. UNCHANGED <<asset, zpairs, ztoe>>
      BY <1>2, <2>2, MineStep DEF nativeVars
    <3>2. RefundInv' /\ DecimalsAgree'
      BY <1>2, <3>1 DEF RefundInv, TokensSetUp, BurnsPositive, DecimalsAgree
    <3> QED BY <1>2, <2>2, <3>2, MineBacked
  <2>3. CASE [Next]_vars
    BY <1>2, <2>3, BackingStep, TokensSetUpStep, BurnsPositiveStep, DecimalsAgreeStep DEF RefundInv
  <2> QED BY <2>1, <2>2, <2>3
<1> QED BY <1>1, <1>2, RelayedWellformed, PTL DEF ReleaseRelayerSpec, RelayedNext

(* With the watcher's own key releasing next to the native contract, the    *)
(* EVM side still covers the Zero supply, the deposits not yet minted and   *)
(* the burns not yet paid.                                                  *)
THEOREM WatchedBurnsAreBacked ==
  ASSUME ConfigMatches, DevModes \subseteq {FALSE}, DecimalsMatch
  PROVE  ReleaseRelayerSpec => []EveryUnitBacked
<1>1. Wellformed /\ BackingInv => EveryUnitBacked
  BY LedgersAddUp DEF EveryUnitBacked, BackingInv
<1> QED BY <1>1, RelayedBacking, RelayedWellformed, PTL

(* An open burn that neither the contract nor the watcher has paid can be   *)
(* refunded, unless some burn was both paid and refunded.                   *)
THEOREM WatchedBurnsAreRefundable ==
  ASSUME ConfigMatches, DevModes \subseteq {FALSE}, DecimalsMatch
  PROVE  ReleaseRelayerSpec => []OpenBurnsRefundable
<1>1. Wellformed /\ BackingInv /\ RefundInv => OpenBurnsRefundable
  BY RefundsRoom DEF BackingInv
<1> QED BY <1>1, RelayedBacking, RelayedWellformed, PTL
=============================================================================
