------------------------ MODULE DepositRelayerProofs ------------------------
(***************************************************************************)
(* The deposit watcher next to everything else.  It changes the chains     *)
(* only by proofs that anybody could send: with its rounds, crashes, lost  *)
(* answers and stale reads, the whole system still is a bridge as          *)
(* ZeroBridge specifies it, and keeps what is proved of every bridge.      *)
(***************************************************************************)
EXTENDS DepositRelayer, ZeroBridgeBackingProofs

(* A stored amount is one that a depositor passed. *)
DepositsTaken == \A h \in DOMAIN requests : requests[h].amount \in Amounts

LEMMA DepositsTakenStep ==
  ASSUME Wellformed, DepositsTaken, [Next]_vars
  PROVE  DepositsTaken'
<1>1. CASE UNCHANGED requests
  BY <1>1 DEF DepositsTaken
<1>2. CASE DepositMade
  <2>1. PICK b \in EvmBridges, p \in PairIds, sender \in EvmUsers, amount \in Amounts,
             receiver \in ZeroReceivers : DepositToZero(b, p, sender, amount, receiver)
    BY <1>2 DEF DepositMade
  <2> DEFINE row == StoredRequest(b, p, sender, amount, receiver)
  <2>2. row \in RequestRow /\ row.amount = amount
    BY EvmEscrowAssumption DEF StoredRequest, RequestRow, PairIds, Wellformed, EvmTypeOK
  <2>3. requests' = Append(requests, row) /\ requests \in Seq(RequestRow)
    BY <2>1 DEF DepositToZero, Wellformed, EvmTypeOK
  <2> HIDE DEF row
  <2>4. /\ DOMAIN requests = 1..Len(requests) /\ DOMAIN requests' = 1..(Len(requests) + 1)
        /\ Len(requests) \in Nat /\ requests'[Len(requests) + 1] = row
        /\ \A h \in 1..Len(requests) : requests'[h] = requests[h]
    BY <2>2, <2>3, RowAppended
  <2> QED BY <2>2, <2>4 DEF DepositsTaken
<1>3. ASSUME ReleaseMade PROVE UNCHANGED requests
  BY <1>3 DEF ReleaseMade, ReleaseToEvm
<1>4. UNCHANGED evmVars \/ EvmOwnNext \/ ReleaseMade
  BY EvmSideStep
<1>5. UNCHANGED requests \/ DepositMade
  BY <1>3, <1>4, RecordsStep DEF RecordsStand, evmVars
<1> QED BY <1>1, <1>2, <1>5

(* What the watcher pushes is a proof with the stored words of a deposit.   *)
LEMMA TransactIsMint ==
  ASSUME Wellformed, DepositsTaken, NEW h \in 1..MaxRequests, Transact(h)
  PROVE  MintNext
<1> DEFINE request == requests[h]
           q == RelayedQuantity(request)
<1>1. /\ request.receiver \in Accounts
      /\ CanProve(request.pair, h, request.receiver, q, request.sender)
      /\ ProveEtoZ(request.pair, h, request.receiver, q, request.sender)
  BY DEF Transact, ChainAccepts
<1>2. /\ request.pair \in DOMAIN zpairs /\ h \in DOMAIN requests /\ request.amount = q
  BY <1>1 DEF CanProve, ActiveZPair, ProofMatches
<1>3. request.pair \in PairIds /\ request.sender \in EvmUsers /\ q \in Amounts
  <2>1. request \in RequestRow /\ DOMAIN zpairs \subseteq PairIds
    BY <1>2 DEF Wellformed, EvmTypeOK, NativeTypeOK
  <2> HIDE DEF q
  <2> QED BY <1>2, <2>1 DEF RequestRow, DepositsTaken
<1> HIDE DEF q
<1> QED BY <1>1, <1>3 DEF MintNext

WatchedNext == DepositRelayerNext \/ (Next /\ UNCHANGED depositRelayerVars)

(* A step of the watcher leaves the chains alone or is a proof.             *)
LEMMA WatchedStep ==
  ASSUME Wellformed, DepositsTaken, [WatchedNext]_<<vars, depositRelayerVars>>
  PROVE  [Next]_vars
<1>1. ASSUME NEW h \in 1..MaxRequests, Delivered(h) \/ AnswerLost(h) PROVE Next
  BY <1>1, TransactIsMint DEF Delivered, AnswerLost, Next
<1> QED BY <1>1 DEF WatchedNext, DepositRelayerNext

(* The watcher is one more caller of the bridge: with it, the chains behave *)
(* as they may behave without it (process-evm-requests.js:71-117).          *)
THEOREM WatcherIsACaller == DepositRelayerSpec => Spec
<1>1. Init => Wellformed /\ DepositsTaken
  BY WellformedInit, EmptySeq DEF Init, EvmInit, DepositsTaken
<1>2. Wellformed /\ DepositsTaken /\ [WatchedNext]_<<vars, depositRelayerVars>> => [Next]_vars
  BY WatchedStep
<1>3. Wellformed /\ DepositsTaken /\ [Next]_vars => Wellformed' /\ DepositsTaken'
  BY WellformedStep, DepositsTakenStep
<1> QED BY <1>1, <1>2, <1>3, PTL DEF DepositRelayerSpec, WatchedNext, Spec

(* No deposit is minted twice or as anything but what it is, however often  *)
(* a round is forgotten with its proof applied.                             *)
THEOREM WatchedMintsAreDeposits ==
  ASSUME DevModes \subseteq {FALSE}
  PROVE  DepositRelayerSpec => []MintsMatchDeposits
BY WatcherIsACaller, MintsAreDeposits, PTL

(* Every claim is honoured with the watcher at work: a mint is the proof of *)
(* a deposit not minted before, for the account it names.                   *)
THEOREM WatcherHonoursClaims ==
  ASSUME DevModes \subseteq {FALSE}
  PROVE  DepositRelayerSpec => HonoursClaims
BY WatcherIsACaller, BridgeHonoursClaims, PTL

(* The EVM side still covers the Zero supply, the deposits the watcher has  *)
(* not got minted yet and the burns not yet paid.                           *)
THEOREM WatchedUnitsAreBacked ==
  ASSUME DevModes \subseteq {FALSE}, DecimalsMatch
  PROVE  DepositRelayerSpec => []EveryUnitBacked
BY WatcherIsACaller, UnitsAreBacked, PTL
=============================================================================
