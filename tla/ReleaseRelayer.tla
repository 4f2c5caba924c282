--------------------------- MODULE ReleaseRelayer ---------------------------
(***************************************************************************)
(* relayer/src/watch-zero-requests.js: a loop that starts                  *)
(* process-zero-requests.js, waits for it to exit, and starts it again.  A *)
(* round reads the burn rows once, asks the EVM bridge row by row which of *)
(* them it has processed, checks its key, and sends releaseToEvm for one   *)
(* after the other, waiting for each receipt.  An exception ends the round *)
(* and forgets everything but the transactions already sent.               *)
(***************************************************************************)
EXTENDS ZeroBridge, Functions

CONSTANTS
  RelayedBridge,    \* config.evm.escrowBridge
  RelayedPairs,     \* config.pairs: pair id -> token and EVM decimals
  RelayerKey,       \* the address of the private key
  MaxPending        \* bound on transactions sent and not mined

ASSUME ReleaseRelayerAssumption ==
  /\ RelayedBridge \in EvmBridges
  /\ RelayedPairs \in [DOMAIN RelayedPairs -> [token: ZeroTokens, decimals: Nat]]
  /\ MaxPending \in Nat

VARIABLES
  phase,     \* where the current round is
  rows,      \* burn rows still to be looked up
  releases,  \* burn rows to release
  pending    \* transactions sent and not mined, as burn ids

relayerVars == <<phase, rows, releases, pending>>

StartOver == phase' = "waiting" /\ rows' = << >> /\ releases' = << >>
InFlight == Range(rows) \cup Range(releases) \cup Range(pending)

(* convertDecimals of lib/ztoe.js: exact on BigInt, or an exception.        *)
RelayedDecimals(request) == RelayedPairs[request.pair].decimals
BurnDecimals(request) == ZeroDecimals[zpairs[request.pair].token]

(* Mutant of RelayedAmount: the quantity is sent as it is. *)
UnconvertedAmount(request) == request.quantity
RelayedAmount(request) ==
  Convert(request.quantity, BurnDecimals(request), RelayedDecimals(request))

CanBuild(request) ==
  /\ request.pair \in DOMAIN RelayedPairs
  /\ zpairs[request.pair].token = RelayedPairs[request.pair].token
  /\ BurnDecimals(request) > RelayedDecimals(request) =>
       request.quantity % Pow10(BurnDecimals(request) - RelayedDecimals(request)) = 0

(* Mutant of Relayable: the refunded rows are not skipped. *)
AnyRow(i) == TRUE
Relayable(i) == ~ztoe[i].refunded

(* The members of S among 1..n, in order. *)
Ascending(S, n) ==
  LET kept[i \in 0..n] ==
        IF i = 0 THEN << >> ELSE IF i \in S THEN Append(kept[i-1], i) ELSE kept[i-1]
  IN  kept[n]

(* getZeroToEvmRequests, and buildZeroToEvmRelease for every row; a round   *)
(* with nothing to do, or with a row that makes it throw, changes nothing.  *)
Scan ==
  /\ phase = "waiting"
  /\ LET read == Ascending({i \in DOMAIN ztoe : Relayable(i)}, Len(ztoe))
     IN  /\ read # << >>
         /\ \A i \in Range(read) : CanBuild(ztoe[i])
         /\ phase' = "checking" /\ rows' = read
  /\ UNCHANGED <<releases, pending>>

(* Mutant of Unprocessed: the answer of processedZeroBurns is not used. *)
Unasked(i) == TRUE
Unprocessed(i) == <<RelayedBridge, i>> \notin processed

Check(i) ==
  /\ phase = "checking" /\ rows # << >> /\ i = Head(rows)
  /\ rows' = Tail(rows)
  /\ releases' = IF Unprocessed(i) THEN Append(releases, i) ELSE releases
  /\ UNCHANGED <<phase, pending>>

(* The key is only looked at when there is something to release.            *)
Start ==
  /\ phase = "checking" /\ rows = << >>
  /\ IF releases # << >> /\ RelayerKey = ZeroBridgeOf[RelayedBridge]
     THEN phase' = "sending" /\ UNCHANGED <<rows, releases>>
     ELSE StartOver
  /\ UNCHANGED pending

Acceptable(i, sender) ==
  CanRelease(RelayedBridge, sender, ztoe[i].pair, RelayedAmount(ztoe[i]), ztoe[i].receiver, i)

(* writeContract estimates the gas first, and throws if the call reverts.   *)
Send(i) ==
  /\ phase = "sending" /\ i = Head(releases)
  /\ Acceptable(i, RelayerKey)
  /\ Len(pending) < MaxPending
  /\ phase' = "awaiting" /\ pending' = Append(pending, i)
  /\ UNCHANGED <<rows, releases>>

Rejected ==
  /\ phase = "sending"
  /\ ~Acceptable(Head(releases), RelayerKey)
  /\ StartOver
  /\ UNCHANGED pending

(* waitForTransactionReceipt; a receipt that says reverted is as good.      *)
Receipt ==
  /\ phase = "awaiting"
  /\ Head(releases) \notin Range(pending)
  /\ IF Len(releases) > 1
     THEN phase' = "sending" /\ releases' = Tail(releases) /\ UNCHANGED rows
     ELSE StartOver
  /\ UNCHANGED pending

(* An RPC that fails, a receipt that times out, or a process that is killed. *)
Crash == phase # "waiting" /\ StartOver /\ UNCHANGED pending

(* The oldest transaction is mined, whether or not anybody waits for it.    *)
Mine ==
  /\ pending # << >>
  /\ LET i == Head(pending)
     IN  \/ ReleaseToEvm(RelayedBridge, RelayerKey, ztoe[i].pair, RelayedAmount(ztoe[i]),
                         ztoe[i].receiver, i)
         \/ /\ Acceptable(i, RelayerKey) => GasMayFail
            /\ UNCHANGED evmVars
  /\ pending' = Tail(pending)
  /\ UNCHANGED <<phase, rows, releases, asset, nativeVars>>

ReleaseRelayerNext ==
  \/ (Scan \/ Start \/ Rejected \/ Receipt \/ Crash) /\ UNCHANGED vars
  \/ \E i \in 1..MaxRequests : (Check(i) \/ Send(i)) /\ UNCHANGED vars
  \/ Mine

ReleaseRelayerSpec ==
  /\ Init /\ phase = "waiting" /\ rows = << >> /\ releases = << >> /\ pending = << >>
  /\ [][ReleaseRelayerNext \/ (Next /\ UNCHANGED relayerVars)]_<<vars, relayerVars>>

(* The watcher keeps going and sent transactions are mined.  Reads, sends   *)
(* and receipts fail sometimes but not every time.  Holders who want to     *)
(* leave keep trying, as in FairSpec.                                       *)
FairReleaseRelayer ==
  /\ ReleaseRelayerSpec
  /\ WF_<<vars, relayerVars>>(Mine)
  /\ WF_<<vars, relayerVars>>((Scan \/ Rejected) /\ UNCHANGED vars)
  /\ SF_<<vars, relayerVars>>(Start /\ UNCHANGED vars)
  /\ SF_<<vars, relayerVars>>(Receipt /\ UNCHANGED vars)
  /\ \A i \in 1..MaxRequests : /\ SF_<<vars, relayerVars>>(Check(i) /\ UNCHANGED vars)
                              /\ SF_<<vars, relayerVars>>(Send(i) /\ UNCHANGED vars)
  /\ WF_<<vars, relayerVars>>(ExitAttempt /\ UNCHANGED relayerVars)
-----------------------------------------------------------------------------
(* The watcher's promise (relayer/README.md, "Keep watching for stalled     *)
(* native burn requests"): a burn is released if the EVM bridge would stay  *)
(* willing to pay it and all earlier open ones, and no open burn makes      *)
(* buildZeroToEvmRelease throw (process-zero-requests.js:38-49, 92-112).    *)
Released(i) == <<RelayedBridge, i>> \in processed
InTurn(i) ==
  /\ i \in DOMAIN ztoe /\ ~ztoe[i].refunded
  /\ \A k \in DOMAIN ztoe :
       ~ztoe[k].refunded =>
         /\ CanBuild(ztoe[k])
         /\ k <= i => Released(k) \/ Acceptable(k, ZeroBridgeOf[RelayedBridge])
BurnsReleasedInOrder ==
  \A i \in 1..MaxRequests : <>[](Released(i) \/ InTurn(i)) => <>Released(i)

(* A refund that the watcher can see is final even though the EVM bridge    *)
(* does not know of refunds: a burn that is refunded and in no round or     *)
(* transaction of the watcher never gets into one again, and stays unpaid   *)
(* (process-zero-requests.js:38-48, lib/ztoe.js:25).                        *)
RefundIsSeen ==
  \A i \in DOMAIN ztoe :
    ztoe[i].refunded /\ i \notin InFlight => i \notin InFlight' /\ (Released(i)' => Released(i))
SeenRefundIsFinal == [][RefundIsSeen]_<<vars, relayerVars>>
=============================================================================
