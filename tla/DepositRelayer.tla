--------------------------- MODULE DepositRelayer ---------------------------
(***************************************************************************)
(* relayer/src/watch-evm-requests.js: a loop that starts                   *)
(* process-evm-requests.js, waits for it to exit, and starts it again.  A  *)
(* round scans the deposit events, reads the processed ids once, builds    *)
(* every action of the batch, and pushes them one after the other; an      *)
(* exception at any point ends the round and forgets the batch.  Between   *)
(* the reads and the pushes everything else may happen, including proofs   *)
(* by others (ZeroBridge!MintNext).                                        *)
(***************************************************************************)
EXTENDS ZeroBridge

CONSTANTS
  RelayedBridge,    \* config.evm.escrowBridge
  RelayedPairs      \* config.pairs: pair id -> token and EVM decimals

ASSUME DepositRelayerAssumption ==
  /\ RelayedBridge \in EvmBridges
  /\ RelayedPairs \in [DOMAIN RelayedPairs -> [token: ZeroTokens, decimals: Nat]]

VARIABLES
  phase,   \* where the current round is
  batch    \* the request hashes it still works on

depositRelayerVars == <<phase, batch>>

StartOver == phase' = "waiting" /\ batch' = << >>

(* convertDecimals: exact on BigInt, and an exception for a remainder.      *)
RelayedQuantity(request) ==
  Convert(request.amount, RelayedPairs[request.pair].decimals,
          ZeroDecimals[RelayedPairs[request.pair].token])
CanBuild(h) ==
  LET request == requests[h]
      divisor == Pow10(RelayedPairs[request.pair].decimals
                       - ZeroDecimals[RelayedPairs[request.pair].token])
  IN  /\ request.pair \in DOMAIN RelayedPairs
      /\ RelayedPairs[request.pair].decimals > ZeroDecimals[RelayedPairs[request.pair].token]
           => request.amount % divisor = 0

(* scanEvmRequests, with a scanFromBlock before the first deposit.          *)
Scan ==
  /\ phase = "waiting"
  /\ phase' = "scanned"
  /\ batch' = SelectSeq([h \in DOMAIN requests |-> h],
                        LAMBDA h : requests[h].bridge = RelayedBridge)

(* Mutant of Candidates: the processed ids are not subtracted. *)
AllScanned == batch
Candidates == SelectSeq(batch, EvmRequestUnused)

(* getProcessedEvmRequestIds, and buildActionData for the whole batch.      *)
Build ==
  /\ phase = "scanned"
  /\ IF Candidates # << >> /\ \A k \in DOMAIN Candidates : CanBuild(Candidates[k])
     THEN phase' = "pushing" /\ batch' = Candidates
     ELSE StartOver

(* The chain accepts proveetoz with the arguments the relayer built.        *)
ChainAccepts(h) ==
  LET request == requests[h]
      q == RelayedQuantity(request)
  IN  /\ request.receiver \in Accounts
      /\ CanProve(request.pair, h, request.receiver, q, request.sender)
      /\ zpairs[request.pair].token = RelayedPairs[request.pair].token
      /\ CanIssue(asset[zpairs[request.pair].token], Bridge, q)

Transact(h) ==
  /\ phase = "pushing" /\ h = Head(batch)
  /\ ChainAccepts(h)
  /\ ProveEtoZ(requests[h].pair, h, requests[h].receiver, RelayedQuantity(requests[h]),
               requests[h].sender)

Delivered(h) ==
  /\ Transact(h)
  /\ IF Len(batch) > 1 THEN batch' = Tail(batch) /\ UNCHANGED phase ELSE StartOver
(* The transaction is applied and its answer is lost.                       *)
AnswerLost(h) == Transact(h) /\ StartOver

Rejected ==
  /\ phase = "pushing"
  /\ ~ChainAccepts(Head(batch))
  /\ StartOver

(* An RPC that fails, or a process that is killed.                          *)
Crash == phase # "waiting" /\ StartOver

DepositRelayerNext ==
  \/ (Scan \/ Build \/ Rejected \/ Crash) /\ UNCHANGED vars
  \/ \E h \in 1..MaxRequests : Delivered(h) \/ AnswerLost(h)

DepositRelayerSpec ==
  /\ Init /\ phase = "waiting" /\ batch = << >>
  /\ [][DepositRelayerNext \/ (Next /\ UNCHANGED depositRelayerVars)]_<<vars, depositRelayerVars>>

(* The watcher keeps going and the clock advances.  Reads succeed in the    *)
(* end, and so does a push that the chain would accept again and again: a   *)
(* round may fail, but not every round at the same point.                   *)
FairDepositRelayer ==
  /\ DepositRelayerSpec
  /\ WF_<<vars, depositRelayerVars>>(Tick /\ UNCHANGED <<asset, nativeVars, depositRelayerVars>>)
  /\ WF_<<vars, depositRelayerVars>>((Scan \/ Rejected) /\ UNCHANGED vars)
  /\ SF_<<vars, depositRelayerVars>>(Build /\ UNCHANGED vars)
  /\ \A h \in 1..MaxRequests : SF_<<vars, depositRelayerVars>>(Delivered(h))
-----------------------------------------------------------------------------
Proved(h) == ~EvmRequestUnused(h)

(* Somebody who knows the deposit could prove it now. *)
Provable(h) ==
  /\ h \in DOMAIN requests
  /\ requests[h].bridge = RelayedBridge
  /\ requests[h].receiver \in Accounts
  /\ CanProve(requests[h].pair, h, requests[h].receiver, requests[h].amount, requests[h].sender)
  /\ CanIssue(asset[zpairs[requests[h].pair].token], Bridge, requests[h].amount)

(* The watcher's promise (relayer/README.md, "Process every unprocessed     *)
(* request found in the configured scan window"): a deposit that stays      *)
(* provable is minted sooner or later.                                      *)
DepositsMinted ==
  \A h \in 1..MaxRequests : <>[](Proved(h) \/ Provable(h)) => <>Proved(h)

(* What the watcher does achieve, through crashes, lost answers and proofs  *)
(* by others: a deposit is minted if it and all earlier ones stay provable, *)
(* and no deposit makes buildActionData throw                               *)
(* (process-evm-requests.js:25-28, 71-91).                                  *)
InTurn(h) ==
  /\ Provable(h)
  /\ \A g \in DOMAIN requests :
       requests[g].bridge = RelayedBridge /\ ~Proved(g) =>
         CanBuild(g) /\ (g < h => Provable(g))
DepositsMintedInOrder ==
  \A h \in 1..MaxRequests : <>[](Proved(h) \/ InTurn(h)) => <>Proved(h)
=============================================================================
