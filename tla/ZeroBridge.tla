----------------------------- MODULE ZeroBridge -----------------------------
(***************************************************************************)
(* contracts/native/zero.bridge, composed with the token contract it mints *)
(* and burns (ZeroAsset) and the EVM contracts whose storage it reads and  *)
(* whose releaseToEvm it calls through eosio.evm (EvmEscrow).  Both sides  *)
(* live on one chain: a native transaction, its inline actions and the EVM *)
(* call it dispatches are one step.                                        *)
(*                                                                         *)
(* Admin actions are signed by config.admin; a transaction that fails a    *)
(* check is aborted as a whole and is no step.                             *)
(***************************************************************************)
EXTENDS ZeroAsset, EvmEscrow, Decimals

CONSTANTS
  Bridge,          \* the account zero.bridge is deployed to
  InitialBalances, \* balances of each Zero token before bridging starts
  MaxSupply,       \* max_supply of each Zero token
  ZeroDecimals,    \* symbol precision of each Zero token
  LinkedAddress,   \* the EVM address eosio.evm links to Bridge
  EvmChainId,      \* the chain id eosio.evm accepts
  GasMayFail,      \* whether a release may run out of ZERO_TO_EVM_RELEASE_GAS_LIMIT
  Admins, RelayAccounts, DevModes, FinalityDelays, ChainIds,  \* inputs of the
  PairInputs, PairLimits                                      \* admin actions

TELOS_EVM_TESTNET_CHAIN_ID == 41
MAX_FINALITY_DELAY_SEC == 86400

ZeroLimits == [min: Int, max: Int]

ASSUME ZeroBridgeAssumption ==
  /\ Bridge \in Accounts
  /\ InitialBalances \in [ZeroTokens -> [Accounts -> Nat]]
  /\ MaxSupply \in [ZeroTokens -> Nat]
  /\ \A t \in ZeroTokens : Total(InitialBalances[t], NumAccounts) <= MaxSupply[t]
  /\ ZeroDecimals \in [ZeroTokens -> Nat]
  /\ GasMayFail \in BOOLEAN
  /\ Admins \subseteq Accounts /\ RelayAccounts \subseteq Accounts
  /\ DevModes \subseteq BOOLEAN
  /\ FinalityDelays \subseteq Nat /\ ChainIds \subseteq Nat
  /\ PairInputs \subseteq [id: Nat, token: ZeroTokens, decimals: Nat, limits: ZeroLimits]
  /\ PairLimits \subseteq ZeroLimits

VARIABLES
  config,      \* config singleton
  evmconfig,   \* evmconfig singleton
  zpairs,      \* pairs table: pair id -> row
  etoz,        \* etozreqs table: row with primary key k-1 is etoz[k]
  ztoe         \* ztoereqs table; burn_id, the hash of the row, is its index

nativeVars == <<config, evmconfig, zpairs, etoz, ztoe>>
vars == <<asset, evmVars, nativeVars>>

ConfigRow == [exists: BOOLEAN, admin: Accounts, evmAccount: Accounts,
              paused: BOOLEAN, devMode: BOOLEAN]
EvmConfigRow == [exists: BOOLEAN, bridge: EvmBridges \cup {ZeroAddress},
                 delay: Nat, chainId: Nat]
ZPairRow == [token: ZeroTokens, decimals: Nat, active: BOOLEAN, limits: ZeroLimits]
EtozRow == [evmRequest: Nat, pair: PairIds, receiver: Accounts, quantity: Int,
            sender: EvmUsers]
ZtoeRow == [pair: PairIds, sender: Accounts, quantity: Int,
            receiver: EvmAddrs \cup {ZeroAddress}, createdAt: Nat, refunded: BOOLEAN]

RequireAdmin == config.exists

(* get_active_pair, and the checks on a quantity of its symbol *)
ActiveZPair(p) == p \in DOMAIN zpairs /\ zpairs[p].active
QuantityAllowed(p, q) == q \in zpairs[p].limits.min .. zpairs[p].limits.max

(* Mutant of EvmRequestUnused: a mint row is not looked up. *)
EvmRequestUnchecked(h) == TRUE

EvmRequestUnused(h) == \A k \in DOMAIN etoz : etoz[k].evmRequest # h

(* Mutant of PastDelay: the delay has to be over by more than a second, and *)
(* a delay of zero is no exception.                                         *)
WellPastDelay(createdAt) == createdAt + evmconfig.delay < now

PastDelay(createdAt) ==
  evmconfig.delay > 0 => createdAt + evmconfig.delay <= now

(* Mutants of ProofMatches: a word of the proof that is not compared. *)
ProofMatchesAnyReceiver(h, p, receiver, q, sender) ==
  /\ h \in DOMAIN requests
  /\ requests[h].bridge = evmconfig.bridge
  /\ requests[h].pair = p
  /\ requests[h].amount = q
  /\ requests[h].sender = sender
ProofMatchesAnyPair(h, p, receiver, q, sender) ==
  /\ h \in DOMAIN requests
  /\ requests[h].bridge = evmconfig.bridge
  /\ requests[h].amount = q
  /\ requests[h].sender = sender
  /\ requests[h].receiver = receiver

(* The proof words proveetoz reads in the scope of the configured bridge.   *)
ProofMatches(h, p, receiver, q, sender) ==
  /\ h \in DOMAIN requests
  /\ requests[h].bridge = evmconfig.bridge
  /\ requests[h].pair = p
  /\ requests[h].amount = q
  /\ requests[h].sender = sender
  /\ requests[h].receiver = receiver
  /\ requests[h].createdAt > 0

EvmAmount(request) ==
  Convert(request.quantity, ZeroDecimals[zpairs[request.pair].token],
          zpairs[request.pair].decimals)

(* A request that has been neither refunded nor released on the configured  *)
(* bridge; the mutant looks at the release alone.                           *)
Unreleased(request, burn) == <<evmconfig.bridge, burn>> \notin processed
Unsettled(request, burn) ==
  ~request.refunded /\ <<evmconfig.bridge, burn>> \notin processed

(* The checks of release_ztoe_request. *)
CanRelay(request, burn) ==
  /\ config.exists /\ evmconfig.exists
  /\ ~config.paused
  /\ config.evmAccount = Bridge
  /\ Unsettled(request, burn)
  /\ ActiveZPair(request.pair)
  /\ QuantityAllowed(request.pair, request.quantity)
  /\ PastDelay(request.createdAt)
  /\ CanConvert(request.quantity, ZeroDecimals[zpairs[request.pair].token],
                zpairs[request.pair].decimals)

RawSucceeds(request, burn) ==
  /\ evmconfig.chainId = EvmChainId
  /\ CanRelease(evmconfig.bridge, LinkedAddress, request.pair, EvmAmount(request),
                request.receiver, burn)

(* Mutant of Raw: the quantity is sent without conversion. *)
RawUnconverted(request, burn) ==
  \/ ReleaseToEvm(evmconfig.bridge, LinkedAddress, request.pair, request.quantity,
                  request.receiver, burn)
  \/ UNCHANGED evmVars

(* eosio.evm's raw action: a release that reverts or runs out of gas        *)
(* leaves the EVM side as it was and does not abort the native transaction. *)
Raw(request, burn) ==
  \/ /\ RawSucceeds(request, burn)
     /\ ReleaseToEvm(evmconfig.bridge, LinkedAddress, request.pair, EvmAmount(request),
                     request.receiver, burn)
  \/ /\ RawSucceeds(request, burn) => GasMayFail
     /\ UNCHANGED evmVars
-----------------------------------------------------------------------------
(* The tokens exist and are issued by the bridge account; the bridge is     *)
(* deployed and not initialised.                                            *)
Init ==
  /\ EvmInit
  /\ asset = [t \in ZeroTokens |->
                [exists |-> TRUE, issuer |-> Bridge, maxSupply |-> MaxSupply[t],
                 supply |-> Total(InitialBalances[t], NumAccounts),
                 balance |-> InitialBalances[t]]]
  /\ config = [exists |-> FALSE, admin |-> Bridge, evmAccount |-> Bridge,
               paused |-> FALSE, devMode |-> FALSE]
  /\ evmconfig = [exists |-> FALSE, bridge |-> ZeroAddress, delay |-> 0, chainId |-> 0]
  /\ zpairs = << >>
  /\ etoz = << >>
  /\ ztoe = << >>

InitBridge(admin, evmAccount, devMode) ==
  /\ ~config.exists
  /\ config' = [exists |-> TRUE, admin |-> admin, evmAccount |-> evmAccount,
                paused |-> FALSE, devMode |-> devMode]
  /\ UNCHANGED <<evmconfig, zpairs, etoz, ztoe, asset, evmVars>>

SetAdmin(admin) ==
  /\ RequireAdmin
  /\ config' = [config EXCEPT !.admin = admin]
  /\ UNCHANGED <<evmconfig, zpairs, etoz, ztoe, asset, evmVars>>

SetDevMode(devMode) ==
  /\ RequireAdmin
  /\ config' = [config EXCEPT !.devMode = devMode]
  /\ UNCHANGED <<evmconfig, zpairs, etoz, ztoe, asset, evmVars>>

SetEvmRelay(evmAccount) ==
  /\ RequireAdmin
  /\ evmAccount = Bridge
  /\ config' = [config EXCEPT !.evmAccount = evmAccount]
  /\ UNCHANGED <<evmconfig, zpairs, etoz, ztoe, asset, evmVars>>

Pause(paused) ==
  /\ RequireAdmin
  /\ config' = [config EXCEPT !.paused = paused]
  /\ UNCHANGED <<evmconfig, zpairs, etoz, ztoe, asset, evmVars>>

(* Any account eosio.evm knows passes the check of setevmconf; the admin is *)
(* trusted to name a deployment, of the registry the tokens are paired in.  *)
SetEvmConf(b, delay) ==
  /\ RequireAdmin
  /\ delay <= MAX_FINALITY_DELAY_SEC
  /\ evmconfig' = [exists |-> TRUE, bridge |-> b, delay |-> delay,
                   chainId |-> IF evmconfig.exists THEN evmconfig.chainId
                                                   ELSE TELOS_EVM_TESTNET_CHAIN_ID]
  /\ UNCHANGED <<config, zpairs, etoz, ztoe, asset, evmVars>>

SetEvmChain(chainId) ==
  /\ RequireAdmin
  /\ chainId > 0
  /\ evmconfig.exists
  /\ evmconfig' = [evmconfig EXCEPT !.chainId = chainId]
  /\ UNCHANGED <<config, zpairs, etoz, ztoe, asset, evmVars>>

ValidZeroLimits(l) == l.min > 0 /\ l.max >= l.min

(* Mutant of ValidPairId: pair ids start at zero. *)
AnyPairId(id) == id <= MaxPairs
ValidPairId(id) == id > 0 /\ id <= MaxPairs

AddPair(in) ==
  /\ RequireAdmin
  /\ ValidPairId(in.id)
  /\ in.decimals <= 36
  /\ ValidZeroLimits(in.limits)
  /\ in.id \notin DOMAIN zpairs
  /\ \A p \in DOMAIN zpairs : zpairs[p].token # in.token
  /\ zpairs' = [p \in DOMAIN zpairs \cup {in.id} |->
                  IF p = in.id THEN [token |-> in.token, decimals |-> in.decimals,
                                     active |-> TRUE, limits |-> in.limits]
                               ELSE zpairs[p]]
  /\ UNCHANGED <<config, evmconfig, etoz, ztoe, asset, evmVars>>

SetPair(p, active, limits) ==
  /\ RequireAdmin
  /\ p \in DOMAIN zpairs
  /\ ValidZeroLimits(limits)
  /\ zpairs' = [zpairs EXCEPT ![p].active = active, ![p].limits = limits]
  /\ UNCHANGED <<config, evmconfig, etoz, ztoe, asset, evmVars>>

(* Mutant of Mint: the issue is sent and the row is not stored. *)
MintUnrecorded(p, h, receiver, q, sender) ==
  /\ CanIssue(asset[zpairs[p].token], Bridge, q)
  /\ asset' = [asset EXCEPT ![zpairs[p].token] = Issued(@, receiver, q)]
  /\ UNCHANGED <<config, evmconfig, zpairs, etoz, ztoe, evmVars>>

(* The row both processors store, and the issue they send. *)
Mint(p, h, receiver, q, sender) ==
  /\ CanIssue(asset[zpairs[p].token], Bridge, q)
  /\ Len(etoz) < MaxRequests
  /\ etoz' = Append(etoz, [evmRequest |-> h, pair |-> p, receiver |-> receiver,
                           quantity |-> q, sender |-> sender])
  /\ asset' = [asset EXCEPT ![zpairs[p].token] = Issued(@, receiver, q)]
  /\ UNCHANGED <<config, evmconfig, zpairs, ztoe, evmVars>>

ProcessEtoZ(p, h, receiver, q, sender) ==
  /\ RequireAdmin
  /\ config.devMode
  /\ ~config.paused
  /\ ActiveZPair(p)
  /\ QuantityAllowed(p, q)
  /\ EvmRequestUnused(h)
  /\ Mint(p, h, receiver, q, sender)

CanProve(p, h, receiver, q, sender) ==
  /\ config.exists /\ evmconfig.exists
  /\ ~config.paused
  /\ ActiveZPair(p)
  /\ q > 0
  /\ QuantityAllowed(p, q)
  /\ EvmRequestUnused(h)
  /\ ProofMatches(h, p, receiver, q, sender)
  /\ PastDelay(requests[h].createdAt)

ProveEtoZ(p, h, receiver, q, sender) ==
  /\ CanProve(p, h, receiver, q, sender)
  /\ Mint(p, h, receiver, q, sender)

(* Mutant of CanRefund: the refunded flag is not looked at. *)
CanRefundAgain(i) == RequireAdmin /\ i \in DOMAIN ztoe
CanRefund(i) == RequireAdmin /\ i \in DOMAIN ztoe /\ ~ztoe[i].refunded

RefundZtoE(i) ==
  /\ CanRefund(i)
  /\ ztoe[i].pair \in DOMAIN zpairs
  /\ CanIssue(asset[zpairs[ztoe[i].pair].token], Bridge, ztoe[i].quantity)
  /\ ztoe' = [ztoe EXCEPT ![i].refunded = TRUE]
  /\ asset' = [asset EXCEPT ![zpairs[ztoe[i].pair].token] =
                 Issued(@, ztoe[i].sender, ztoe[i].quantity)]
  /\ UNCHANGED <<config, evmconfig, zpairs, etoz, evmVars>>

RelayZtoE(i) ==
  /\ i \in DOMAIN ztoe
  /\ CanRelay(ztoe[i], i)
  /\ Raw(ztoe[i], i)
  /\ UNCHANGED <<nativeVars, asset>>

(* A transfer to the bridge of a paired token, with an EVM address as its   *)
(* memo: the row, the burn and the release attempt are one transaction.     *)
OnTransfer(p, from, q, memo) ==
  /\ from # Bridge
  /\ p \in DOMAIN zpairs
  /\ CanTransfer(asset[zpairs[p].token], from, Bridge, q)
  /\ ActiveZPair(p)
  /\ QuantityAllowed(p, q)
  /\ Len(ztoe) < MaxRequests
  /\ LET request == [pair |-> p, sender |-> from, quantity |-> q, receiver |-> memo,
                     createdAt |-> now, refunded |-> FALSE]
     IN  /\ CanRelay(request, Len(ztoe) + 1)
         /\ ztoe' = Append(ztoe, request)
         /\ Raw(request, Len(ztoe) + 1)
  /\ asset' = [asset EXCEPT ![zpairs[p].token] =
                 Burned(Transferred(@, from, Bridge, q), Bridge, q)]
  /\ UNCHANGED <<config, evmconfig, zpairs, etoz>>

(* Any other transfer; the bridge's notification handler aborts it while    *)
(* the bridge is paused or not initialised, and ignores an unpaired token.  *)
PlainTransfer(t, from, to, q) ==
  /\ to = Bridge /\ from # Bridge =>
       /\ config.exists
       /\ ~config.paused
       /\ \A p \in DOMAIN zpairs : zpairs[p].token # t
  /\ Transfer(t, from, to, q)
  /\ UNCHANGED <<nativeVars, evmVars>>

OwnBurn(t, owner, q) ==
  /\ Burn(t, owner, q)
  /\ UNCHANGED <<nativeVars, evmVars>>

EvmStep == EvmOwnNext /\ UNCHANGED <<asset, nativeVars>>

AdminNext ==
  \/ \E admin \in Admins, evmAccount \in RelayAccounts, devMode \in DevModes :
        InitBridge(admin, evmAccount, devMode)
  \/ \E admin \in Admins : SetAdmin(admin)
  \/ \E devMode \in DevModes : SetDevMode(devMode)
  \/ \E evmAccount \in RelayAccounts : SetEvmRelay(evmAccount)
  \/ \E paused \in BOOLEAN : Pause(paused)
  \/ \E b \in EvmBridges, delay \in FinalityDelays : SetEvmConf(b, delay)
  \/ \E chainId \in ChainIds : SetEvmChain(chainId)
  \/ \E in \in PairInputs : AddPair(in)
  \/ \E p \in PairIds, active \in BOOLEAN, limits \in PairLimits : SetPair(p, active, limits)
  \/ \E i \in 1..MaxRequests : RefundZtoE(i)

(* Anybody may send a proof; only the amount of a deposit can match one.    *)
MintNext ==
  \E p \in PairIds, h \in 1..MaxRequests, receiver \in Accounts, sender \in EvmUsers :
    \/ \E q \in Quantities : ProcessEtoZ(p, h, receiver, q, sender)
    \/ \E q \in Amounts : ProveEtoZ(p, h, receiver, q, sender)

ExitNext ==
  \/ \E p \in PairIds, from \in Accounts, q \in Quantities, memo \in EvmAddrs \cup {ZeroAddress} :
        OnTransfer(p, from, q, memo)
  \/ \E i \in 1..MaxRequests : RelayZtoE(i)

AssetUserNext ==
  \E t \in ZeroTokens, from \in Accounts, q \in Quantities :
    \/ \E to \in Accounts : PlainTransfer(t, from, to, q)
    \/ OwnBurn(t, from, q)

Next == AdminNext \/ MintNext \/ ExitNext \/ AssetUserNext \/ EvmStep

Spec == Init /\ [][Next]_vars

(* A holder who keeps trying to leave, on a chain whose clock advances.     *)
ExitAttempt ==
  \E p \in PairIds, from \in Accounts, q \in Quantities, memo \in EvmUsers :
    OnTransfer(p, from, q, memo)

FairSpec ==
  /\ Spec
  /\ WF_vars(Tick /\ UNCHANGED <<asset, nativeVars>>)
  /\ WF_vars(ExitAttempt)
-----------------------------------------------------------------------------
TypeOK ==
  /\ AssetTypeOK
  /\ EvmTypeOK
  /\ config \in ConfigRow
  /\ evmconfig \in EvmConfigRow
  /\ DOMAIN zpairs \subseteq PairIds /\ zpairs \in [DOMAIN zpairs -> ZPairRow]
  /\ etoz \in Seq(EtozRow)
  /\ ztoe \in Seq(ZtoeRow)

(* Sums over the bridge's tables. *)
MintedFor(p) ==
  Total([k \in DOMAIN etoz |-> IF etoz[k].pair = p THEN etoz[k].quantity ELSE 0], Len(etoz))
BurnedFor(p) ==
  Total([i \in DOMAIN ztoe |-> IF ztoe[i].pair = p /\ ~ztoe[i].refunded
                               THEN ztoe[i].quantity ELSE 0], Len(ztoe))
UnmintedFor(p) ==
  Total([h \in DOMAIN requests |-> IF requests[h].pair = p /\ EvmRequestUnused(h)
                                   THEN requests[h].amount ELSE 0], Len(requests))
ReleasesFor(i) ==
  Total([b \in EvmBridges |-> IF <<b, i>> \in processed THEN 1 ELSE 0], NumEvmBridges)
OwedFor(p) ==
  Total([i \in DOMAIN ztoe |->
           IF ztoe[i].pair = p
           THEN ztoe[i].quantity * (1 - ReleasesFor(i) - (IF ztoe[i].refunded THEN 1 ELSE 0))
           ELSE 0], Len(ztoe))
InitialSupply(t) == Total(InitialBalances[t], NumAccounts)

(* The native ledger agrees with the bridge's own tables: every unit above  *)
(* the initial supply has a mint row, every burned and not refunded row has *)
(* left the supply (zero.bridge.cpp:236-251, 311-326, 339-348, 426-444).    *)
SupplyMatchesTables ==
  \A p \in DOMAIN zpairs :
    asset[zpairs[p].token].supply + BurnedFor(p)
      <= InitialSupply(zpairs[p].token) + MintedFor(p)

(* Without dev mode every mint row stands for one EVM deposit of its own,   *)
(* of the same pair, amount, sender and receiver, whatever was reconfigured *)
(* between the deposit and the proof (zero.bridge.cpp:274-317).             *)
MintsMatchDeposits ==
  \A k \in DOMAIN etoz :
    /\ etoz[k].evmRequest \in DOMAIN requests
    /\ LET deposit == requests[etoz[k].evmRequest]
       IN  /\ deposit.pair = etoz[k].pair
           /\ deposit.amount = etoz[k].quantity
           /\ deposit.receiver = etoz[k].receiver
           /\ deposit.sender = etoz[k].sender
    /\ \A l \in DOMAIN etoz : etoz[l].evmRequest = etoz[k].evmRequest => l = k

(* Every payout on the EVM side is that of one burn on the Zero side: same  *)
(* pair, converted amount and receiver, and a burn pays at most once on any *)
(* bridge, however often relayztoe is called for it                         *)
(* (zero.bridge.cpp:383-403, EvmEscrowBridge.sol:161-168).                  *)
ReleasesMatchBurns ==
  \A e \in DOMAIN released :
    /\ released[e].burn \in DOMAIN ztoe
    /\ LET request == ztoe[released[e].burn]
       IN  /\ request.pair = released[e].pair
           /\ EvmAmount(request) = released[e].amount
           /\ request.receiver = released[e].receiver
    /\ \A f \in DOMAIN released :
         released[f].bridge = released[e].bridge /\ released[f].burn = released[e].burn
           => f = e

(* The two sides together, for pairs with the same decimals and no dev      *)
(* mode: what the EVM side holds for a pair covers the Zero supply, the     *)
(* deposits not yet minted and the burns not yet paid, where a burn that is *)
(* both refunded and released has been paid twice and counts minus one.     *)
EveryUnitBacked ==
  \A p \in DOMAIN registry \cap DOMAIN zpairs :
    EvmSide(p) + InitialSupply(zpairs[p].token)
      >= asset[zpairs[p].token].supply + UnmintedFor(p) + OwedFor(p)

(* A refund is final: a refunded burn is never released afterwards and the  *)
(* refund is not taken back (zero.bridge.cpp:343-347, 363-365).             *)
RefundStands ==
  \A i \in DOMAIN ztoe :
    ztoe[i].refunded =>
      /\ ztoe'[i].refunded
      /\ \A b \in EvmBridges : <<b, i>> \in processed' => <<b, i>> \in processed
RefundIsFinal == [][RefundStands]_vars

(* The watcher's first invariant, relayer/src/reconcile.js:41: the escrow   *)
(* of a lock/release pair is at least its Zero supply.                      *)
EscrowCoversSupply ==
  \A p \in DOMAIN registry \cap DOMAIN zpairs :
    ~registry[p].mintBurn =>
      Escrowed(registry[p].token) >= asset[zpairs[p].token].supply

(* A burn that is stuck, because limits, pauses or the gas stopped its      *)
(* release, has a way out: as long as nothing was paid twice, an open burn  *)
(* of a bridged token can be refunded, also after new deposits were minted  *)
(* in the meantime, if max_supply has room for all that both sides held     *)
(* before bridging (zero.bridge.cpp:329-348, zero.asset.cpp:39).         *)
PaidTwice ==
  \E i \in DOMAIN ztoe : ReleasesFor(i) + (IF ztoe[i].refunded THEN 1 ELSE 0) > 1
RoomForAll(p) ==
  InitialSupply(zpairs[p].token) + InitialErc20Supply(registry[p].token)
    <= MaxSupply[zpairs[p].token]
OpenBurnsRefundable ==
  ~PaidTwice =>
    \A i \in DOMAIN ztoe :
      /\ ~ztoe[i].refunded /\ ReleasesFor(i) = 0
      /\ ztoe[i].pair \in DOMAIN registry /\ RoomForAll(ztoe[i].pair)
      => CanIssue(asset[zpairs[ztoe[i].pair].token], Bridge, ztoe[i].quantity)

(* A mint is worth its deposit after normalisation of the decimals.         *)
MintIsNormalized ==
  \A k \in DOMAIN etoz :
    Convert(etoz[k].quantity, ZeroDecimals[zpairs[etoz[k].pair].token],
            zpairs[etoz[k].pair].decimals) = requests[etoz[k].evmRequest].amount

(* A holder can leave: on an initialised, unpaused bridge with an active    *)
(* pair, a holder of enough of its token who keeps sending it to the bridge *)
(* gets a request recorded sooner or later.  The finality delay is an       *)
(* operational delay (contracts/native/README.md:32), not a closed door.    *)
MayLeave ==
  /\ config.exists /\ evmconfig.exists
  /\ ~config.paused
  /\ config.evmAccount = Bridge
  /\ \E p \in DOMAIN zpairs, from \in Accounts \ {Bridge}, q \in Quantities :
       /\ zpairs[p].active
       /\ QuantityAllowed(p, q)
       /\ HasBalance(asset[zpairs[p].token], from, q)
ExitsGoThrough == <>[]MayLeave => <>(ztoe # << >>)
=============================================================================
