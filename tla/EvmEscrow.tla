----------------------------- MODULE EvmEscrow ------------------------------
(***************************************************************************)
(* The EVM side: BridgeRegistry.sol, one or more EvmEscrowBridge.sol that  *)
(* share it, and the ERC20 tokens they hold, mint and burn                 *)
(* (evm/src/mocks).  Calls are atomic: a revert undoes the call, and       *)
(* nonReentrant keeps a token from calling back into the bridge.           *)
(*                                                                         *)
(* Requests of all bridges share one sequence; the index of a request      *)
(* stands for its requestHash, which contains address(this) and the        *)
(* bridge's own request number and so differs for any two requests.        *)
(*                                                                         *)
(* Trust: the owner gives the right to mint to none but these deployments, *)
(* although setBridge takes any address.  Another minter would add to a    *)
(* supply without a release.                                               *)
(***************************************************************************)
EXTENDS Integers, Sequences, Totals

CONSTANTS
  NumEvmBridges,   \* EvmEscrowBridge deployments are addresses 1..NumEvmBridges
  NumEvmAddrs,     \* the addresses after them are users
  EvmTokens,       \* ERC20 contracts
  MintableTokens,  \* those with mint and burn (BridgeMintBurnERC20)
  InitialErc20,    \* balances before bridging starts
  ZeroBridgeOf,    \* the immutable zeroBridge of each deployment
  RegistryInputs,  \* pairs the owner may register
  RegistryLimits,  \* limits the owner may set later
  Amounts,         \* amounts depositors and senders pass
  ZeroReceivers,   \* receiver strings depositors pass (1 to 64 bytes)
  DAY,             \* "1 days"
  MaxPairs, MaxRequests, MaxTime   \* bounds on the model

EvmBridges == 1..NumEvmBridges
EvmAddrs   == 1..NumEvmAddrs
EvmUsers   == EvmAddrs \ EvmBridges
PairIds    == 1..MaxPairs
ZeroAddress == 0
Days       == 0..(MaxTime \div DAY)

Limits == [min: Nat, max: Nat, daily: Nat]
InitialErc20Supply(t) == Total(InitialErc20[t], NumEvmAddrs)

ASSUME EvmEscrowAssumption ==
  /\ NumEvmBridges \in Nat /\ NumEvmAddrs \in Nat /\ NumEvmBridges <= NumEvmAddrs
  /\ MaxPairs \in Nat /\ MaxRequests \in Nat /\ MaxTime \in Nat \ {0}
  /\ DAY \in Nat \ {0}
  /\ MintableTokens \subseteq EvmTokens
  /\ InitialErc20 \in [EvmTokens -> [EvmAddrs -> Nat]]
  /\ RegistryInputs \subseteq [token: EvmTokens, mintBurn: BOOLEAN, limits: Limits]
  /\ RegistryLimits \subseteq Limits
  /\ Amounts \subseteq Nat

VARIABLES
  registry,    \* BridgeRegistry.pairs: the pair with id p is registry[p]
  evmPaused,   \* EvmEscrowBridge.paused
  requests,    \* evmToZeroRequests with their storage proofs
  daily,       \* dailyDeposits[pair][day] of each bridge
  processed,   \* processedZeroBurns of each bridge, as <<bridge, burn id>>
  released,    \* the ZeroToEvmReleased events
  erc20,       \* the tokens' storage
  now          \* block.timestamp, shared by both sides

evmVars == <<registry, evmPaused, requests, daily, processed, released, erc20, now>>

PairRow    == [token: EvmTokens, mintBurn: BOOLEAN, active: BOOLEAN, limits: Limits]
RequestRow == [bridge: EvmBridges, pair: Nat, sender: EvmUsers,
               receiver: ZeroReceivers, amount: Nat, createdAt: Nat]
ReleaseRow == [bridge: EvmBridges, burn: Nat, pair: Nat, receiver: EvmAddrs, amount: Nat]
Erc20Row   == [balance: [EvmAddrs -> Int], supply: Int, bridge: EvmBridges \cup {ZeroAddress}]

Today == now \div DAY

ValidLimits(l) == l.min > 0 /\ l.max >= l.min /\ l.daily >= l.max

(* requireActivePair and _checkAmount *)
ActivePair(p) == p \in DOMAIN registry /\ registry[p].active
AmountAllowed(p, amount) == amount \in registry[p].limits.min .. registry[p].limits.max

(* Mutant of WithinDailyLimit: earlier deposits of the day are not counted. *)
EachWithinDailyLimit(b, p, amount) == amount <= registry[p].limits.daily

WithinDailyLimit(b, p, amount) == daily[b][p][Today] + amount <= registry[p].limits.daily

(* ERC20 transfer, and BridgeMintBurnERC20.mint and burn *)
HasErc20(t, a, amount) == erc20[t].balance[a] >= amount
Debit(row, a, amount)  == [row EXCEPT !.balance[a] = @ - amount]
Credit(row, a, amount) == [row EXCEPT !.balance[a] = @ + amount]
MoveErc20(row, from, to, amount) == Credit(Debit(row, from, amount), to, amount)
MintErc20(row, to, amount)    == [Credit(row, to, amount) EXCEPT !.supply = @ + amount]
BurnErc20(row, owner, amount) == [Debit(row, owner, amount) EXCEPT !.supply = @ - amount]
OnlyBridge(t, b) == t \in MintableTokens /\ erc20[t].bridge = b

(* Mutant of CanRelease: the zero receiver is let through. *)
CanReleaseToAnyone(b, sender, p, amount, receiver, burn) ==
  /\ ~evmPaused[b]
  /\ sender = ZeroBridgeOf[b]
  /\ ActivePair(p)
  /\ AmountAllowed(p, amount)
  /\ <<b, burn>> \notin processed
  /\ IF registry[p].mintBurn THEN OnlyBridge(registry[p].token, b)
                             ELSE HasErc20(registry[p].token, b, amount)

(* releaseToEvm: its guards in order, and the token transfer it makes. *)
CanRelease(b, sender, p, amount, receiver, burn) ==
  /\ ~evmPaused[b]
  /\ sender = ZeroBridgeOf[b]
  /\ ActivePair(p)
  /\ AmountAllowed(p, amount)
  /\ receiver # ZeroAddress
  /\ <<b, burn>> \notin processed
  /\ IF registry[p].mintBurn THEN OnlyBridge(registry[p].token, b)
                             ELSE HasErc20(registry[p].token, b, amount)

PaidOut(b, p, amount, receiver) ==
  [erc20 EXCEPT ![registry[p].token] =
     IF registry[p].mintBurn THEN MintErc20(@, receiver, amount)
                             ELSE MoveErc20(@, b, receiver, amount)]

(* Mutant of ReleaseToEvm: the burn is not marked as processed. *)
ReleaseUnmarked(b, sender, p, amount, receiver, burn) ==
  /\ CanRelease(b, sender, p, amount, receiver, burn)
  /\ erc20' = PaidOut(b, p, amount, receiver)
  /\ released' = Append(released, [bridge |-> b, burn |-> burn, pair |-> p,
                                   receiver |-> receiver, amount |-> amount])
  /\ UNCHANGED <<registry, evmPaused, requests, daily, processed, now>>

ReleaseToEvm(b, sender, p, amount, receiver, burn) ==
  /\ CanRelease(b, sender, p, amount, receiver, burn)
  /\ processed' = processed \cup {<<b, burn>>}
  /\ erc20' = PaidOut(b, p, amount, receiver)
  /\ released' = Append(released, [bridge |-> b, burn |-> burn, pair |-> p,
                                   receiver |-> receiver, amount |-> amount])
  /\ UNCHANGED <<registry, evmPaused, requests, daily, now>>
-----------------------------------------------------------------------------
EvmInit ==
  /\ registry = <<>>
  /\ evmPaused = [b \in EvmBridges |-> FALSE]
  /\ requests = <<>>
  /\ daily = [b \in EvmBridges |-> [p \in PairIds |-> [d \in Days |-> 0]]]
  /\ processed = {}
  /\ released = <<>>
  /\ erc20 = [t \in EvmTokens |->
                [balance |-> InitialErc20[t],
                 supply  |-> InitialErc20Supply(t),
                 bridge  |-> ZeroAddress]]
  /\ now = 1

(* addPair and addMintBurnPair *)
RegisterPair(in) ==
  /\ ValidLimits(in.limits)
  /\ \A p \in DOMAIN registry : registry[p].token # in.token
  /\ Len(registry) < MaxPairs
  /\ registry' = Append(registry, [token |-> in.token, mintBurn |-> in.mintBurn,
                                   active |-> TRUE, limits |-> in.limits])
  /\ UNCHANGED <<evmPaused, requests, daily, processed, released, erc20, now>>

SetPairActive(p, active) ==
  /\ p \in DOMAIN registry
  /\ registry' = [registry EXCEPT ![p].active = active]
  /\ UNCHANGED <<evmPaused, requests, daily, processed, released, erc20, now>>

SetPairLimits(p, limits) ==
  /\ p \in DOMAIN registry
  /\ ValidLimits(limits)
  /\ registry' = [registry EXCEPT ![p].limits = limits]
  /\ UNCHANGED <<evmPaused, requests, daily, processed, released, erc20, now>>

SetPaused(b, paused) ==
  /\ evmPaused' = [evmPaused EXCEPT ![b] = paused]
  /\ UNCHANGED <<registry, requests, daily, processed, released, erc20, now>>

(* BridgeMintBurnERC20.setBridge, for the deployments the owner trusts.     *)
SetBridge(t, b) ==
  /\ t \in MintableTokens
  /\ erc20' = [erc20 EXCEPT ![t].bridge = b]
  /\ UNCHANGED <<registry, evmPaused, requests, daily, processed, released, now>>

(* Mutant of TakenIn: the tokens of a mint-burn pair stay in the bridge. *)
TakenInUnburned(b, p, sender, amount) ==
  [erc20 EXCEPT ![registry[p].token] = MoveErc20(@, sender, b, amount)]

(* The tokens of a deposit: pulled into the bridge, and burned there for a  *)
(* mint-burn pair.                                                          *)
TakenIn(b, p, sender, amount) ==
  [erc20 EXCEPT ![registry[p].token] =
     IF registry[p].mintBurn
     THEN BurnErc20(MoveErc20(@, sender, b, amount), b, amount)
     ELSE MoveErc20(@, sender, b, amount)]

(* The request and the proof words _storeRequestProof writes for it. *)
StoredRequest(b, p, sender, amount, receiver) ==
  [bridge |-> b, pair |-> p, sender |-> sender, receiver |-> receiver,
   amount |-> amount, createdAt |-> now]

DepositToZero(b, p, sender, amount, receiver) ==
  /\ ~evmPaused[b]
  /\ ActivePair(p)
  /\ AmountAllowed(p, amount)
  /\ WithinDailyLimit(b, p, amount)
  /\ HasErc20(registry[p].token, sender, amount)
  /\ registry[p].mintBurn => OnlyBridge(registry[p].token, b)
  /\ Len(requests) < MaxRequests
  /\ daily' = [daily EXCEPT ![b][p][Today] = @ + amount]
  /\ erc20' = TakenIn(b, p, sender, amount)
  /\ requests' = Append(requests, StoredRequest(b, p, sender, amount, receiver))
  /\ UNCHANGED <<registry, evmPaused, processed, released, now>>

(* A plain ERC20 transfer by a user, possibly to a bridge. *)
SendErc20(t, from, to, amount) ==
  /\ HasErc20(t, from, amount)
  /\ erc20' = [erc20 EXCEPT ![t] = MoveErc20(@, from, to, amount)]
  /\ UNCHANGED <<registry, evmPaused, requests, daily, processed, released, now>>

Tick ==
  /\ now < MaxTime
  /\ now' = now + 1
  /\ UNCHANGED <<registry, evmPaused, requests, daily, processed, released, erc20>>

OwnerNext ==
  \/ \E in \in RegistryInputs : RegisterPair(in)
  \/ \E p \in PairIds : \/ \E active \in BOOLEAN : SetPairActive(p, active)
                        \/ \E limits \in RegistryLimits : SetPairLimits(p, limits)
  \/ \E b \in EvmBridges : \/ \E paused \in BOOLEAN : SetPaused(b, paused)
                           \/ \E t \in EvmTokens : SetBridge(t, b)

UserNext ==
  \/ \E b \in EvmBridges, p \in PairIds, sender \in EvmUsers, amount \in Amounts,
        receiver \in ZeroReceivers : DepositToZero(b, p, sender, amount, receiver)
  \/ \E t \in EvmTokens, from \in EvmUsers, to \in EvmAddrs, amount \in Amounts :
        SendErc20(t, from, to, amount)

(* Everything the EVM side does without the native contract. *)
EvmOwnNext == OwnerNext \/ UserNext \/ Tick
-----------------------------------------------------------------------------
(* The EVM side by itself: the zeroBridge account sends any release.        *)
EvmNext ==
  \/ EvmOwnNext
  \/ \E b \in EvmBridges, p \in PairIds, amount \in Amounts,
        receiver \in EvmAddrs \cup {ZeroAddress}, burn \in 1..MaxRequests :
        ReleaseToEvm(b, ZeroBridgeOf[b], p, amount, receiver, burn)

EvmSpec == EvmInit /\ [][EvmNext]_evmVars
-----------------------------------------------------------------------------
EvmTypeOK ==
  /\ registry \in Seq(PairRow) /\ Len(registry) <= MaxPairs
  /\ evmPaused \in [EvmBridges -> BOOLEAN]
  /\ requests \in Seq(RequestRow)
  /\ daily \in [EvmBridges -> [PairIds -> [Days -> Nat]]]
  /\ processed \subseteq EvmBridges \X Nat
  /\ released \in Seq(ReleaseRow)
  /\ erc20 \in [EvmTokens -> Erc20Row]
  /\ now \in 1..MaxTime

(* The sums the properties speak about. *)
DepositsOf(p) ==
  Total([i \in DOMAIN requests |-> IF requests[i].pair = p THEN requests[i].amount ELSE 0],
        Len(requests))
ReleasesOf(p) ==
  Total([i \in DOMAIN released |-> IF released[i].pair = p THEN released[i].amount ELSE 0],
        Len(released))
DepositedOn(b, p, d) ==
  Total([i \in DOMAIN requests |->
           IF /\ requests[i].bridge = b
              /\ requests[i].pair = p
              /\ requests[i].createdAt \div DAY = d
           THEN requests[i].amount ELSE 0],
        Len(requests))
Held(row) == Total([b \in EvmBridges |-> row.balance[b]], NumEvmBridges)
Escrowed(t) == Held(erc20[t])

(* What a pair's EVM side has taken in net of what it paid out: the escrow  *)
(* balances, or the supply it burned net of what it minted.                 *)
EvmSide(p) ==
  LET t == registry[p].token
  IN  IF registry[p].mintBurn THEN InitialErc20Supply(t) - erc20[t].supply
                              ELSE Escrowed(t)

(* Whatever the order of deposits, releases, gifts and limit changes, and   *)
(* whichever of the deployments may mint, a pair has paid out no more than  *)
(* it took in plus what it still holds (EvmEscrowBridge.sol:111-114,        *)
(* 163-168): the escrow owes exactly the difference between the two event   *)
(* logs.                                                                    *)
EvmSideCoversLogs ==
  \A p \in DOMAIN registry : EvmSide(p) >= DepositsOf(p) - ReleasesOf(p)

(* A deposit never takes a pair above the daily limit in force at that      *)
(* moment, counted from the request records and not from the counter that   *)
(* _consumeDailyLimit keeps (EvmEscrowBridge.sol:185-190).                  *)
DepositKeepsDailyLimit ==
  \A b \in EvmBridges, p \in PairIds :
    DepositedOn(b, p, Today)' > DepositedOn(b, p, Today) =>
      DepositedOn(b, p, Today)' <= registry[p].limits.daily
DailyLimit == [][DepositKeepsDailyLimit]_evmVars
=============================================================================
