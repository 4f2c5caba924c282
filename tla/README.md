# Telos Zero / EVM token bridge: TLA+ models, checks and proofs

This directory models the bridge of this repository in TLA+: the native contracts
`zero.bridge` and `zero.asset`, the EVM contracts `BridgeRegistry` and
`EvmEscrowBridge`, the tokens they move, the bytes that cross between the chains,
and the two relayers that keep requests moving. TLC checks the models on small
instances, TLAPS proves the main results for every instance.

## 1. The system

| Component | State | Operations | Talks to |
|---|---|---|---|
| `zero.asset` (`contracts/native/zero.asset`) | `stat` (supply, cap, issuer), `accounts` (balances) | create, issue, burn, transfer | notifies `zero.bridge` of transfers |
| `zero.bridge` (`contracts/native/zero.bridge`) | `config`, `evmconfig`, `pairs`, `etozreqs` (mints), `ztoereqs` (burns) | settings of the admin, processetoz, proveetoz, refundztoe, relayztoe, the transfer notification | sends `issue` and `burn` inline, reads `eosio.evm::accountstate`, sends `eosio.evm::raw` |
| `BridgeRegistry` | pairs, one per EVM token | addPair, addMintBurnPair, setPairActive, setPairLimits | read by the bridge |
| `EvmEscrowBridge` | paused, requests and their proof words, daily counters, processed burns | depositToZero, releaseToEvm, setPaused | moves, mints and burns ERC20 tokens |
| ERC20 tokens (`evm/src/mocks`) | balances, supply, the bridge that may mint | transfer, mint, burn, setBridge | - |
| `Owned`, `ReentrancyGuard`, `SafeTransferLib` | owner, pending owner; lock | two-step hand-over; lock; call wrapper | - |
| Deposit relayer (`watch-evm-requests.js`, `process-evm-requests.js`) | none between rounds; in a round the batch | scan deposits, read the processed ids, push `proveetoz` one by one; repeat | RPC of both sides |
| Release relayer (`watch-zero-requests.js`, `process-zero-requests.js`) | none between rounds; transactions it sent outlive the round | read the burn rows, ask for each if it was paid, send `releaseToEvm` one by one and wait for receipts; repeat | RPC of both sides |
| `reconcile.js` | none | reads balances and supplies, compares | RPC of both sides |
| `eosio.evm` (not in the repository) | accounts, storage, nonces | raw | runs EVM calls for native accounts |

**EVM to Zero.** `depositToZero` takes tokens into the escrow (or burns them for a
mint-burn pair) and writes proof words under the request hash. Anyone may call
`proveetoz`, which compares those words with its arguments, stores a row that
makes the hash unusable for another mint, and issues the Zero token.

**Zero to EVM.** A transfer of a paired token to the bridge stores a row, burns the
tokens, and dispatches `releaseToEvm` through `eosio.evm::raw`, all in one native
transaction. If the EVM call reverts or runs out of gas the native transaction
stands, and anyone may retry with `relayztoe` until `processedZeroBurns` says the
burn was paid. The admin may `refundztoe` a burn, which issues the tokens again.

What is hard here: the two ledgers agree only through rows that are checked at
different times and in different contracts; replay protection of a deposit is on
the Zero side, that of a burn on the EVM side, in storage whose scope is a setting;
releases fail without undoing the burn; refunds and retries are independent; every
setting can change between a request and its settlement; relayers work on what they
read a while ago, may die between a transaction and its answer, and compete with
everybody else who may call `proveetoz` and `relayztoe`.

What makes each part correct:

- *zero.asset*: the accounts add up to the supply, and stay between 0 and the cap;
- *EVM side*: holdings and supplies cover the two event logs, whatever pairs, limits,
  pauses and minting deployment the owner sets; deposits respect the daily limit in force;
- *bridge*: every mint is one deposit, every payout one burn, refunds are final,
  and both ledgers together are backed;
- *towards holders*: a deposit is a claim honoured once and for the account it names,
  a burn is paid or given back, and nothing else changes a balance;
- *bytes*: the EVM executes the call the request stands for, amounts are exact or
  abort, and a proof is accepted for the stored deposit only;
- *relayers*: repeating rounds settle what can be settled, in spite of crashes, and
  never something twice;
- *users*: who keeps trying to leave gets through.

## 2. Modules

| Module | What it is |
|---|---|
| `Totals` | `Total(w, n)`, the sum of a table of weights, and `Pow10(e)`, the factor between decimals |
| `ZeroAsset` | `zero.asset`; each action is a guard `Can...` and an effect `...ed` on one token's ledger, so that the bridge can chain them |
| `EvmEscrow` | registry, bridge deployments and tokens of the EVM side, and the clock |
| `Decimals` | the closed form of the amount conversion, as the bridge model uses it |
| `Wire` | conversion loop, memo parser, ABI calldata, RLP, storage slots and proof words, byte by byte, with decoders written from the formats as the reference |
| `ZeroBridge` | `zero.bridge`, extending `ZeroAsset`, `EvmEscrow` and `Decimals` to the composed system |
| `Claims` | abstract specification: what the bridge promises to holders, without settings, escrows and proofs |
| `ZeroBridgeClaims` | the refinement mapping from `ZeroBridge` to `Claims` |
| `DepositRelayer`, `ReleaseRelayer` | one watcher each, extending `ZeroBridge`; everything else goes on next to it |
| `MCZeroAsset`, `MCEvmEscrow`, `MCWire`, `MCZeroBridge`, `MCZeroBridgeClaims`, `MCDepositRelayer`, `MCReleaseRelayer` | values of the constants for TLC; one `.cfg` per run |
| `TotalsTheorems` | how a total reacts to a change of the table; the laws of powers of ten |
| `ZeroAssetProofs`, `EvmEscrowProofs`, `ZeroBridgeProofs` (which has the refinement of `Claims` too), `ZeroBridgeBackingProofs`, `DepositRelayerProofs`, `ReleaseRelayerProofs`, `WireProofs` | theorems, of the module or the subject in the name |

The composition is by extension and not by messages, because the code is: both
sides run on one chain, `issue`, `burn` and `raw` are inline actions, and the native
contract reads EVM storage directly. `ZeroBridge!Next` is the admin's actions, mints,
exits, plain token transfers, and every step the EVM side takes by itself.

### How the model corresponds to the code

- *Actions.* One action of the model per action, handler or external function. A
  failed `check` or a revert undoes everything, so it is the absence of a step. The
  transfer notification is the exception that shows the atomicity: `OnTransfer` is
  the token transfer, the row, the burn and the release attempt together, because a
  failure of one aborts all. `PlainTransfer` is every transfer the handler lets pass.
- *Release attempts.* `Raw` has two outcomes, as the inline action has: the EVM call
  succeeds and its effects happen, or it reverts or runs out of gas
  (`GasMayFail`) and only the EVM side is unchanged.
- *Identities.* Request hashes, burn ids and storage slots become the index of the
  row they are hashed from. A request hash covers the bridge's address and request
  number and a burn id covers the row's key, so that distinct rows have distinct
  hashes as long as the hash functions do not collide. Names and addresses are
  numbers; an absent balance row is a zero balance.
- *Storage proofs.* `ProofMatches` reads the request record of the configured
  deployment in place of its six storage words, and `Raw` runs the release of the
  request itself. `Wire` is why both are sound: there the same checks run on storage
  words, and the same release is bytes that are decoded again.
- *Admin and owner.* `RequireAdmin` asks for an initialised bridge; the admin is one
  actor that may sign any of its actions at any time, with any of the inputs the
  constants allow, and so is the owner of the EVM contracts. They are trusted with one
  thing: the contracts they name are genuine. `setBridge` takes any nonzero address and `setevmconf` any account that
  `eosio.evm` knows; `SetBridge` and `SetEvmConf` range over the deployments
  `EvmBridges`, and these share one registry (section 6). The issuer of a bridged token is
  the bridge account, which issues only through the bridge's actions.
- *Amounts* are integers. No guard of `add_balance` precedes its addition; the `+=` of
  `asset` aborts on overflow, and `BalancesUnderCap` is why it never does. The width of `uint128` is the constant
  `MaxUint128`; `Wire` computes modulo `MaxUint128 + 1`.
- *Rounds of a relayer.* A round is a process: what it read is in `batch`, or `rows` and
  `releases`, and is forgotten when it ends, whether it is through, an exception or a
  kill ends it (`StartOver`, `Crash`). Each RPC is a step of its own. A push to the
  native chain is applied with its answer (`Delivered`) or without (`AnswerLost`); an
  EVM transaction goes into `pending` and is mined later, whoever waits for it. The
  relayers convert decimals themselves, on unbounded integers, with the configured
  pairs, and throw where they cannot.
- *Limits, pauses, pair ids, finality delay, chain id, linked address* are modelled
  with their checks. Symbol syntax, RAM, events and memo lengths are not: they abort or
  are not read. Memos, gas prices and nonces are in `Wire` only. A deposit may name a
  receiver that is no account (`ZeroReceivers` beyond `Accounts`).

Operators whose comment starts with *Mutant of* are not part of the model. Each is a
plausible mistake in the definition that follows, and shows that the property it is
paired with in `PROJECT.json` would notice the mistake.

## 3. Runs

Every run is `tlc -config <cfg> <module>` in this directory and takes up to a minute
with two workers, `evm_side` somewhat more.

| Run (module, cfg) | Expectation | Question |
|---|---|---|
| `asset` (`MCZeroAsset`) | pass | Does the ledger add up under any order of operations? |
| `wire` (`MCWire`) | pass | Do releases and proofs mean on the wire what they mean in the tables? |
| `evm_side` (`MCEvmEscrow`) | pass | Do holdings cover the logs, and deposits keep the daily limit, while the owner changes pairs, limits and pauses and lets the bridge mint when it likes? |
| `lock_release` (`MCZeroBridgeClaims`, `MCLockRelease.cfg`) | pass | One lock/release pair: all the safety properties, and is it an implementation of `Claims`? |
| `two_pairs` (`MCZeroBridge`, `MCTwoPairs.cfg`) | pass | With a lock/release and a mint-burn pair side by side, two deployments and re-pointing: is each unit backed in its own pair? |
| `unrestricted` (`MCZeroBridge`, `MCUnrestricted.cfg`) | pass | What remains with dev mode, differing decimals, a wrong chain id and a wrong relay account? |
| `deposit_watch` (`MCDepositRelayer`, `MCDepositWatch.cfg`) | pass | Does the deposit watcher get deposits minted, once, through crashes, lost answers, competitors and re-pointing? |
| `release_watch` (`MCReleaseRelayer`, `MCReleaseWatch.cfg`) | pass | Does the release watcher get burns paid, once, with transactions that outlive their round and refunds at any time? Do holders get out? |
| `exit_with_delay` (`MCZeroBridge`, `MCExitWithDelay.cfg`) | violation | ... and with a finality delay? |
| `refund_after_release` (`MCZeroBridge`, `MCRefundAfterRelease.cfg`) | violation | Is the escrow always at least the Zero supply? |
| `mixed_decimals` (`MCZeroBridge`, `MCMixedDecimals.cfg`) | violation | Is a mint worth its deposit when decimals differ? |
| `watch_blocked` (`MCDepositRelayer`, `MCWatchBlocked.cfg`) | violation | Is every deposit that stays provable minted by the watcher? |

### Properties

- `SupplyIsSumOfBalances`, `BalancesUnderCap` (asset).
- `EvmSideCoversLogs`: escrow balances, or the initial supply less the current one of a
  minted token, are at least deposits less releases of the pair. `DailyLimit`: a
  step that adds to a day's deposits leaves them within the limit, counted from the
  request records.
- `MintsMatchDeposits`: without dev mode every mint row is one deposit with its pair,
  amount, sender and receiver, and no deposit has two rows.
- `ReleasesMatchBurns`: every release is one burn's, with its pair, converted amount
  and receiver, and a deployment pays a burn once.
- `SupplyMatchesTables`: supply and outstanding burns do not exceed the initial
  supply and the mints.
- `EveryUnitBacked`: for equal decimals and no dev mode, what the EVM side holds
  covers the Zero supply, the deposits not minted yet and the burns not paid yet. A
  burn paid twice (refunded and released, or released by two deployments) counts
  minus one, so that the property also says these two ways are the *only* ways to
  lose backing.
- `RefundIsFinal`: a refunded burn stays refunded and is never released afterwards.
- `OpenBurnsRefundable`: as long as nothing was paid twice, a burn whose release is stuck
  can be refunded, even after later deposits were minted, if the cap of the token has
  room for what both sides held at first. It needs the backing of both sides and not
  only the guard of `refundztoe`: a single deposit minted twice takes the room of the
  refund.
- `HonoursClaims`: the composed system implements `Claims` under the mapping of
  `ZeroBridgeClaims`. A failed release attempt, a setting, an EVM-side step other than
  a deposit or payout is a stutter; a transfer to the bridge is one abstract `Burn`,
  possibly with its payout.
- `ExitsGoThrough`: if the bridge is usable and somebody holds enough from some time
  on, a request is recorded.
- `DepositsMintedInOrder`: a deposit is minted if, from some time on until then, it and
  all earlier ones of the deployment can be proved, and none makes the relayer throw
  while it builds the batch. `DepositsMinted` is the same without the others, and fails.
- `BurnsReleasedInOrder`: the same for burns and the release watcher, where the
  condition on the others is that the EVM bridge would pay them.
- `SeenRefundIsFinal`: once a refunded burn is in no round and no pending transaction of
  the watcher, it never is again and is never paid.
- `CallArrives`: the RLP bytes of a release decode, by a decoder written from the format,
  to nine canonical items, and their calldata to the pair, amount, receiver, burn and
  sender of the request. `ProofMeansDeposit`: the checks on six storage words accept
  exactly the stored deposit, whatever is in the upper bytes and wherever the slot lies.
  `ClosedFormAgrees`, `ExactOrAborted`: the conversion loop is the closed form of
  `Decimals`, and aborts exactly when no exact amount exists.

### Bounds

At most two pairs, two requests per direction, two deployments, one or two units per
amount, up to three time steps, two or three accounts. These are enough for what can go
wrong: a replay needs one request and two calls, an interleaving of refund and
release one burn, a mix-up of requests two of them, one of pairs one request and two
pairs, a daily limit two deposits and one change of day, a re-pointing two
deployments, a blocked batch two requests of which the first fails. `DAY` is 2 so that
both a second step in one day and a change of day happen. Mixed decimals use one
digit more and one digit less with amounts 1 and 10, so that an amount converts up,
converts down exactly, and is turned down.

`MaxRequests`, `MaxPairs`, `MaxTime` and `MaxPending` are the only bounds in guards. In
`deposit_watch` the receiver 3 is no account, the admin can lower the limit of the pair
below a deposit, and the finality delay is one second. In `release_watch` the linked
address of the native account is not the bridge's `zeroBridge`, so that the contract's
own attempts revert and only the watcher's key can release; two pending transactions
are enough for a burn that was sent by two rounds.

`Wire` uses 10 bits for `uint128`, where 10^3 fits and 10^4 does not, so that the power,
the product and the remainder all fail for some inputs, with every amount up to 128 and
decimals up to 4; storage slots of three bytes, so that a carry through one byte,
through two, and out of the slot happen; scalars of 0, one byte on both sides of 0x80,
with a zero byte inside, and of full width, and senders of 1, 12 and 13 letters. The
lengths that occur are those the code can produce: items of at most 32 bytes (short
prefix), a calldata of 224 (long prefix, one length byte), and a list of 257 and more
(two length bytes). The switches of the prefix at 55 and at 256 lie between these and
are not met; the lemmas of `WireProofs` are about prefixes of every length. The values of this run that are numbers
stay below 2^31, the range of TLC's integers; the module itself has no such limit (it
speaks of the width of a number by shifts, `Fits`, and of values of up to 256 bits by
their bytes). `MaxItems`, the number of items the reference decoder reads, is 10, one
more than a transaction has.

No symmetry is used. Every run with `ZeroBridge` checks for deadlock and has none:
pausing is always possible. `MCWire.cfg` allows it, since the functions return.

### Fairness

`FairSpec`: the clock advances up to its bound, and a holder who can leave keeps
trying. Both are weak: time passes, and the property is about a user who does not give
up. `MayLeave` asks for an initialised, unpaused bridge with an active pair and a
balance within the limits, from some time on. Under the same assumptions the property
fails as soon as the delay is positive, which is the finding.

`FairDepositRelayer` and `FairReleaseRelayer`: the loop of a watcher never ends
(`while (true)`), so that its next round starts (weak fairness of `Scan`), and
transactions that were sent are mined (weak fairness of `Mine`). A crash or a lost
answer may come in any round, but not at the same point of every round, which is
strong fairness of the reads (`Build`, `Check`, `Start`), of each push (`Delivered`,
`Send`) and of receipts. Nothing is assumed of the admin, the owner, competitors of the
relayer or `eosio.evm`.

## 4. Findings

1. **A released burn can be refunded** (`MCRefundAfterRelease`). `refundztoe` never
   reads `processedZeroBurns`, which `relayztoe` does. As the release normally happens
   inside the transfer, almost every refundable row is one that was already paid; an
   admin who decides on a refund from a failed release also races the permissionless
   retry. The watcher's `escrow >= zeroSupply` then fails.
2. **A finality delay closes the exit** (`MCExitWithDelay`). `ontransfer` releases in
   the transaction that creates the request, whose age is 0, so any positive delay
   aborts the transfer. The native README recommends an explicit delay if wanted.
3. **Deposits are not normalised** (`MCMixedDecimals`). `proveetoz` compares raw
   amounts, releases convert. Pairs with equal decimals are not affected.
4. **One deposit stops the watcher** (`MCWatchBlocked`). The deposit relayer pushes in
   order and a rejected push throws, in every round again. A deposit whose receiver is
   no account, or that is outside limits lowered after it was made, keeps all later ones
   from being minted, until an operator runs the processor with `--request-id` or moves
   the scan window. `DepositsMintedInOrder` says this is the only way to be left behind.

Remarks without a run:

- Re-pointing the bridge to another deployment (`setevmconf`) changes where the replay
  protection of burns is read, and a new deployment has none: `relayztoe` pays old burns
  again there. `EveryUnitBacked` counts such a burn as paid twice. Deposits are not
  affected, as their replay rows are native (theorem `MintsAreDeposits`).
- `relayer/README.md:10` says that the release relayer retries the public `relayztoe`.
  `process-zero-requests.js` sends `releaseToEvm` with a key of its own instead, and
  throws when the key is not the bridge's `zeroBridge`. `ReleaseRelayer` follows the code.
- With different decimals the deposit relayer converts the amount and the contract
  compares raw amounts, so that its proofs never pass; the pair works only by hand, with
  the result of finding 3.
- A refund that falls between the watcher's read of the row and its transaction is paid
  as well, since the EVM side knows of no refunds. `SeenRefundIsFinal` says that the
  window ends with the round and its transactions.
- The contract takes a memo that starts with `0X`, and `assertHexAddress` of the
  relayer throws on it (`lib/hex.js:2`), for the whole batch.
- `DailyLimit` is about the calendar day, as the code is. The production specification
  asks for a rolling cap (line 466), which a bucket per day cannot be.

## 5. Proofs

`tlapm <module>` checks each of `TotalsTheorems`, `ZeroAssetProofs`, `EvmEscrowProofs`,
`ZeroBridgeProofs`, `ZeroBridgeBackingProofs`, `DepositRelayerProofs`,
`ReleaseRelayerProofs` and `WireProofs`. The assumptions are the named `ASSUME`s of the
modules: finite tables, natural limits, inputs of the right type, an initial supply
below the cap, the widths of the code's integers. There is no bound on accounts, tokens,
deployments, pairs, requests or time. Four assumptions belong to single theorems and
stand in their statements, each with the hazard it excludes:

| Assumption | Used by | Without it |
|---|---|---|
| `DevModes \subseteq {FALSE}` | `MintsAreDeposits`, `BridgeHonoursClaims`, `UnitsAreBacked`, `OpenBurnsAreRefundable` and their counterparts `Watched...`, `WatcherHonoursClaims` with a relayer at work | `processetoz` mints without a deposit |
| `DecimalsMatch` | `UnitsAreBacked`, `OpenBurnsAreRefundable`, `WatchedUnitsAreBacked`, `WatchedBurnsAreBacked`, `WatchedBurnsAreRefundable` | finding 3 |
| `ConfigMatches` | `WatcherPaysBurns`, `WatchedBurnsAreBacked`, `WatchedBurnsAreRefundable` | the watcher converts with the decimals of its own configuration, and pays another amount |
| `Amounts = Nat` | `BridgeDrivesEvm` | a bounded set of deposit amounts would also bound the releases of `EvmSpec` |

Every invariant and every action property of the runs that pass is stated by one of the
theorems, for all values of the constants that its assumptions allow.

- `TotalsTheorems`. `Total` is a recursive function, and induction is done by a least
  counterexample. `TotalChange` (one changed weight), `TotalAppend` (one more row) and
  `TotalBounds` carry the ledger proofs, `PowerSum` (10^(a+b) = 10^a * 10^b) those of
  the conversion.
- `ZeroAssetProofs`: `AssetTypeCorrect`, `SupplyAddsUp`, `BalancesStayUnderCap`. The
  inductive invariant `AssetSound` says that each token's row is `SoundRow`: types,
  sum, cap and no negative balance *together*, since a burn keeps the sum only if the
  owner had the balance and an issue keeps the cap only if the sum is right. Each
  effect operator preserves `SoundRow`, which the bridge reuses for its chained
  transfer and burn.
- `EvmEscrowProofs`: `EvmTypeCorrect`, and
  - `EscrowCoversLogs`. `EvmSideCoversLogs` alone is not inductive, because a pair that is
    registered later starts with what its token's holders did before. `EvmLedger` adds that no
    log names a pair before it exists, that balances are not negative and add up, that only
    mint-burn pairs change a supply, and that a token has one pair, since one
    holding could not cover the logs of two.
  - `DailyLimitKept`. `DailyInv` says that each daily counter *is* the sum of the records of
    that day and no record is of a later day; the limit then follows from the guard
    at the moment of the deposit.
- `ZeroBridgeProofs`: the inductive invariant `Wellformed` adds to the types that a
  configured EVM bridge is a deployment and that each request row names an existing
  pair. On top of it:
  - `TypeCorrect` and `BridgeSupplyAddsUp`;
  - `RowsKept`: pairs keep token and decimals, burn rows keep what an event speaks
    about, deposits never change. `PayoutStep`: a step pays nothing, or pays one burn
    that is not refunded and not processed on the configured deployment;
  - `RefundsAreFinal`, an action property, from these two;
  - `PayoutsAreBurns`, with the strengthening `PayoutsRecorded` (each event is in its
    deployment's processed map), without which nothing excludes a second payout;
  - `MintsAreDeposits`, for a bridge whose dev mode is never switched on, with
    `NoDevMode` as the strengthening;
  - `BridgeHonoursClaims`, that `ZeroBridge` without dev mode implements `Claims`. Besides
    the mapping of initial states it has one lemma per action of `Claims` that a step of
    the bridge may map to, and one for the stutters. The steps are taken from states that
    satisfy `Wellformed` (which holds the ledgers of `zero.asset` as `AssetSound`) and
    `NoDevMode`: a mint is of a deposit without a row, a payout of a burn that is not
    refunded, a balance gives only what it has, and pairs keep their token, without which
    a refund could go to another ledger than the one that was burned.

- `ZeroBridgeBackingProofs`: that the two sides together are backed. `EveryUnitBacked` says
  something about four sums in two contracts, and no step of the system touches all of
  them. It is proved as the sum of four ledgers, each with an invariant of its own:

  | Ledger | What it says | Invariant |
  |---|---|---|
  | supply | Zero supply <= initial + minted - burned | `SupplyLedger` |
  | EVM side | holdings >= deposits - releases | `EvmLedger` |
  | deposits | deposits = minted + unminted | `DepositLedger` |
  | burns | owed = burned - releases | `BurnLedger` |

  - `SuppliesMatchTables` is the first ledger by itself, and holds in every mode. Its
    strengthening is that a token has one pair, and that nobody issued a token before it was paired.
  - `BridgeDrivesEvm`: the composed system implements `EvmSpec`, so that what `EvmEscrow`
    shows of the EVM side alone holds under the native contract. `EscrowCoversLogsUnderBridge` and
    `DailyLimitKeptUnderBridge` are proved from the same step lemmas without the
    assumption on amounts.
  - The third ledger needs that a deposit is minted at most once and in its own pair
    (the invariant of `MintsAreDeposits`); the fourth, that processed burns are rows
    (`ProcessedAreBurns`) and that a step pays nothing or one open burn, its converted
    amount (`PayoutStep`).
  - `UnitsAreBacked` adds them up. `OpenBurnsAreRefundable` follows from it, from the sum
    of the asset accounts, and from the fact that burns have positive quantities.
- `DepositRelayerProofs`: `WatcherIsACaller`, that a bridge with the deposit watcher at
  work still is a bridge as `ZeroBridge` specifies it. A step of the watcher leaves both
  chains alone, or is a `proveetoz` with the stored words of a deposit, which anybody
  could send. That takes `Wellformed` and `DepositsTaken` (a stored amount is one
  that a depositor passed): what the watcher read is only an index of the request table,
  which never loses a row, and the chain checks the rest again. What is proved of every
  bridge therefore holds through the watcher's crashes, lost answers and stale reads, as
  `WatchedMintsAreDeposits`, `WatcherHonoursClaims` and `WatchedUnitsAreBacked` say.
- `ReleaseRelayerProofs`: a watcher that works on what it read a while ago.
  - `SeenRefundsAreFinal`. The invariants are `RelayerTypeOK` and `FlightBuilt`: each row of the
    round, and of the transactions that outlive it, is a burn row the relayer could
    build a release of. A burn comes into flight only by a read that sees it
    unrefunded (`FlightGrows`), and without the watcher `RefundsAreFinal` excludes a payout.
  - `WatcherPaysBurns`. A transaction of the watcher is a payout like one of the native
    contract (`PayoutKeepsInv` of `ZeroBridgeProofs` is for both): the row it was built from
    still has its pair, amount and memo, and `processedZeroBurns` is read when it is mined.
  - `WatchedBurnsAreBacked`, `WatchedBurnsAreRefundable`. This watcher is *not* a caller of the
    bridge like the other: it pays with a key of its own and may pay a burn that was
    refunded while its transaction was under way, which no step of `ZeroBridge` does.
    `RelayedBacking` shows that each of the four ledgers survives such a payment,
    the burn then counting as paid twice; it needs `DecimalsAgree`, that the configured
    decimals are those of the pairs, so that it pays what is owed.
- `WireProofs`:
  - `ClosedFormsAgree` and `ConversionIsExact`, for every width of the integers, every
    int64 amount (`WireAssumption`) and all decimals. The loop of `pow10_u128` aborts in
    the first round that would overflow, which is the round from which the power does not fit.
  - `ProofsMeanDeposits`, for slots of any width. `StorageAssumption` is what the EVM side
    wrote (`_storeRequestProof`, with `add` modulo the size of the storage) and says nothing of the
    rest of the storage. `OffsetAdds` shows what the carry loop computes, with a
    loop invariant over the prefixes of the slot: number of the prefix + carry into the rest =
    number of the result's prefix + what left the first byte. `SameNumberSameSlot` then says
    that the slot read is the slot written, and each comparison of a word is one lemma.
  - `CallsArrive`, for every request, nonce, chain id, gas price and name the types allow: the
    transaction reads back, by the decoder written from the format, as nine items (its
    numbers without leading zeros), and its calldata as the call that the request stands for. The
    invariant `SentCall` says which bytes were sent; the rest is about the bytes:
    - a number's bytes stand for it when it fits (`BigEndianValue`), and `minimal_be` strips
      exactly the leading zeros (`MinimalIsScalar`), by induction as a least
      counterexample, as for `Total`;
    - a length prefix reads as the extent of what follows it (`PrefixReads`), an item
      as the bytes it was written from (`ItemReads`), and a list of up to
      `MaxItems` items as those items (`ListReads`). `HoldsAt(b, at, part)` places each part in
      the whole, so that no step compares whole transactions;
    - the calldata is read field by field (`CalldataReads`), and the fields are those of the
      request (`CalldataMeansRelease`): the amount is the converted one, the tail offset is
      the length of the head, the sender's name is padded to words.

Only model-checked: the liveness properties (`DepositsMintedInOrder`,
`BurnsReleasedInOrder`, `ExitsGoThrough`). They rest on fairness, and fairness on
`ENABLED`, which the prover does not reason about.

## 6. Not modelled

- *Keccak and SHA-256*: third-party functions, identities in the models.
- *Two-step ownership*: the owner is one actor who may call every `onlyOwner` function at
  any time; who that is makes no difference to any property.
- *Contracts that are not genuine deployments*: an owner who lets another address mint a
  token, whose mints would be in no log, or an admin who points the bridge at another
  contract, whose storage would prove anything. The results about backing, mints and
  payouts assume that neither happens.
- *Registries*: all deployments of the model share one. The deploy scripts create a registry
  with each bridge, so that a re-pointed bridge may meet the same pair id with another
  token there, unless the owner registers the tokens in the same order; the results
  with two deployments assume the same pairs in both.
- *The reentrancy lock*: EVM calls are atomic actions. The lock is what justifies this
  for tokens that call back; the tokens in the repository do not.
- *The order of the reconciliation's reads*: the job writes to neither chain. Its
  invariants are checked at one moment.
- *Blocks and the scan window*: `DepositRelayer` scans from before the first deposit. With
  the default `scanFromBlock: latest` older deposits are not looked at.
- Allowances and the free `mint` of the test token; tokens that take a fee on transfer;
  deployment scripts and configuration parsing; forks of the chain, because the bridge
  relies on instant finality.

## 7. Plan

1. **Done.** The core: `Totals`, `ZeroAsset`, `EvmEscrow`, `Decimals`, `ZeroBridge`, their
   runs and first theorems.
2. **Done.** Both relayers over `ZeroBridge`; `Wire`; the abstract specification `Claims`,
   the refinement checked and proved.
3. **Done.** Proofs of the backing of both sides, of the EVM side's ledger and daily limit,
   of the release watcher's safety, of the amount conversion and of the proof words.
4. **Done.** Both sides' backing with either watcher at work; the bytes of a release.
5. Left: the liveness properties, which stay with TLC, and the parts of section 6.
