# TLA+ models of the hashport validator

This directory holds TLA+ models of the validator's event watchers, the transfer
repository and handler, and the token-creation script. It has TLC configurations that
model-check them on small instances, and TLAPS proofs of their main invariants for every
value of the constants.

## The system

`spec.md` describes a validator node in a cross-chain bridge. It tails the log stream
of an EVM router contract, classifies each bridge event and routes a transfer record
to a queue. The parts in this repository are:

| Part | Source | What it does |
|---|---|---|
| Router watcher, poll loop | `src/unnamed/part_001` 87-301 | `NewWatcher` computes the live cutoff `targetBlock` and reconciles the progress row with `startBlock`. `beginWatching` loops: read the watermark, fetch the head, skip when nothing new is confirmed, clamp the range, run `processLogs`. `processLogs` filters the logs of `[from, to]`, dispatches each one, then writes `to + 1`. |
| Router watcher, handlers | `src/unnamed/part_001` 303-564 | `handleLockLog` and `handleBurnLog` validate an event, normalise its amount and push it to a signing topic (live) or a read-only topic (backlog). `handleMintLog` and `handleUnlockLog` update metrics. `MemberUpdated` starts a detached member reload. |
| Progress store | interface only | `Get`, `Create` and `Update` of one int64 row per watcher. |
| Transfer repository | `src/app/persistence/transfer/transfer.go` 41-257 | A row per transaction id with four status columns (`Status`, `SignatureMsgStatus`, `EthTxStatus`, `EthTxMsgStatus`). It has create, save and read methods, and one `Update*` method per transition, each guarded by a list of allowed target values. |
| Transfer handler | `src/unnamed/part_000` 41-71 | Decodes a queued transfer, calls the transfers service's `InitiateNewTransfer`, goes on only when the status is `Initial`, checks the fee, then calls `ProcessTransfer`. |
| Ethereum watcher | `src/app/process/watcher/ethereum/ethereum.go` 26-54 | Subscribes to the bridge's Burn events and loops on a `select` over the subscription's error channel and the event channel. `handleLog` only logs. |
| Token script | `transfer.go` 285-379 | A command-line `main` that checks its flags, parses keys, builds a threshold supply key and creates a wrapped HTS token. |
| Metric names | `src/constants/prometheus.go` | String constants only. |

The parts interact through the queue. The router watcher pushes a transfer message for
each Lock or Burn it accepts, and pushes a range again when its watermark update fails
or the process is killed. Handler workers take the messages, and the transfers service
records each transfer through the repository. The repository's status columns are also
written by the services that follow a transfer to completion.

The watcher is one goroutine. Its interactions are with the chain client (head,
logs, ChainID, timestamps), the progress store, the asset registry and the queue.
The concurrency the model must cover is therefore with the outside world: RPC and
store calls that fail, a process killed at any point, restarts with or without a
start block, and a chain head that grows while the loop runs.

## Modules

- **`Classifier.tla`** holds the handlers as pure operators. Each of `HandleLockLog`,
  `HandleBurnLog` and `HandleMintOrUnlockLog` is a `CASE` whose arms follow the
  handler's early returns in source order. `HandleLog` is the topic dispatch of
  `processLogs`. The inputs are a decoded log (`LogRecord`) and the answers of
  `ChainID()` and `RemoveDecimals` (success or error). A third input, `live`, is
  `validator && block >= targetBlock`. The output is an effect: `push` with a topic
  and an amount, `metric`, `reload`, `drop` (a business rejection), `lost` (a
  collaborator error that returns from the handler), `none` (a removed log) or
  `panic` (a nil dereference).
  - The data is abstracted. A receiver is `empty`, `account` or `garbage`. The
    registry is two constant maps, and `RemoveDecimals` is integer division by a
    per-token factor.
- **`Watcher.tla`** is the poll loop as a state machine.
  - `pc` is the point of the loop.
  - `store` is the progress row, `NoRow` or an int64.
  - `head` is the chain head.
  - `fromBlock`, `toBlock` and `batch` are the range being processed.
  - `targetBlock` is the live cutoff.
  - `effects` and `base` are history variables. `effects` records every handler
    outcome. `base` is the watermark the last `NewWatcher` established.
  - The actions:
    - `NewWatcher(sb)` covers `NewWatcher` and `Watch`.
    - `GetFromBlock`, `FetchHead` (with `ConfirmedHead`, `HasNewBlocks` and
      `ClampTo`), `FilterLogs`, `HandleNextLog` (one log per step, in block order)
      and `UpdateWatermark` (`NextFromBlock`) make up the loop.
    - `Crash` kills the process. `AdvanceHead` is the chain growing.
  - A failing call is a nondeterministic choice over `Results`. The head arithmetic
    is uint64 at `Width` bits: `UInt` is `% 2^Width`, and `Int64` is the
    two's-complement reading.
- **`MCWatcher.tla`** defines the model's chains, tokens and registry, plus the
  log sequences the runs use.
- **`WatermarkLog.tla`** is the abstract contract of a watcher with a persisted
  watermark (spec §4.1, at least once). Its state is `wm`, `handled` and `base`.
  It has three actions:
  - `Handle` handles an item;
  - `Advance` moves the watermark forward, only over blocks whose items are all handled;
  - `Reset` is a start that sets the watermark anywhere and opens a new interval.

  `Watcher.tla` instantiates it as `WL` with the mapping `store -> wm`, the logs
  whose handler ran to its end -> `handled`, and `base -> base`.
- **`WatcherProofs.tla`** holds the TLAPS proofs about the watcher.
- **`TransferStore.tla`** is the repository.
  - `rows[id]` is the row of a transaction id, or `NoRecord`. A row is a record of the
    four columns, each holding one of the code's constants or `Unset` (the zero value).
  - `held[c]` is the `Transfer` instance caller `c` last received from a read or from
    `create`. `Save(c)` writes it back whole, as gorm's `Save` does.
  - There is one action per method. Each `Update*` method is `UpdateWhere` with the
    columns it sets, after the checks of `updateStatus` (the sanity list) and
    `baseUpdateStatus`/`isValidStatus` (the allow-list of the target value).
  - `create` fails on an existing id, since `transaction_id` is the primary key. The
    caller is handed the instance `create` built whether or not the INSERT succeeded
    (line 186 returns `tx` with the error), so `held` changes either way.
  - `GetWithMessages` uses `Find`, which does not fail on no rows: on a missing id the
    caller holds an empty instance that names no row (`NoCopy`).
  - A write that fails, or that matches no row, changes nothing: gorm's `UpdateColumn`
    and `Updates` report no error on zero rows. Such a call is a stuttering step.
  - `updateEthereumTxStatus` is never called and has no action.
- **`TransferHandler.tla`** composes `Handle` with the repository.
  - `Workers` queue workers take payloads from `queue`, which holds `Deliveries[m]`
    copies of each payload, duplicates included, plus an undecodable one.
  - `hpc[w]` is the point of `Handle` a worker is at: `initiate`, `create`, `check`,
    `fee`, `process` or `mark`. Every early return goes back to `idle`.
  - The transfers service is not in this repository, and its three calls are modelled
    from spec §4 and the repository methods they use:
    - `InitiateNewTransfer` is a `GetByTransactionId` followed, when there is no row, by
      a `Create`, as two statements. A duplicate key or a database error is an error
      return.
    - `VerifyFee` may fail.
    - `ProcessTransfer` is two calls. `ProcessTransfer(w)` signs the transfer (a network
      call that may fail; `OnSignError` returns from `Handle`). `MarkSubmitted(w)` then
      calls `UpdateStatusSignatureSubmitted`, which may fail under `DbFaults` and leave
      the row in `Initial` although the signature is out.
  - `processed[id]` counts the signings of transfer `id`.
- **`EthWatcher.tla`** is the Ethereum watcher.
  - `pc` is `stopped`, `subscribing`, `select` or `panicked`. `sub` is `none`, `nil`,
    `live` or `dead`.
  - The go-ethereum subscription is the environment. `Burn` is a chain event, forwarded
    only while the subscription is live. `Drop` is a connection failure: the error is
    sent once on `Err`, the channel is closed, and undelivered logs are lost.
  - `Subscribe` covers `WatchBurnEventLogs`, including the error path, which enters the
    loop with a nil subscription and panics at the first `select`.
  - `ReceiveErr` and `ReceiveEvent` are the two cases of the `select`.
- **`TokenScript.tla`** is the script's `main`.
  - The command line is chosen in `Init` from every combination of default, valid and
    invalid values.
  - A list flag is what `strings.Split` returns: a non-empty sequence of pieces (`""`, a
    private key, or a public key).
  - One action per stage: the flag checks, the admin key, one iteration of the
    member-key loop, the end of that loop, the supply-key build, and the token
    creation (which may fail). Each failure is a panic.
- **`TransferProofs.tla`** holds the TLAPS proofs about the repository and the handler.
- **`TokenScriptProofs.tla`** holds the TLAPS proof about the token script.
- `MCTransferStore`, `MCTransferHandler` and `MCEthWatcher` instantiate these modules
  for TLC. The token script has no TLC run: its property is proved instead.

## Runs

All runs use `Width = 4`, `Confirmations = 1`, `MaxLogsBlocks = 1` and `MaxHead = 5`.
There are three chains (this one, Hedera and another) and four tokens: a native
token with a wrapped form on Hedera, and a wrapped token whose native home is
Hedera. Amounts range over 0..4 and every decimals factor is 2.

| Run | Checks | Result |
|---|---|---|
| `watcher_safety` | `TypeOK`, `NoGap`, `ConfirmedOnly`, `WatermarkMonotone`, `ImplementsWatermarkLog` | Passes, about 200k distinct states. |
| `watcher_progress` | `Progress` | Passes, about 108k distinct states. |
| `watcher_fresh_chain` | `Progress` | Violated: uint64 underflow at part_001:102. |
| `watcher_unparsable` | `NoPanic` | Violated: nil dereference at part_001:258. |
| `watcher_lock_chainid` | `NoPanic` | Violated: `chain.Int64()` before the error check at part_001:457. |
| `watcher_lost_event` | `NoLostEvent` | Violated: a ChainID error drops a Burn and the watermark passes it. |
| `watcher_lock_min` | `PushedAmountAtLeastMin` | Violated: the minimum is checked before the fee is taken off. |
| `store_tracks_agree` | `TracksAgree` | Violated: a status write after `UpdateEthTxMined` splits the two tracks. |
| `store_recovery_query` | `RecoveryQueryComplete` | Violated: the query looks for `SignatureSubmitted` in the `Status` column, which never holds it. |
| `handler_workers` | `HandlerTypeOK`, `SignedBeforeSkipped` | Passes, about 34k distinct states. |
| `handler_partial_failure` | `AtMostOnceProcessed` | Violated: a signing whose status update fails is repeated on the next delivery. |
| `eth_subscribe_error` | `NoPanic` | Violated: `select` on the nil subscription panics. |

- **`NoGap`** is the "at least once" half of the watcher's contract. Every log of a
  block between the watermark the last start established and the current watermark
  has had its handler run to the end. It must hold across retries, failed store
  updates, panics, kills and restarts.
- **`ConfirmedOnly`**: a log reaches a handler only when it is `Confirmations` deep.
- **`ImplementsWatermarkLog`** (`WL!Spec`): the poll loop implements the watermark
  contract. Every step is a handling, an advance over fully handled blocks, a reset by
  a start, or a stutter. This holds across panics, kills and restarts.
- **`WatermarkMonotone`**: the watermark moves back only on a restart with an
  explicit start block.
- **`Progress`**: every confirmed block is eventually passed by the watermark.
- **`TracksAgree`** (spec §3 and §4.5): a mined Ethereum tx means `Status` is
  `Completed`, and a reverted one means `Failed`.
- **`RecoveryQueryComplete`**: every transfer whose signature is submitted is returned by
  `GetInitialAndSignatureSubmittedTx`.
- **`SignedBeforeSkipped`**: a transfer row leaves `Initial` only after the transfer has
  been signed. Once it has left `Initial`, every later delivery stops at the status
  check (part_000:54), so a row that left it unsigned would never be signed. This has to
  hold for every interleaving of the workers and every failing call.
- **`AtMostOnceProcessed`** (spec §4.1, consumers idempotent on the transaction id): no
  transfer is signed twice, however often it is delivered. It is checked only as a
  violation (see Findings).
- **`NoPanic`** (Ethereum watcher): a subscription error never crashes the process.

### Why these bounds

For the repository and the handler:

- The two repository runs use one transfer and one caller. That already reaches all 384
  combinations of the four columns, and every stale instance `Save` can write back. A
  second id adds nothing, because methods on different ids touch different rows.
- The handler run has two transfers, one delivered three times and executing an
  Ethereum tx (so `VerifyFee` runs), one delivered twice, and an undecodable payload.
  Database faults are on. This is enough for a duplicate to arrive after a failed
  signing, after a signing whose status update failed, and after a complete one.
- `handler_workers` has two workers, so two deliveries of one transfer can race through
  `Handle`. `handler_partial_failure` has one worker, to show that the second signing
  needs no concurrency at all.
- The Ethereum run has subscribe faults on, one drop and two Burns; the first
  failed subscription call already panics.

For the router watcher:

The safety run's log sequence has one log per effect class: a pushed Lock, a pushed
Burn, a `MemberUpdated` sharing a block with the Burn, a removed log, a Mint, and an
undecodable log. Its setup lets every path happen:

- `StartBlocks = {0, 2, 6}` gives restarts without a start block, with one inside
  the log range, and with one above every confirmed head.
- `InitHeads = {0, 3}` includes a chain younger than the confirmation depth.
- One kill is allowed.
- `TransientFaults` makes every RPC and store call able to fail.

With `MaxLogsBlocks = 1`, ranges are clamped, so multi-range runs happen. `Width = 4`
is large enough for every head and block, and small enough for `Int64(UInt(-1))`
to show the wrap.

## Fairness

The loop is a goroutine that never returns. `Fairness` puts weak fairness on each
step of the loop, and on a restart after a kill (the process supervisor). It puts
strong fairness on the successful outcome of the head fetch, the log filter, the
handlers' collaborator calls and the store update. This is the assumption that a
transient error does not last for ever. It is what the code's retry-with-sleep
(spec §7 (a)) relies on. The chain is not required to grow.

The Ethereum watcher, store and handler runs check safety only, so they assume no
fairness.

## Proofs (checked by `tlapm`)

### `WatcherProofs.tla`

- **`TypeCorrect`**: `Spec => []TypeOK`, for every width of at least 2, every
  confirmation depth and head bound below `2^(Width-1)`, and every log sequence and
  start-block set allowed by `WatcherAssumption`.
  - The proof has one step per action.
  - It rests on the lemmas `UIntRangeLemma` (`UInt` lands in `0..2^Width-1`) and
    `HandleLogType` (every handler outcome is an effect record with an integer
    amount).
- **`ConfirmedOnlyHolds`**: `Spec => []ConfirmedOnly`.
  - `ConfirmedOnly` is not inductive by itself: a `FilterLogs` step creates the
    batch from `toBlock`, which is computed a step earlier.
  - The strengthening `ConfirmedInv` adds three facts:
    - while filtering or handling, `toBlock + Confirmations <= head`;
    - every log in the batch lies at or below `toBlock`;
    - the batch is empty outside the handling phase.
  - The key lemma is `ConfirmedHeadExact`: for a head below `2^(Width-1)`,
    `Int64(UInt(head - Confirmations)) = head - Confirmations`, because the
    round trip through uint64 is exact on that range (`RoundTrip`). This is why
    the theorem needs `MaxHead < 2^(Width-1)`.

- **`NoGapHolds`**: `Spec => []NoGap`.
  - `NoGap` is not inductive. An `UpdateWatermark` step moves the watermark to
    `toBlock + 1`, and nothing in `NoGap` says the logs of `[fromBlock, toBlock]`
    were handled.
  - The strengthening `WatermarkInv` adds three facts:
    - while a range is worked on, `fromBlock` is the stored watermark;
    - the range is not empty (`fromBlock <= toBlock`, from the idle test and the
      clamp);
    - while logs are handled, every log of the range no longer in the batch has
      been handled.
  - A panic empties the batch but ends the loop, so the watermark is never written
    after it.
  - The lemma `HandledStays` says effects only grow. `StartWatermarkInt` says the
    row `NewWatcher` writes is a block number.
- **`WatermarkMonotoneHolds`**: `Spec => WatermarkMonotone`, from the same invariant.
  - `UpdateWatermark` writes `toBlock + 1`, which is above `fromBlock`, and that is
    the stored row.
  - Only `NewWatcher` with a start block can lower the watermark.
- **`ImplementsWatermarkLogHolds`**: `Spec => WL!Spec`, in the standard layout:
  - `InitRefines` maps the initial states;
  - `NextRefines` maps every step, under `WatermarkInv`, to a `WL!Next` step or a stutter:
    - `HandleLogWith` without a panic is `Handle`;
    - a panic adds a panic effect, so it is a stutter;
    - a successful `UpdateWatermark` is `Advance`;
    - `NewWatcher` with a start block or without a row is `Reset`;
    - every other step is a stutter (`StutterRefines`).

### `TransferProofs.tla`

These theorems hold for every finite set of transactions and callers (`StoreAssumption`)
and every delivery count (`HandlerAssumption`).

- **`StoreTypeCorrect`**: `StoreSpec => []StoreTypeOK`.
  It rests on `StoreStep`: every repository call keeps the store typed. `UpdatesStep`
  covers the `Update*` methods, each of which writes constants of its own columns;
  reads hand out only rows that exist, or nothing.
- **`HandlerTypeCorrect`**: `Spec => []HandlerTypeOK`, for any number of workers. The
  strengthening `HandlerTypeInv` adds that a worker inside `Handle` works on a
  transaction id, which the database calls index by.
- **`HandlerImplementsStore`**: `Spec => StoreSpec`, for any number of workers. By
  `StepIsStoreCall`, every handler step is a `StoreNext` call on the worker's id
  (`GetByTransactionId`, `Create` or `UpdateStatusSignatureSubmitted`), or leaves
  `rows` and `held` unchanged. The composition therefore inherits the repository's
  theorems.
- **`SignedBeforeSkippedHolds`**: `Spec => []SignedBeforeSkipped`, for any number of
  workers, deliveries, failed signings and database errors.
  - `SignedBeforeSkipped` is not inductive: a `MarkSubmitted` step moves a row out of
    `Initial`, and nothing in the property says its worker has signed.
  - The strengthening `SignedInv` adds that a worker at `mark` has signed its
    transfer (`processed[cur[w]] >= 1`), on top of `HandlerTypeInv`.
  - Signing counts only grow (`CountStaysSigned`), `InitiateCreate` creates rows in
    `Initial`, and steps that touch neither `rows` nor `processed` and move no worker
    to `mark` are covered once by `QuietStep`.

### `TokenScriptProofs.tla`

- **`KeysCompleteHolds`**: `Spec => []KeysComplete`, for every list length
  (`MaxPieces \in Nat`) and every command line. A created token carries every member
  key, and one supply key per member (generated) or per `supplyKeys` piece.
  - `KeysComplete` speaks only of the final state, so it is not inductive. The loop
    invariant `ScriptInv` says: before the loop nothing is parsed and `i = 1`; in the
    loop `Len(custodian) = i - 1 <= Len(memberPrKeys)`; after it every member is
    parsed; once the supply key is built its length is final; once done the token
    is that key.
  - The step for `ParseMember` uses the loop guard for `i <= Len(memberPrKeys)`;
    the step for a generated supply key uses `DOMAIN custodian = 1..Len(custodian)`.
  - This replaces a TLC run. The proof covers every list length, while TLC
    covered lists of up to two pieces.

### Only model-checked

- `Progress` is a liveness property. TLAPS cannot reason about `ENABLED` and
  fairness, so TLC checks it.
- `NoLostEvent`, `NoPanic`, `PushedAmountAtLeastMin`, `TracksAgree` and
  `RecoveryQueryComplete` do not hold in the code. Their violation runs show it,
  and there is nothing to prove.
- `AtMostOnceProcessed` is false (see Findings), so it is only shown violated.

## Findings

`PROJECT.json` lists the disagreements between the code and `spec.md`, its comments or its
evident intent. Most are shown by a violation run:

- the uint64 underflow of the initial target block. The stall that follows assumes the
  node rejects `eth_getLogs` from a negative block. go-ethereum's client sends -1 as
  `"pending"`, so a node that accepts that range would let the watcher move on;
- two panics, one on an undecodable log and one on a ChainID error in
  `handleLockLog`;
- events lost on collaborator errors;
- the Lock minimum checked on the gross amount;
- `updateStatus` ignores `EthTxStatus`: a mined transfer can be moved to another status
  (spec §4.5).
- `baseUpdateStatus` checks only the target value, so `SignatureMsgStatus` can leave
  its track (spec §3): unset straight to `SignatureMined`, or from `SignatureMined`
  to `SignatureFailed`. This was seen with TLC while modelling and is recorded as a
  hazard, not a run.
- `GetInitialAndSignatureSubmittedTx` filters the wrong column and never returns a
  transfer whose signature was submitted.
- `Handle` is not idempotent on the transaction id (spec §4.1), even with one worker
  (`handler_partial_failure`). `ProcessTransfer` signs, then marks the row. When the
  status update fails, the row stays `Initial` and the next delivery signs again. With
  two workers, both can also read `Initial` before either marks the row; that race is
  recorded as a hazard. What does hold is `SignedBeforeSkipped`: no transfer is skipped
  unsigned.
- The Ethereum watcher panics on a subscribe error (`eth_subscribe_error`). After a
  later subscription failure it never resubscribes, so every later Burn is missed
  (the `Drop` action leads there; recorded as a hazard).
- The token script accepts a threshold above its number of supply keys (a hazard;
  `TokenScript` keeps the threshold in the token).

## Not modelled, and why

- The transfers and members services, and the progress-store implementation, are not in
  this repository. The handler model uses the behaviour spec §4 gives the three
  service calls.
- `prometheus.go` holds only constants; the code that builds metric names from them is
  not in this repository.
- Logging, formatting, the metric-creation calls of the handlers, the client set-up of
  the script, and token names and decimals change no state a property reads.
- The member reload started by `MemberUpdated` is recorded as an effect only.
- Still open: that `WatermarkLog`'s `Spec` implies its own coverage invariant
  (`WL!Covered`, which is `NoGap` under the mapping). It is proved directly for the
  watcher instead. A liveness counterpart of the contract is also open; TLAPS cannot
  prove it, and TLC checks `Progress`.
