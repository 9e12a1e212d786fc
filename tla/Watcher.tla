------------------------------ MODULE Watcher ------------------------------
(***************************************************************************)
(* One EVM router watcher (src/unnamed/part_001): NewWatcher, the poll     *)
(* loop beginWatching, processLogs and the per-log handlers of Classifier, *)
(* together with the Progress Store row it owns, the chain head it reads,  *)
(* process kills and supervisor restarts.                                  *)
(*                                                                         *)
(* The chain's router logs are the constant sequence Logs, sorted by       *)
(* block as eth_getLogs returns them; a log is named by its index.  Block  *)
(* numbers are uint64 in the client and int64 in the store: both are kept  *)
(* modulo 2^Width so that the conversions wrap as they do in Go.           *)
(***************************************************************************)
EXTENDS Classifier, Sequences, FiniteSets

CONSTANTS
  Width,          \* bit width of the block-number integers (64 in Go)
  Confirmations,  \* evmClient.BlockConfirmations()
  MaxLogsBlocks,  \* filterConfig.maxLogsBlocks
  Logs,           \* the router logs on the chain, sorted by block
  Amounts,        \* the event amounts and fees that occur in Logs
  Validator,      \* the validator flag of NewWatcher
  StartBlocks,    \* startBlock values a (re)start may be given; 0 = none
  InitHeads,      \* chain heights at which the system may be deployed
  MaxHead,        \* bound on the chain head
  MaxCrashes,     \* bound on process kills from outside
  TransientFaults,\* whether store and RPC calls may return an error
  NoRow           \* the Progress Store has no row for dbIdentifier

ASSUME WatcherAssumption ==
  /\ Width \in Nat \ {0, 1}
  /\ 2^(Width - 1) \in Nat \ {0} /\ 2^Width = 2 * 2^(Width - 1)
  /\ MaxHead \in Nat /\ MaxHead < 2^(Width - 1)
  /\ Confirmations \in Nat /\ Confirmations < 2^(Width - 1)
  /\ MaxLogsBlocks \in Nat \ {0}
  /\ Amounts \subseteq Nat
  /\ Logs \in Seq(LogRecord(Amounts))
  /\ \A i \in DOMAIN Logs : Logs[i].block <= MaxHead
  /\ \A i, j \in DOMAIN Logs : i < j => Logs[i].block <= Logs[j].block
  /\ Validator \in BOOLEAN
  /\ 0 \in StartBlocks /\ StartBlocks \subseteq 0 .. (2^(Width - 1) - 1)
  /\ InitHeads \subseteq 0 .. MaxHead
  /\ MaxCrashes \in Nat
  /\ TransientFaults \in BOOLEAN
  /\ NoRow \notin Int

LogIds == DOMAIN Logs

\* Go's uint64 arithmetic and the uint64 <-> int64 conversions, at Width bits.
UIntRange == 2^Width
UInt(x) == x % UIntRange
Int64(u) == IF u >= UIntRange \div 2 THEN u - UIntRange ELSE u
MaxU(a, b) == IF a >= b THEN a ELSE b

\* The outcomes a store or RPC call may have.
Results == IF TransientFaults THEN BOOLEAN ELSE {TRUE}

VARIABLES
  head,         \* the chain head RetryBlockNumber returns
  store,        \* the Progress Store row: NoRow or an int64 block
  pc,           \* "down" (process not running), "get", "head", "filter", "logs"
  fromBlock,    \* beginWatching's fromBlock of the current iteration
  toBlock,      \* beginWatching's toBlock of the current iteration
  batch,        \* the logs of [fromBlock, toBlock] not yet handled
  targetBlock,  \* ew.targetBlock, the live cutoff fixed by NewWatcher
  crashes,      \* process kills so far
  effects,      \* history: every handler outcome, with its log
  base          \* history: the watermark the last NewWatcher established

vars == <<head, store, pc, fromBlock, toBlock, batch, targetBlock, crashes, effects, base>>

EffectRecords == [log: LogIds, effect: EffectKinds, topic: Topics \cup {NoTopic}, amount: Int]

(***************************************************************************)
(* Helpers of the poll loop, named so that their variants can be checked.  *)
(***************************************************************************)
\* Variant: the confirmation depth forgotten.
ConfirmedHeadUnconfirmed(h) == Int64(UInt(h))

\* toBlock := int64(currentBlock - ew.evmClient.BlockConfirmations())
ConfirmedHead(h) == Int64(UInt(h - Confirmations))

\* Variant: the idle test dropped.
HasNewBlocksAlways(from, to) == TRUE

\* the "no newly confirmed blocks" test, negated
HasNewBlocks(from, to) == from <= to

\* the eth_getLogs chunk limit
ClampTo(from, to) == IF to - from > MaxLogsBlocks THEN from + MaxLogsBlocks ELSE to

\* Variants: the watermark set one block too far, or to the last block.
NextFromBlockSkip(to) == to + 2
NextFromBlockSame(to) == to

\* blockToBeUpdated := endBlock + 1
NextFromBlock(to) == to + 1

\* Variant: the subtraction done on signed integers.
InitialTargetSigned(h) == h - Confirmations

\* the initial targetBlock: helper.Max(0, currentBlock - confirmations)
InitialTarget(h) == MaxU(0, UInt(h - Confirmations))

\* The store value NewWatcher leaves: an explicit startBlock overrides it,
\* otherwise a missing row is created at int64(targetBlock).
StartWatermark(sb, row, tb) ==
  IF sb # 0 THEN sb ELSE IF row = NoRow THEN Int64(tb) ELSE row

\* Variant: the range taken as half-open, [from, to).
LogsInHalfOpen(from, to) == {i \in LogIds : from <= Logs[i].block /\ Logs[i].block < to}

\* The logs eth_getLogs returns for [from, to].
LogsIn(from, to) == {i \in LogIds : from <= Logs[i].block /\ Logs[i].block <= to}

(***************************************************************************)
(* Actions.                                                                *)
(***************************************************************************)
Init ==
  /\ head \in InitHeads
  /\ store = NoRow
  /\ pc = "down"
  /\ fromBlock = 0
  /\ toBlock = 0
  /\ batch = {}
  /\ targetBlock = 0
  /\ crashes = 0
  /\ effects = {}
  /\ base = 0

\* NewWatcher followed by Watch: compute the live cutoff, reconcile the
\* store row with startBlock, start the poll loop.  A failing store call
\* there is log.Fatalf: the process stays down (a stuttering step).
NewWatcher(sb) ==
  /\ pc = "down"
  /\ LET tb == InitialTarget(head) IN
       /\ store' = StartWatermark(sb, store, tb)
       /\ targetBlock' = IF sb # 0 THEN UInt(sb) ELSE tb
  /\ base' = IF sb # 0 \/ store = NoRow THEN store' ELSE base
  /\ pc' = "get"
  /\ UNCHANGED <<head, fromBlock, toBlock, batch, crashes, effects>>

\* fromBlock, err := ew.repository.Get(ew.dbIdentifier).  An error
\* `continue`s without changing anything (a stuttering step).
GetFromBlock ==
  /\ pc = "get"
  /\ store # NoRow
  /\ fromBlock' = store
  /\ pc' = "head"
  /\ UNCHANGED <<head, store, toBlock, batch, targetBlock, crashes, effects, base>>

\* RetryBlockNumber, the idle test and the chunk clamp.
FetchHead ==
  /\ pc = "head"
  /\ \E ok \in Results :
       LET to == ConfirmedHead(head) IN
       IF ok /\ HasNewBlocks(fromBlock, to)
         THEN /\ toBlock' = ClampTo(fromBlock, to)
              /\ pc' = "filter"
         ELSE /\ pc' = "get"
              /\ UNCHANGED toBlock
  /\ UNCHANGED <<head, store, fromBlock, batch, targetBlock, crashes, effects, base>>

\* processLogs: RetryFilterLogs.  A negative block number is taken as an
\* eth_getLogs argument the node rejects, so the call fails.  This is an
\* assumption about the node: go-ethereum's client sends -1 as "pending"
\* (and -2 .. -4 as other named tags), and what a node answers for such a
\* range is not fixed by this code.
FilterLogs ==
  /\ pc = "filter"
  /\ \E ok \in Results :
       IF ok /\ fromBlock >= 0
         THEN /\ batch' = LogsIn(fromBlock, toBlock)
              /\ pc' = "logs"
         ELSE /\ pc' = "get"
              /\ UNCHANGED batch
  /\ UNCHANGED <<head, store, fromBlock, toBlock, targetBlock, crashes, effects, base>>

\* The loop body of processLogs for the next log in block order: the whole
\* handler, given the answers of ChainID() and RemoveDecimals.  A panic
\* ends the process.
HandleLogWith(chainOk, decOk) ==
  /\ pc = "logs"
  /\ \E i \in batch :
       /\ \A j \in batch : i <= j
       /\ LET live == Validator /\ Logs[i].block >= targetBlock
              o == HandleLog(Logs[i], chainOk, decOk, live)
          IN /\ effects' = effects \cup {[log |-> i, effect |-> o.effect, topic |-> o.topic, amount |-> o.amount]}
             /\ IF o.effect = "panic"
                  THEN /\ pc' = "down" /\ batch' = {}
                  ELSE /\ batch' = batch \ {i} /\ UNCHANGED pc
  /\ UNCHANGED <<head, store, fromBlock, toBlock, targetBlock, crashes, base>>

HandleNextLog == \E chainOk, decOk \in Results : HandleLogWith(chainOk, decOk)

\* The end of processLogs: repository.Update(blockToBeUpdated).
UpdateWatermark ==
  /\ pc = "logs"
  /\ batch = {}
  /\ \E ok \in Results :
       store' = IF ok THEN NextFromBlock(toBlock) ELSE store
  /\ pc' = "get"
  /\ UNCHANGED <<head, fromBlock, toBlock, batch, targetBlock, crashes, effects, base>>

\* The process is killed from outside, at any point.
Crash ==
  /\ pc # "down"
  /\ crashes < MaxCrashes
  /\ pc' = "down"
  /\ batch' = {}
  /\ crashes' = crashes + 1
  /\ UNCHANGED <<head, store, fromBlock, toBlock, targetBlock, effects, base>>

\* The chain grows.
AdvanceHead ==
  /\ head < MaxHead
  /\ head' = head + 1
  /\ UNCHANGED <<store, pc, fromBlock, toBlock, batch, targetBlock, crashes, effects, base>>

Next ==
  \/ \E sb \in StartBlocks : NewWatcher(sb)
  \/ GetFromBlock
  \/ FetchHead
  \/ FilterLogs
  \/ HandleNextLog
  \/ UpdateWatermark
  \/ Crash
  \/ AdvanceHead

(***************************************************************************)
(* Fairness.  The poll loop is a goroutine that never stops; a transient   *)
(* store or RPC error does not last for ever (strong fairness on the       *)
(* successful call); a dead process is restarted by its supervisor with    *)
(* the configured startBlock.  The chain is not required to grow.          *)
(***************************************************************************)
FetchHeadOk == FetchHead /\ pc' = "filter"
FilterLogsOk == FilterLogs /\ pc' = "logs"
UpdateWatermarkOk == UpdateWatermark /\ store' = NextFromBlock(toBlock)

Fairness ==
  /\ WF_vars(\E sb \in StartBlocks : NewWatcher(sb))
  /\ WF_vars(GetFromBlock)
  /\ WF_vars(FetchHead) /\ SF_vars(FetchHeadOk)
  /\ WF_vars(FilterLogs) /\ SF_vars(FilterLogsOk)
  /\ WF_vars(HandleNextLog) /\ SF_vars(HandleLogWith(TRUE, TRUE))
  /\ WF_vars(UpdateWatermark) /\ SF_vars(UpdateWatermarkOk)

Spec == Init /\ [][Next]_vars /\ Fairness

(***************************************************************************)
(* Properties.                                                             *)
(***************************************************************************)
TypeOK ==
  /\ head \in 0 .. MaxHead
  /\ store \in Int \cup {NoRow}
  /\ pc \in {"down", "get", "head", "filter", "logs"}
  /\ fromBlock \in Int /\ toBlock \in Int
  /\ batch \subseteq LogIds
  /\ targetBlock \in 0 .. (UIntRange - 1)
  /\ crashes \in 0 .. MaxCrashes
  /\ effects \subseteq EffectRecords
  /\ base \in Int

\* A log's handler ran to its end (whatever it decided).
Handled(i) == \E e \in effects : e.log = i /\ e.effect # "panic"

\* No gap (processLogs, beginWatching, NewWatcher): every log of a block
\* between the watermark NewWatcher established and the current watermark
\* has been handled -- across retries, store errors, panics, kills and
\* restarts.  This is the "at least once" half of the watcher's contract.
NoGap ==
  store # NoRow =>
    \A i \in LogIds : base <= Logs[i].block /\ Logs[i].block < store => Handled(i)

\* Confirmed only (beginWatching): every log the current range is about to
\* hand to a handler lies at least Confirmations blocks below the head.
ConfirmedOnly == \A i \in batch : Logs[i].block + Confirmations <= head

\* The watermark never moves backwards (processLogs, NewWatcher), except
\* when the process is (re)started with an explicit startBlock, which
\* overrides it: a restart without one resumes from the stored value.
WatermarkMonotone ==
  [][store # NoRow /\ store' # NoRow /\ store' < store =>
       pc = "down" /\ store' \in StartBlocks \ {0}]_vars

\* The inductive strengthening of ConfirmedOnly: a range being filtered or
\* handled ends Confirmations blocks below the head, the batch holds only
\* logs of that range, and there is a batch only while logs are handled.
ConfirmedInv ==
  /\ TypeOK
  /\ pc \in {"filter", "logs"} => toBlock + Confirmations <= head
  /\ \A i \in batch : Logs[i].block <= toBlock
  /\ pc # "logs" => batch = {}

\* The inductive strengthening of NoGap: while a range is worked on,
\* fromBlock is the stored watermark and the range is not empty, every log
\* of the range no longer in the batch has been handled, and NoGap holds.
WatermarkInv ==
  /\ TypeOK
  /\ pc \in {"head", "filter", "logs"} => store # NoRow /\ fromBlock = store
  /\ pc \in {"filter", "logs"} => fromBlock <= toBlock
  /\ pc = "logs" => \A i \in LogsIn(fromBlock, toBlock) \ batch : Handled(i)
  /\ NoGap

\* The refinement mapping onto the watcher contract of WatermarkLog: the
\* stored row is the watermark, the handled logs are the logs whose
\* handler ran to its end, and base is the interval NewWatcher opened.
HandledLogs == {i \in LogIds : Handled(i)}

WL == INSTANCE WatermarkLog
        WITH Items <- LogIds, BlockOf <- [i \in LogIds |-> Logs[i].block],
             wm <- store, handled <- HandledLogs, base <- base

\* Implements the watermark contract (NewWatcher, beginWatching,
\* processLogs, across errors, panics, kills and restarts): the stored
\* watermark only moves forward, and only past blocks all of whose logs
\* have been handled, unless a start sets it, which opens a new interval.
ImplementsWatermarkLog == WL!Spec

\* Progress (beginWatching): every block that becomes confirmed is
\* eventually below the watermark, i.e. has been processed.
Progress ==
  \A b \in 0 .. MaxHead :
    (head >= b + Confirmations) ~> (store # NoRow /\ store > b)

\* No crash (processLogs and the handlers): spec section 7 says a malformed
\* log, a business rejection or a transient error never crashes the
\* watcher; here no handler outcome is a panic.
NoPanic == \A e \in effects : e.effect # "panic"

\* What a log's handler does when every collaborator call succeeds.
Intended(i) == HandleLog(Logs[i], TRUE, TRUE, TRUE).effect

\* No lost event (handleBurnLog, handleLockLog, handleMintLog,
\* handleUnlockLog, processLogs): every log below the watermark that would
\* be dispatched (or counted) when its calls succeed has been dispatched
\* (or counted); spec section 7 says transient errors are retried, never
\* let the watermark pass an event.
NoLostEvent ==
  store # NoRow =>
    \A i \in LogIds :
      base <= Logs[i].block /\ Logs[i].block < store /\ Intended(i) \in {"push", "metric"}
        => \E e \in effects : e.log = i /\ e.effect = Intended(i)

\* The native asset whose MinAmount governs a Lock or Burn log.
NativeAssetOf(l) == IF l.kind = "Lock" THEN l.token ELSE WrappedToNativeMap[l.token].asset

\* Amount floor (handleLockLog, handleBurnLog): spec section 3 says a
\* Transfer's amount, already normalised to the target chain, is at least
\* the asset's configured minimum, and section 8 that a Lock of 1000 with
\* fee 100 and minimum 1000 is dropped.
PushedAmountAtLeastMin ==
  \A e \in effects :
    e.effect = "push" => e.amount >= MinAmount[NativeAssetOf(Logs[e.log])]

=============================================================================
