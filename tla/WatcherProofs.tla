--------------------------- MODULE WatcherProofs ---------------------------
(***************************************************************************)
(* Proofs about the watcher for every value of the constants: the type     *)
(* invariant; that the poll loop only hands confirmed logs to the handlers *)
(* (ConfirmedOnly, through ConfirmedInv); that the watermark never passes  *)
(* an unhandled log (NoGap) and never moves back except on an explicit     *)
(* start (WatermarkMonotone), through WatermarkInv; and that the watcher   *)
(* implements the watermark contract WatermarkLog.                         *)
(***************************************************************************)
EXTENDS Watcher, TLAPS

Half == 2^(Width - 1)

\* The facts about the block-number width that the proofs use.
LEMMA WidthFacts ==
  /\ Half \in Nat \ {0}
  /\ UIntRange = 2 * Half
  /\ MaxHead < Half /\ Confirmations < Half
BY WatcherAssumption DEF Half, UIntRange

\* uint64 wraparound lands in the uint64 range.
LEMMA UIntRangeLemma ==
  ASSUME NEW x \in Int
  PROVE  UInt(x) \in 0 .. (UIntRange - 1)
BY WidthFacts DEF UInt

\* int64(uint64(x)) = x for every x an int64 can hold: the conversions of
\* beginWatching are exact as long as head and Confirmations stay below
\* 2^(Width-1).
LEMMA RoundTrip ==
  ASSUME NEW x \in Int, -Half <= x, x < Half
  PROVE  Int64(UInt(x)) = x
<1>1. CASE x >= 0
  BY <1>1, WidthFacts DEF Int64, UInt
<1>2. CASE x < 0
  <2>1. UInt(x) = x + UIntRange
    BY <1>2, WidthFacts DEF UInt
  <2>2. QED
    BY <2>1, <1>2, WidthFacts DEF Int64
<1>3. QED
  BY <1>1, <1>2

\* Every handler outcome is an effect kind with a topic and an amount.
LEMMA HandleLogType ==
  ASSUME NEW l \in LogRecord(Amounts), NEW c, NEW d, NEW live
  PROVE  /\ HandleLog(l, c, d, live).effect \in EffectKinds
         /\ HandleLog(l, c, d, live).topic \in Topics \cup {NoTopic}
         /\ HandleLog(l, c, d, live).amount \in Int
<1>1. /\ HandleLog(l, c, d, live).effect \in EffectKinds
      /\ HandleLog(l, c, d, live).topic \in Topics \cup {NoTopic}
  BY Zenon DEF HandleLog, HandleLockLog, HandleBurnLog, HandleMintOrUnlockLog,
       Effect, Pushed, LockTopic, BurnTopic, EffectKinds, Topics,
       SigningTopics, ReadOnlyTopics, NoTopic
<1>2. /\ l.amount \in Amounts /\ l.fee \in Amounts /\ l.token \in Tokens
  BY Zenon DEF LogRecord
<1>3. /\ Adjusted(l.amount - l.fee, l.token, l.target) \in Int
      /\ Adjusted(l.amount, l.token, l.target) \in Int
  <2>0. Amounts \subseteq Nat
    BY WatcherAssumption
  <2>1. /\ l.amount \in Nat /\ l.fee \in Nat
    BY <1>2, <2>0, Zenon
  <2>2. DecimalsDiv[l.token] \in Nat \ {0}
    BY <1>2, ClassifierAssumption
  <2>3. QED
    BY <2>1, <2>2 DEF Adjusted
<1>4. HandleLog(l, c, d, live).amount \in
        {0, Adjusted(l.amount - l.fee, l.token, l.target), Adjusted(l.amount, l.token, l.target)}
  BY Zenon DEF HandleLog, HandleLockLog, HandleBurnLog, HandleMintOrUnlockLog,
       Effect, Pushed
<1>5. QED
  BY <1>1, <1>3, <1>4

-----------------------------------------------------------------------------
(***************************************************************************)
(* Type correctness.                                                       *)
(***************************************************************************)
LEMMA InitTypeOK == Init => TypeOK
BY WatcherAssumption, WidthFacts DEF Init, TypeOK

LEMMA NextTypeOK == TypeOK /\ [Next]_vars => TypeOK'
<1> SUFFICES ASSUME TypeOK, [Next]_vars PROVE TypeOK'
  OBVIOUS
<1>1. ASSUME NEW sb \in StartBlocks, NewWatcher(sb) PROVE TypeOK'
  <2>1. store' \in Int \cup {NoRow}
    <3>0. head - Confirmations \in Int
      BY WatcherAssumption DEF TypeOK
    <3>1. UInt(head - Confirmations) \in 0 .. (UIntRange - 1)
      BY <3>0, UIntRangeLemma
    <3>2. QED
      BY <1>1, <3>1, WatcherAssumption, WidthFacts
         DEF NewWatcher, StartWatermark, InitialTarget, MaxU, Int64, TypeOK
  <2>2. targetBlock' \in 0 .. (UIntRange - 1)
    <3>0. head - Confirmations \in Int
      BY WatcherAssumption DEF TypeOK
    <3>1. UInt(head - Confirmations) \in 0 .. (UIntRange - 1)
      BY <3>0, UIntRangeLemma
    <3>2. UInt(sb) \in 0 .. (UIntRange - 1)
      <4>1. sb \in Int
        BY WatcherAssumption
      <4>2. QED
        BY <4>1, UIntRangeLemma
    <3>3. QED
      BY <1>1, <3>1, <3>2 DEF NewWatcher, InitialTarget, MaxU
  <2>3. base' \in Int
    BY <1>1, <2>1, WatcherAssumption DEF NewWatcher, StartWatermark, TypeOK
  <2>4. QED
    BY <1>1, <2>1, <2>2, <2>3 DEF NewWatcher, TypeOK
<1>2. CASE GetFromBlock
  BY <1>2 DEF GetFromBlock, TypeOK
<1>3. CASE FetchHead
  <2>1. ConfirmedHead(head) \in Int
    <3>1. head - Confirmations \in Int
      BY WatcherAssumption DEF TypeOK
    <3>2. UInt(head - Confirmations) \in Int
      BY <3>1, UIntRangeLemma
    <3>3. QED
      BY <3>2, WidthFacts DEF ConfirmedHead, Int64
  <2>2. QED
    BY <1>3, <2>1, WatcherAssumption DEF FetchHead, ClampTo, TypeOK
<1>4. CASE FilterLogs
  BY <1>4 DEF FilterLogs, LogsIn, TypeOK
<1>5. ASSUME NEW c \in Results, NEW d \in Results, HandleLogWith(c, d)
      PROVE TypeOK'
  <2>1. PICK i \in batch :
          LET o == HandleLog(Logs[i], c, d, Validator /\ Logs[i].block >= targetBlock)
          IN /\ effects' = effects \cup {[log |-> i, effect |-> o.effect, topic |-> o.topic, amount |-> o.amount]}
             /\ IF o.effect = "panic"
                  THEN pc' = "down" /\ batch' = {}
                  ELSE batch' = batch \ {i} /\ pc' = pc
    BY <1>5 DEF HandleLogWith
  <2>2. effects' \subseteq EffectRecords
    <3>1. Logs[i] \in LogRecord(Amounts)
      BY WatcherAssumption DEF TypeOK, LogIds
    <3>2. QED
      BY <2>1, <3>1, HandleLogType DEF TypeOK, EffectRecords
  <2>3. QED
    BY <1>5, <2>1, <2>2 DEF HandleLogWith, TypeOK
<1>6. CASE UpdateWatermark
  BY <1>6 DEF UpdateWatermark, NextFromBlock, TypeOK
<1>7. CASE Crash
  BY <1>7, WatcherAssumption DEF Crash, TypeOK
<1>8. CASE AdvanceHead
  BY <1>8, WatcherAssumption DEF AdvanceHead, TypeOK
<1>9. CASE UNCHANGED vars
  BY <1>9 DEF vars, TypeOK
<1>10. QED
  BY <1>1, <1>2, <1>3, <1>4, <1>5, <1>6, <1>7, <1>8, <1>9 DEF Next, HandleNextLog

\* The watcher's state keeps its types in every reachable state.
THEOREM TypeCorrect == Spec => []TypeOK
BY InitTypeOK, NextTypeOK, PTL DEF Spec

-----------------------------------------------------------------------------
(***************************************************************************)
(* Only confirmed logs reach the handlers.                                 *)
(***************************************************************************)
\* Every log's block is a natural number.
LEMMA LogBlocks == \A i \in LogIds : Logs[i].block \in Nat
<1> TAKE i \in LogIds
<1>1. Logs[i] \in LogRecord(Amounts)
  BY WatcherAssumption DEF LogIds
<1>2. QED
  BY <1>1, Zenon DEF LogRecord

\* The toBlock beginWatching computes is exactly head - Confirmations.
LEMMA ConfirmedHeadExact ==
  ASSUME NEW h \in 0 .. MaxHead
  PROVE  ConfirmedHead(h) = h - Confirmations
<1>1. h - Confirmations \in Int /\ -Half <= h - Confirmations /\ h - Confirmations < Half
  BY WidthFacts, WatcherAssumption
<1>2. QED
  BY <1>1, RoundTrip DEF ConfirmedHead

LEMMA InitConfirmedInv == Init => ConfirmedInv
BY InitTypeOK DEF Init, ConfirmedInv

LEMMA NextConfirmedInv == ConfirmedInv /\ [Next]_vars => ConfirmedInv'
<1> SUFFICES ASSUME ConfirmedInv, [Next]_vars PROVE ConfirmedInv'
  OBVIOUS
<1>0. TypeOK'
  BY NextTypeOK DEF ConfirmedInv
<1>1. ASSUME NEW sb \in StartBlocks, NewWatcher(sb) PROVE ConfirmedInv'
  BY <1>0, <1>1 DEF NewWatcher, ConfirmedInv
<1>2. CASE GetFromBlock
  BY <1>0, <1>2 DEF GetFromBlock, ConfirmedInv
<1>3. CASE FetchHead
  <2>1. ConfirmedHead(head) = head - Confirmations
    BY ConfirmedHeadExact DEF ConfirmedInv, TypeOK
  <2>2. pc' = "filter" => toBlock' <= head - Confirmations
    <3> SUFFICES ASSUME pc' = "filter" PROVE toBlock' <= head - Confirmations
      OBVIOUS
    <3>1. toBlock' = ClampTo(fromBlock, ConfirmedHead(head))
          /\ fromBlock <= ConfirmedHead(head)
      BY <1>3 DEF FetchHead, HasNewBlocks
    <3>2. fromBlock \in Int /\ head \in Int /\ Confirmations \in Nat /\ MaxLogsBlocks \in Nat
      BY WatcherAssumption DEF ConfirmedInv, TypeOK
    <3>3. QED
      BY <2>1, <3>1, <3>2 DEF ClampTo
  <2>3. /\ pc' \in {"filter", "get"} /\ pc = "head"
        /\ batch' = batch /\ head' = head
    BY <1>3 DEF FetchHead
  <2>4. batch' = {}
    BY <2>3 DEF ConfirmedInv
  <2>5. toBlock' \in Int /\ head \in Int /\ Confirmations \in Nat
    BY <1>0, WatcherAssumption DEF ConfirmedInv, TypeOK
  <2>6. pc' \in {"filter", "logs"} => toBlock' + Confirmations <= head'
    <3> SUFFICES ASSUME pc' \in {"filter", "logs"}
                 PROVE  toBlock' + Confirmations <= head'
      OBVIOUS
    <3>1. pc' = "filter"
      BY <2>3, Zenon
    <3>2. toBlock' <= head - Confirmations
      BY <3>1, <2>2
    <3>3. toBlock' + Confirmations <= head
      <4>1. PICK t \in Int : t = toBlock'
        BY <2>5
      <4>2. t <= head - Confirmations
        BY <3>2, <4>1
      <4>3. t + Confirmations <= head
        BY <4>2, <2>5
      <4>4. QED
        BY <4>1, <4>3
    <3>4. QED
      BY <3>3, <2>3
  <2>7. QED
    BY <1>0, <2>3, <2>4, <2>6 DEF ConfirmedInv
<1>4. CASE FilterLogs
  BY <1>0, <1>4 DEF FilterLogs, LogsIn, ConfirmedInv
<1>5. ASSUME NEW c \in Results, NEW d \in Results, HandleLogWith(c, d)
      PROVE ConfirmedInv'
  <2>1. PICK i \in batch :
          LET o == HandleLog(Logs[i], c, d, Validator /\ Logs[i].block >= targetBlock)
          IN IF o.effect = "panic"
               THEN pc' = "down" /\ batch' = {}
               ELSE batch' = batch \ {i} /\ pc' = pc
    BY <1>5 DEF HandleLogWith
  <2>2. /\ batch' \subseteq batch
        /\ pc' = pc \/ (pc' = "down" /\ batch' = {})
    BY <2>1
  <2>3. pc = "logs" /\ head' = head /\ toBlock' = toBlock
    BY <1>5 DEF HandleLogWith
  <2>4. pc' \in {"filter", "logs"} => toBlock' + Confirmations <= head'
    BY <2>2, <2>3 DEF ConfirmedInv
  <2>5. \A j \in batch' : Logs[j].block <= toBlock'
    BY <2>2, <2>3 DEF ConfirmedInv
  <2>6. pc' # "logs" => batch' = {}
    BY <2>2, <2>3
  <2>7. QED
    BY <1>0, <2>4, <2>5, <2>6 DEF ConfirmedInv
<1>6. CASE UpdateWatermark
  BY <1>0, <1>6 DEF UpdateWatermark, ConfirmedInv
<1>7. CASE Crash
  BY <1>0, <1>7 DEF Crash, ConfirmedInv
<1>8. CASE AdvanceHead
  <2>1. head' = head + 1 /\ UNCHANGED <<pc, toBlock, batch>>
    BY <1>8 DEF AdvanceHead
  <2>2. head \in Int /\ toBlock \in Int /\ Confirmations \in Nat
    BY WatcherAssumption DEF ConfirmedInv, TypeOK
  <2>3. QED
    BY <1>0, <2>1, <2>2 DEF ConfirmedInv
<1>9. CASE UNCHANGED vars
  BY <1>0, <1>9 DEF vars, ConfirmedInv
<1>10. QED
  BY <1>1, <1>2, <1>3, <1>4, <1>5, <1>6, <1>7, <1>8, <1>9 DEF Next, HandleNextLog

LEMMA ConfirmedInvImplies == ConfirmedInv => ConfirmedOnly
<1> SUFFICES ASSUME ConfirmedInv, NEW i \in batch
             PROVE  Logs[i].block + Confirmations <= head
  BY DEF ConfirmedOnly
<1>1. pc = "logs" /\ i \in LogIds
  BY DEF ConfirmedInv, TypeOK
<1>2. QED
  BY <1>1, LogBlocks, WatcherAssumption DEF ConfirmedInv, TypeOK

\* The poll loop hands a log to its handler only once the log's block is
\* at least Confirmations blocks below the chain head, for every width,
\* depth, chunk size and chain.
THEOREM ConfirmedOnlyHolds == Spec => []ConfirmedOnly
BY InitConfirmedInv, NextConfirmedInv, ConfirmedInvImplies, PTL DEF Spec

-----------------------------------------------------------------------------
(***************************************************************************)
(* No gap, the watermark's monotony, and the refinement of WatermarkLog,   *)
(* all through the inductive invariant WatermarkInv.                       *)
(***************************************************************************)
\* A log once handled stays handled: effects only grow.
LEMMA HandledStays ==
  ASSUME NEW j, effects \subseteq effects', Handled(j)
  PROVE  Handled(j)'
BY DEF Handled

\* The start watermark NewWatcher leaves is a block number.
LEMMA StartWatermarkInt ==
  ASSUME TypeOK, NEW sb \in StartBlocks, sb # 0 \/ store = NoRow
  PROVE  StartWatermark(sb, store, InitialTarget(head)) \in Int
<1>0. head - Confirmations \in Int
  BY WatcherAssumption DEF TypeOK
<1>1. UInt(head - Confirmations) \in 0 .. (UIntRange - 1)
  BY <1>0, UIntRangeLemma
<1>2. InitialTarget(head) \in 0 .. (UIntRange - 1)
  BY <1>1 DEF InitialTarget, MaxU
<1>3. sb \in Int
  BY WatcherAssumption
<1>4. QED
  BY <1>2, <1>3, WidthFacts DEF StartWatermark, Int64

LEMMA InitWatermarkInv == Init => WatermarkInv
BY InitTypeOK DEF Init, WatermarkInv, NoGap

LEMMA NextWatermarkInv == WatermarkInv /\ [Next]_vars => WatermarkInv'
<1> SUFFICES ASSUME WatermarkInv, [Next]_vars PROVE WatermarkInv'
  OBVIOUS
<1>0. TypeOK' /\ TypeOK
  BY NextTypeOK DEF WatermarkInv
<1>1. ASSUME NEW sb \in StartBlocks, NewWatcher(sb) PROVE WatermarkInv'
  <2>1. pc' = "get" /\ effects' = effects
    BY <1>1 DEF NewWatcher
  <2>2. CASE sb # 0 \/ store = NoRow
    <3>1. base' = store' /\ store' \in Int
      BY <1>1, <2>2, <1>0, StartWatermarkInt DEF NewWatcher
    <3>2. NoGap'
      BY <3>1, LogBlocks DEF NoGap
    <3>3. QED  BY <1>0, <2>1, <3>2 DEF WatermarkInv
  <2>3. CASE ~(sb # 0 \/ store = NoRow)
    <3>1. store' = store /\ base' = base
      BY <1>1, <2>3 DEF NewWatcher, StartWatermark
    <3>2. NoGap'
      BY <2>1, <3>1 DEF WatermarkInv, NoGap, Handled
    <3>3. QED  BY <1>0, <2>1, <3>2 DEF WatermarkInv
  <2>4. QED  BY <2>2, <2>3
<1>2. CASE GetFromBlock
  BY <1>0, <1>2 DEF GetFromBlock, WatermarkInv, NoGap, Handled
<1>3. CASE FetchHead
  <2>1. UNCHANGED <<store, fromBlock, batch, effects, base>> /\ pc = "head"
    BY <1>3 DEF FetchHead
  <2>2. pc' = "filter" => fromBlock' <= toBlock'
    <3> SUFFICES ASSUME pc' = "filter" PROVE fromBlock <= toBlock'
      BY <2>1
    <3>1. toBlock' = ClampTo(fromBlock, ConfirmedHead(head))
          /\ fromBlock <= ConfirmedHead(head)
      BY <1>3 DEF FetchHead, HasNewBlocks
    <3>2. ConfirmedHead(head) = head - Confirmations
      BY ConfirmedHeadExact DEF WatermarkInv, TypeOK
    <3>3. fromBlock \in Int /\ head \in Int /\ Confirmations \in Nat /\ MaxLogsBlocks \in Nat
      BY WatcherAssumption DEF WatermarkInv, TypeOK
    <3>4. QED
      BY <3>1, <3>2, <3>3 DEF ClampTo
  <2>3. pc' \in {"filter", "get"}
    BY <1>3 DEF FetchHead
  <2>4. QED
    BY <1>0, <2>1, <2>2, <2>3 DEF WatermarkInv, NoGap, Handled
<1>4. CASE FilterLogs
  <2>1. UNCHANGED <<store, fromBlock, toBlock, effects, base>> /\ pc = "filter"
    BY <1>4 DEF FilterLogs
  <2>2. pc' = "logs" => batch' = LogsIn(fromBlock, toBlock)
    BY <1>4 DEF FilterLogs
  <2>3. pc' \in {"logs", "get"}
    BY <1>4 DEF FilterLogs
  <2>4. QED
    BY <1>0, <2>1, <2>2, <2>3 DEF WatermarkInv, NoGap, Handled
<1>5. ASSUME NEW c \in Results, NEW d \in Results, HandleLogWith(c, d)
      PROVE WatermarkInv'
  <2> DEFINE o(i) == HandleLog(Logs[i], c, d, Validator /\ Logs[i].block >= targetBlock)
             rec(i) == [log |-> i, effect |-> o(i).effect, topic |-> o(i).topic, amount |-> o(i).amount]
  <2>1. PICK i \in batch :
          /\ effects' = effects \cup {rec(i)}
          /\ IF o(i).effect = "panic"
               THEN pc' = "down" /\ batch' = {}
               ELSE batch' = batch \ {i} /\ pc' = pc
    BY <1>5 DEF HandleLogWith
  <2>2. UNCHANGED <<store, fromBlock, toBlock, base>> /\ pc = "logs"
    BY <1>5 DEF HandleLogWith
  <2>3. effects \subseteq effects'
    BY <2>1
  <2>4. NoGap'
    BY <2>2, <2>3, HandledStays DEF WatermarkInv, NoGap
  <2>5. CASE o(i).effect = "panic"
    BY <1>0, <2>1, <2>2, <2>4, <2>5 DEF WatermarkInv
  <2>6. CASE o(i).effect # "panic"
    <3>1. batch' = batch \ {i} /\ pc' = "logs"
      BY <2>1, <2>2, <2>6
    <3>2. Handled(i)'
      <4>1. rec(i) \in effects'
        BY <2>1
      <4>2. rec(i).log = i /\ rec(i).effect # "panic"
        BY <2>6
      <4>3. QED  BY <4>1, <4>2 DEF Handled
    <3>3. \A j \in LogsIn(fromBlock, toBlock) \ batch' : Handled(j)'
      BY <3>1, <3>2, <2>2, <2>3, HandledStays DEF WatermarkInv
    <3>4. QED
      BY <1>0, <2>2, <2>4, <3>1, <3>3 DEF WatermarkInv
  <2>7. QED  BY <2>5, <2>6
<1>6. CASE UpdateWatermark
  <2>1. /\ pc = "logs" /\ batch = {} /\ pc' = "get"
        /\ UNCHANGED <<effects, base, toBlock>>
        /\ store' \in {store, NextFromBlock(toBlock)}
    BY <1>6 DEF UpdateWatermark
  <2>2. store # NoRow /\ fromBlock = store /\ fromBlock <= toBlock
    BY <2>1 DEF WatermarkInv
  <2>3. CASE store' = store
    BY <1>0, <2>1, <2>3 DEF WatermarkInv, NoGap, Handled
  <2>4. CASE store' = toBlock + 1
    <3> SUFFICES ASSUME NEW i \in LogIds, base <= Logs[i].block, Logs[i].block < toBlock + 1
                 PROVE  Handled(i)
      BY <1>0, <2>1, <2>4 DEF WatermarkInv, NoGap, Handled
    <3>1. Logs[i].block \in Nat /\ toBlock \in Int /\ fromBlock \in Int
      BY LogBlocks DEF WatermarkInv, TypeOK
    <3>2. CASE Logs[i].block < store
      BY <2>2, <3>2 DEF WatermarkInv, NoGap
    <3>3. CASE ~(Logs[i].block < store)
      <4>1. i \in LogsIn(fromBlock, toBlock)
        BY <2>2, <3>1, <3>3 DEF LogsIn
      <4>2. QED  BY <2>1, <4>1 DEF WatermarkInv
    <3>4. QED  BY <3>2, <3>3
  <2>5. QED  BY <2>1, <2>3, <2>4 DEF NextFromBlock
<1>7. CASE Crash
  BY <1>0, <1>7 DEF Crash, WatermarkInv, NoGap, Handled
<1>8. CASE AdvanceHead
  BY <1>0, <1>8 DEF AdvanceHead, WatermarkInv, NoGap, Handled
<1>9. CASE UNCHANGED vars
  BY <1>0, <1>9 DEF vars, WatermarkInv, NoGap, Handled, LogsIn
<1>10. QED
  BY <1>1, <1>2, <1>3, <1>4, <1>5, <1>6, <1>7, <1>8, <1>9 DEF Next, HandleNextLog

\* No gap: for every width, depth, chunk size, chain, start-block set and
\* bound on kills, every log of a block between the watermark the last
\* NewWatcher established and the stored watermark has been handled to its
\* end -- processLogs never lets the watermark pass an unhandled log.
THEOREM NoGapHolds == Spec => []NoGap
BY InitWatermarkInv, NextWatermarkInv, PTL DEF Spec, WatermarkInv

\* The step formula of WatermarkMonotone.
MonotoneStep ==
  store # NoRow /\ store' # NoRow /\ store' < store =>
    pc = "down" /\ store' \in StartBlocks \ {0}

LEMMA MonotoneStepHolds == WatermarkInv /\ [Next]_vars => [MonotoneStep]_vars
<1> SUFFICES ASSUME WatermarkInv, Next PROVE MonotoneStep
  BY DEF vars
<1>0. TypeOK /\ TypeOK'
  BY NextTypeOK DEF WatermarkInv
<1>1. ASSUME NEW sb \in StartBlocks, NewWatcher(sb) PROVE MonotoneStep
  <2>1. CASE sb # 0
    BY <1>1, <2>1 DEF NewWatcher, StartWatermark, MonotoneStep
  <2>2. CASE sb = 0 /\ store # NoRow
    BY <1>1, <2>2 DEF NewWatcher, StartWatermark, MonotoneStep
  <2>3. CASE sb = 0 /\ store = NoRow
    BY <2>3 DEF MonotoneStep
  <2>4. QED  BY <2>1, <2>2, <2>3
<1>2. CASE UpdateWatermark
  <2>1. store' \in {store, NextFromBlock(toBlock)} /\ pc = "logs"
    BY <1>2 DEF UpdateWatermark
  <2>2. store # NoRow /\ fromBlock = store /\ fromBlock <= toBlock
        /\ fromBlock \in Int /\ toBlock \in Int
    BY <2>1 DEF WatermarkInv, TypeOK
  <2>3. ~(store' < store)
    BY <2>1, <2>2 DEF NextFromBlock
  <2>4. QED  BY <2>3 DEF MonotoneStep
<1>3. CASE ~(\E sb \in StartBlocks : NewWatcher(sb)) /\ ~UpdateWatermark
  <2>1. store' = store
    BY <1>3 DEF Next, HandleNextLog, HandleLogWith, GetFromBlock, FetchHead, FilterLogs,
       Crash, AdvanceHead
  <2>2. QED
    BY <2>1, <1>0 DEF MonotoneStep, TypeOK
<1>4. QED  BY <1>1, <1>2, <1>3

\* The watermark never moves backwards: in every reachable behaviour, the
\* stored block of processLogs only grows, and NewWatcher lowers it only
\* when given an explicit startBlock.
THEOREM WatermarkMonotoneHolds == Spec => WatermarkMonotone
<1>1. Spec => [][MonotoneStep]_vars
  BY InitWatermarkInv, NextWatermarkInv, MonotoneStepHolds, PTL DEF Spec
<1>2. QED
  BY <1>1 DEF WatermarkMonotone, MonotoneStep

\* The mapped block of a log is its block.
LEMMA BlockOfLog ==
  ASSUME NEW i \in LogIds
  PROVE  [j \in LogIds |-> Logs[j].block][i] = Logs[i].block
OBVIOUS

LEMMA InitRefines == Init => WL!Init
BY DEF Init, WL!Init, HandledLogs, Handled

\* A step that leaves the stored row, the effects and base alone is a
\* stutter of WatermarkLog.
LEMMA StutterRefines ==
  ASSUME store' = store, effects' = effects, base' = base
  PROVE  UNCHANGED WL!vars
BY DEF WL!vars, HandledLogs, Handled

LEMMA NextRefines == WatermarkInv /\ [Next]_vars => [WL!Next]_WL!vars
<1> SUFFICES ASSUME WatermarkInv, [Next]_vars PROVE [WL!Next]_WL!vars
  OBVIOUS
<1>0. TypeOK /\ TypeOK'
  BY NextTypeOK DEF WatermarkInv
<1>1. ASSUME NEW sb \in StartBlocks, NewWatcher(sb) PROVE [WL!Next]_WL!vars
  <2>1. effects' = effects
    BY <1>1 DEF NewWatcher
  <2>2. CASE sb # 0 \/ store = NoRow
    <3>1. base' = store' /\ store' \in Int
      BY <1>1, <2>2, <1>0, StartWatermarkInt DEF NewWatcher
    <3>2. HandledLogs' = HandledLogs
      BY <2>1 DEF HandledLogs, Handled
    <3>3. WL!Reset
      BY <3>1, <3>2 DEF WL!Reset
    <3>4. QED  BY <3>3 DEF WL!Next
  <2>3. CASE ~(sb # 0 \/ store = NoRow)
    <3>1. store' = store /\ base' = base
      BY <1>1, <2>3 DEF NewWatcher, StartWatermark
    <3>2. QED  BY <2>1, <3>1, StutterRefines
  <2>4. QED  BY <2>2, <2>3
<1>2. CASE GetFromBlock \/ FetchHead \/ FilterLogs \/ Crash \/ AdvanceHead \/ UNCHANGED vars
  <2>1. store' = store /\ effects' = effects /\ base' = base
    BY <1>2 DEF GetFromBlock, FetchHead, FilterLogs, Crash, AdvanceHead, vars
  <2>2. QED  BY <2>1, StutterRefines
<1>3. ASSUME NEW c \in Results, NEW d \in Results, HandleLogWith(c, d)
      PROVE [WL!Next]_WL!vars
  <2> DEFINE o(i) == HandleLog(Logs[i], c, d, Validator /\ Logs[i].block >= targetBlock)
             rec(i) == [log |-> i, effect |-> o(i).effect, topic |-> o(i).topic, amount |-> o(i).amount]
  <2>1. PICK i \in batch : effects' = effects \cup {rec(i)}
    BY <1>3 DEF HandleLogWith
  <2>2. store' = store /\ base' = base /\ i \in LogIds
    BY <1>3, <1>0 DEF HandleLogWith, TypeOK
  <2>3. CASE o(i).effect = "panic"
    <3>1. \A j : Handled(j)' <=> Handled(j)
      BY <2>1, <2>3 DEF Handled
    <3>2. HandledLogs' = HandledLogs
      BY <3>1 DEF HandledLogs
    <3>3. QED  BY <2>2, <3>2 DEF WL!vars
  <2>4. CASE o(i).effect # "panic"
    <3>1. \A j : Handled(j)' <=> Handled(j) \/ j = i
      <4>1. rec(i).log = i /\ rec(i).effect # "panic"
        BY <2>4
      <4>2. \A e \in effects' : e \in effects \/ e = rec(i)
        BY <2>1
      <4>3. rec(i) \in effects' /\ effects \subseteq effects'
        BY <2>1
      <4>4. QED  BY <4>1, <4>2, <4>3, Zenon DEF Handled
    <3>2. HandledLogs' = HandledLogs \cup {i}
      BY <3>1, <2>2 DEF HandledLogs
    <3>3. WL!Handle
      BY <2>2, <3>2 DEF WL!Handle
    <3>4. QED  BY <3>3 DEF WL!Next
  <2>5. QED  BY <2>3, <2>4
<1>4. CASE UpdateWatermark
  <2>1. /\ pc = "logs" /\ batch = {}
        /\ effects' = effects /\ base' = base
        /\ store' \in {store, NextFromBlock(toBlock)}
    BY <1>4 DEF UpdateWatermark
  <2>2. store # NoRow /\ fromBlock = store /\ fromBlock <= toBlock
        /\ fromBlock \in Int /\ toBlock \in Int
    BY <2>1 DEF WatermarkInv, TypeOK
  <2>3. CASE store' = store
    BY <2>1, <2>3, StutterRefines
  <2>4. CASE store' = toBlock + 1
    <3>1. store' \in Int /\ store' > store
      BY <2>2, <2>4
    <3>2. \A i \in LogIds :
            store <= Logs[i].block /\ Logs[i].block < store' => i \in HandledLogs
      <4> SUFFICES ASSUME NEW i \in LogIds, store <= Logs[i].block, Logs[i].block < store'
                   PROVE  i \in HandledLogs
        OBVIOUS
      <4>1. i \in LogsIn(fromBlock, toBlock)
        BY <2>2, <2>4, LogBlocks DEF LogsIn
      <4>2. QED  BY <4>1, <2>1 DEF WatermarkInv, HandledLogs
    <3>3. HandledLogs' = HandledLogs
      BY <2>1 DEF HandledLogs, Handled
    <3>4. WL!Advance
      BY <2>1, <2>2, <3>1, <3>2, <3>3 DEF WL!Advance
    <3>5. QED  BY <3>4 DEF WL!Next
  <2>5. QED  BY <2>1, <2>3, <2>4 DEF NextFromBlock
<1>5. QED
  BY <1>1, <1>2, <1>3, <1>4 DEF Next, HandleNextLog

\* The watcher implements the watermark contract of WatermarkLog under the
\* mapping store -> wm, handled logs -> handled: every step of NewWatcher,
\* beginWatching and processLogs, a panic, a kill or a restart is a
\* handling, an advance over handled blocks, a reset by a start, or a
\* stutter of the contract.
THEOREM ImplementsWatermarkLogHolds == Spec => ImplementsWatermarkLog
BY InitRefines, InitWatermarkInv, NextWatermarkInv, NextRefines, PTL
   DEF Spec, ImplementsWatermarkLog, WL!Spec

=============================================================================
