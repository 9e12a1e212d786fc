----------------------------- MODULE Classifier -----------------------------
(***************************************************************************)
(* The per-log handlers of the EVM router watcher (src/unnamed/part_001):  *)
(* handleLockLog, handleBurnLog, handleMintLog, handleUnlockLog and the    *)
(* MemberUpdated branch of processLogs.  Each is a pure operator from a    *)
(* decoded log, the answers of the collaborators it calls (ChainID,        *)
(* RemoveDecimals) and the live/backlog decision to the effect the handler *)
(* has: a queue push (topic and amount), a metric update, a detached       *)
(* member reload, a drop, or a nil-pointer panic.                          *)
(*                                                                         *)
(* Data is abstracted: receiver bytes are "empty", "account" (bytes that   *)
(* parse as a Hedera account) or "garbage"; tokens are model values; the   *)
(* asset registry is a pair of constant maps.                              *)
(***************************************************************************)
EXTENDS Integers

CONSTANTS
  Chains,             \* chain ids the registry knows
  ThisChain,          \* the id the EVM client's ChainID() returns
  HederaChain,        \* constants.HederaNetworkId
  Tokens,             \* token addresses / asset ids
  NoAsset,            \* "" or nil returned by a registry lookup
  NativeToWrappedMap, \* [Tokens \X Chains -> Tokens \cup {NoAsset}]
  WrappedToNativeMap, \* [Tokens -> [asset: Tokens, chain: Chains] \cup {NoAsset}]
  MinAmount,          \* [Tokens -> Nat], MinAmount of a native asset
  DecimalsDiv         \* [Tokens -> Nat \ {0}], the divisor RemoveDecimals applies

ASSUME ClassifierAssumption ==
  /\ ThisChain \in Chains /\ HederaChain \in Chains /\ ThisChain # HederaChain
  /\ NoAsset \notin Tokens
  /\ NativeToWrappedMap \in [Tokens \X Chains -> Tokens \cup {NoAsset}]
  /\ WrappedToNativeMap \in [Tokens -> [asset: Tokens, chain: Chains] \cup {NoAsset}]
  /\ MinAmount \in [Tokens -> Nat]
  /\ DecimalsDiv \in [Tokens -> Nat \ {0}]

Kinds == {"Lock", "Burn", "Mint", "Unlock", "MemberUpdated"}
Receivers == {"empty", "account", "garbage"}

\* A decoded router log: its topic kind, block, Raw.Removed, whether the
\* abigen Parse*Log call succeeds, and the event's fields.
LogRecord(Amounts) ==
  [kind: Kinds, block: Nat, removed: BOOLEAN, parsable: BOOLEAN,
   receiver: Receivers, target: Chains, token: Tokens,
   amount: Amounts, fee: Amounts]

\* Queue topics (constants.go), split into signing and read-only ones.
SigningTopics ==
  {"HederaMintHtsTransfer", "HederaFeeTransfer", "TopicMessageSubmission"}
ReadOnlyTopics ==
  {"ReadOnlyHederaMintHtsTransfer", "ReadOnlyHederaTransfer", "ReadOnlyTransferSave"}
NoTopic == "none"
Topics == SigningTopics \cup ReadOnlyTopics

\* What a handler does with one log.  "none": ignored (removed log);
\* "drop": rejected and logged; "lost": dropped because a collaborator call
\* returned an error; "panic": nil dereference, the process dies.
EffectKinds == {"none", "drop", "lost", "panic", "push", "metric", "reload"}

Effect(k) == [effect |-> k, topic |-> NoTopic, amount |-> 0]
Pushed(t, a) == [effect |-> "push", topic |-> t, amount |-> a]

\* hedera.AccountIDFromBytes only matters when the target is Hedera;
\* common.BytesToAddress never fails.
BadReceiver(l) == l.target = HederaChain /\ l.receiver = "garbage"

\* properAmount before the zero check: RemoveDecimals when the target is
\* Hedera (integer division by the token's decimals factor).
Adjusted(a, token, target) ==
  IF target = HederaChain THEN a \div DecimalsDiv[token] ELSE a

\* Lock: live -> HederaMintHtsTransfer / TopicMessageSubmission,
\* backlog -> ReadOnlyHederaMintHtsTransfer / ReadOnlyTransferSave.
LockTopic(target, live) ==
  IF live THEN IF target = HederaChain THEN "HederaMintHtsTransfer" ELSE "TopicMessageSubmission"
          ELSE IF target = HederaChain THEN "ReadOnlyHederaMintHtsTransfer" ELSE "ReadOnlyTransferSave"

\* Burn: live -> HederaFeeTransfer / TopicMessageSubmission,
\* backlog -> ReadOnlyHederaTransfer / ReadOnlyTransferSave.
BurnTopic(target, live) ==
  IF live THEN IF target = HederaChain THEN "HederaFeeTransfer" ELSE "TopicMessageSubmission"
          ELSE IF target = HederaChain THEN "ReadOnlyHederaTransfer" ELSE "ReadOnlyTransferSave"

\* handleLockLog.  The minimum is checked on the event amount, before the
\* service fee is subtracted and before decimals are removed; a failed
\* ChainID() leaves chain nil and chain.Int64() panics.
HandleLockLog(l, chainOk, decOk, live) ==
  LET proper == Adjusted(l.amount - l.fee, l.token, l.target) IN
  CASE l.removed                                          -> Effect("none")
    [] l.receiver = "empty"                               -> Effect("drop")
    [] ~chainOk                                           -> Effect("panic")
    [] BadReceiver(l)                                     -> Effect("drop")
    [] NativeToWrappedMap[l.token, l.target] = NoAsset    -> Effect("drop")
    [] l.amount < MinAmount[l.token]                      -> Effect("drop")
    [] l.target = HederaChain /\ ~decOk                   -> Effect("lost")
    [] proper = 0                                         -> Effect("drop")
    [] OTHER -> Pushed(LockTopic(l.target, live), proper)

\* handleBurnLog.  A failed ChainID() drops the event; the minimum is
\* checked on the decimals-adjusted amount.
HandleBurnLog(l, chainOk, decOk, live) ==
  LET native == WrappedToNativeMap[l.token]
      proper == Adjusted(l.amount, l.token, l.target)
  IN
  CASE l.removed                                          -> Effect("none")
    [] l.receiver = "empty"                               -> Effect("drop")
    [] ~chainOk                                           -> Effect("lost")
    [] native = NoAsset                                   -> Effect("drop")
    [] l.target # native.chain                            -> Effect("drop")
    [] BadReceiver(l)                                     -> Effect("drop")
    [] l.target = HederaChain /\ ~decOk                   -> Effect("lost")
    [] proper = 0                                         -> Effect("drop")
    [] proper < MinAmount[native.asset]                   -> Effect("drop")
    [] OTHER -> Pushed(BurnTopic(l.target, live), proper)

\* handleMintLog and handleUnlockLog: completion metrics only.
HandleMintOrUnlockLog(l, chainOk) ==
  CASE l.removed -> Effect("none")
    [] ~chainOk  -> Effect("lost")
    [] OTHER     -> Effect("metric")

\* The topic dispatch of processLogs: a Parse*Log error is followed by
\* lock.Raw.TxHash on the nil result, which panics; MemberUpdated is not
\* parsed and starts `go ReloadMembers()` whatever its Removed flag.
HandleLog(l, chainOk, decOk, live) ==
  CASE l.kind = "MemberUpdated" -> Effect("reload")
    [] ~l.parsable              -> Effect("panic")
    [] l.kind = "Lock"          -> HandleLockLog(l, chainOk, decOk, live)
    [] l.kind = "Burn"          -> HandleBurnLog(l, chainOk, decOk, live)
    [] OTHER                    -> HandleMintOrUnlockLog(l, chainOk)

=============================================================================
