----------------------------- MODULE MCWatcher -----------------------------
(***************************************************************************)
(* Instances of Watcher for TLC: one router on ThisChain bridging to       *)
(* Hedera and to a third EVM chain, four tokens and a handful of logs.     *)
(*   tA  native on ThisChain, wrapped as hA on Hedera                      *)
(*   wB  wrapped on ThisChain, its native asset hB lives on Hedera         *)
(***************************************************************************)
EXTENDS Watcher

MCChains == {"evm", "hedera", "other"}
MCTokens == {"tA", "hA", "wB", "hB"}

MCNativeToWrapped ==
  [p \in MCTokens \X MCChains |-> IF p = <<"tA", "hedera">> THEN "hA" ELSE NoAsset]

MCWrappedToNative ==
  [t \in MCTokens |-> IF t = "wB" THEN [asset |-> "hB", chain |-> "hedera"] ELSE NoAsset]

MCMinAmount == [t \in MCTokens |-> IF t = "tA" THEN 2 ELSE 1]

\* 18-decimal ERC-20 versus 8-decimal HTS, scaled down: divide by 2.
MCDecimalsDiv == [t \in MCTokens |-> 2]

MCAmounts == 0 .. 4

\* A log with the fields that do not matter for its kind filled in.
L(k, b, tok, tgt, amt, fee) ==
  [kind |-> k, block |-> b, removed |-> FALSE, parsable |-> TRUE,
   receiver |-> "account", target |-> tgt, token |-> tok, amount |-> amt, fee |-> fee]

\* The chain of the safety runs: a Lock and a Burn to Hedera, a member
\* update, a Mint, a removed Lock and a Lock that does not decode.
SafetyLogs ==
  << L("Lock", 1, "tA", "hedera", 4, 0),
     L("Burn", 2, "wB", "hedera", 2, 0),
     L("MemberUpdated", 2, "tA", "hedera", 0, 0),
     [L("Lock", 3, "tA", "hedera", 4, 1) EXCEPT !.removed = TRUE],
     L("Mint", 3, "tA", "other", 1, 0),
     [L("Burn", 4, "wB", "hedera", 2, 0) EXCEPT !.parsable = FALSE] >>

\* The chain of the progress runs: every log decodes.
ProgressLogs ==
  << L("Lock", 1, "tA", "hedera", 4, 0),
     L("Burn", 2, "wB", "hedera", 2, 0),
     L("Mint", 3, "tA", "other", 1, 0) >>

\* A chain with one Burn, for the lost-event run.
BurnLogs == << L("Burn", 1, "wB", "hedera", 2, 0) >>

\* The Lock of spec section 8 scaled down: amount 4, fee 1, minimum 2,
\* bridged to Hedera (decimals divided by 2).
FeeLockLogs == << L("Lock", 1, "tA", "hedera", 4, 1) >>

\* A chain with one Lock, for the Lock ChainID run.
LockLogs == << L("Lock", 1, "tA", "hedera", 4, 0) >>
=============================================================================
