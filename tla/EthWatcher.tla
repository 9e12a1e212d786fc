----------------------------- MODULE EthWatcher -----------------------------
(***************************************************************************)
(* The Ethereum Burn-event watcher (src/app/process/watcher/ethereum/     *)
(* ethereum.go): Watch starts listenForEvents, which subscribes to the     *)
(* bridge's Burn logs and then loops on a select over the subscription's   *)
(* Err channel and the events channel, passing each event to handleLog.    *)
(*                                                                         *)
(* The subscription is the go-ethereum one: while live it forwards the     *)
(* Burn logs of the chain; when it fails it sends its error on Err, stops  *)
(* forwarding and closes Err, so a receive on Err is then always ready.    *)
(***************************************************************************)
EXTENDS Naturals

CONSTANTS
  SubscribeFaults,  \* may WatchBurnEventLogs return an error?
  MaxDrops,         \* bound on subscription failures
  MaxBurns          \* bound on Burn events on the chain

VARIABLES
  pc,       \* "stopped", "subscribing", "select" or "panicked"
  sub,      \* "none", "nil" (subscribe failed), "live" or "dead"
  pending,  \* Burn logs the live subscription has yet to hand over
  burns,    \* Burn events emitted since the subscription call (history)
  handled,  \* events handleLog has run on (history)
  drops,    \* subscription failures so far
  errSent   \* the failed subscription's error is still to be received

vars == <<pc, sub, pending, burns, handled, drops, errSent>>

Init ==
  /\ pc = "stopped" /\ sub = "none"
  /\ pending = 0 /\ burns = 0 /\ handled = 0 /\ drops = 0
  /\ errSent = FALSE

\* Watch: go ew.listenForEvents(queue).
Watch ==
  /\ pc = "stopped"
  /\ pc' = "subscribing"
  /\ UNCHANGED <<sub, pending, burns, handled, drops, errSent>>

\* WatchBurnEventLogs: on an error the error is logged and the loop is
\* entered anyway, where select evaluates sub.Err() on the nil
\* subscription and panics.
Subscribe ==
  /\ pc = "subscribing"
  /\ \E ok \in IF SubscribeFaults THEN BOOLEAN ELSE {TRUE} :
       /\ sub' = IF ok THEN "live" ELSE "nil"
       /\ pc' = IF ok THEN "select" ELSE "panicked"
  /\ UNCHANGED <<pending, burns, handled, drops, errSent>>

\* After the error case the for loop selects again.
AfterErr == "select"

\* case err := <-sub.Err(): log it and loop again.  The failed subscription
\* sends its error once and closes Err, so the case stays ready for ever
\* (receiving nil).
ReceiveErr ==
  /\ pc = "select" /\ sub = "dead"
  /\ errSent' = FALSE
  /\ pc' = AfterErr
  /\ UNCHANGED <<sub, pending, burns, handled, drops>>

\* After a case the for loop selects again.
AfterEvent == "select"

\* case eventLog := <-events: handleLog only logs the event.
ReceiveEvent ==
  /\ pc = "select" /\ sub = "live" /\ pending > 0
  /\ pending' = pending - 1
  /\ handled' = handled + 1
  /\ pc' = AfterEvent
  /\ UNCHANGED <<sub, burns, drops, errSent>>

\* The chain emits a Burn; only a live subscription forwards it.  Burns
\* before the subscription call are not the watcher's to see.
Burn ==
  /\ sub # "none" /\ burns < MaxBurns
  /\ burns' = burns + 1
  /\ pending' = IF sub = "live" THEN pending + 1 ELSE pending
  /\ UNCHANGED <<pc, sub, handled, drops, errSent>>

\* The node connection fails: the subscription sends its error, drops what
\* it had not handed over and is dead.
Drop ==
  /\ sub = "live" /\ drops < MaxDrops
  /\ sub' = "dead" /\ pending' = 0
  /\ drops' = drops + 1 /\ errSent' = TRUE
  /\ UNCHANGED <<pc, burns, handled>>

Next == Watch \/ Subscribe \/ ReceiveErr \/ ReceiveEvent \/ Burn \/ Drop

Spec == Init /\ [][Next]_vars

TypeOK ==
  /\ pc \in {"stopped", "subscribing", "select", "panicked"}
  /\ sub \in {"none", "nil", "live", "dead"}
  /\ pending \in 0 .. MaxBurns /\ burns \in 0 .. MaxBurns
  /\ handled \in 0 .. MaxBurns /\ drops \in 0 .. MaxDrops
  /\ errSent \in BOOLEAN

\* No panic (listenForEvents): neither a failing WatchBurnEventLogs nor a
\* subscription that fails later crashes the process; the loop logs the
\* error and goes on.
NoPanic == pc # "panicked"

=============================================================================
