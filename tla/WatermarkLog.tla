---------------------------- MODULE WatermarkLog ----------------------------
(***************************************************************************)
(* What a log watcher with a persisted watermark promises (spec section    *)
(* 4.1, "at least once"): items are handled, the watermark only moves past *)
(* blocks all of whose items have been handled, and a (re)start may set it *)
(* anywhere, starting a new at-least-once interval at that point.          *)
(*                                                                         *)
(* Nothing here says how items are fetched, in which order, how often, or *)
(* what a handler decides; a detailed watcher is shown to implement this  *)
(* specification under a refinement mapping.                               *)
(***************************************************************************)
EXTENDS Integers

CONSTANTS
  Items,    \* the items on the chain
  BlockOf,  \* BlockOf[i]: the block of item i
  NoRow     \* no watermark has been stored yet

VARIABLES
  wm,       \* the stored watermark: the next block to process, or NoRow
  handled,  \* the items whose handler has run to its end
  base      \* where the current at-least-once interval starts

vars == <<wm, handled, base>>

Init == wm = NoRow /\ handled = {} /\ base = 0

\* An item is handled (again, possibly).
Handle == \E i \in Items : handled' = handled \cup {i} /\ UNCHANGED <<wm, base>>

\* The watermark moves forward over blocks whose items are all handled.
Advance ==
  /\ wm # NoRow
  /\ wm' \in Int /\ wm' > wm
  /\ \A i \in Items : wm <= BlockOf[i] /\ BlockOf[i] < wm' => i \in handled
  /\ UNCHANGED <<handled, base>>

\* A start sets the watermark and opens a new interval there.
Reset == wm' \in Int /\ base' = wm' /\ UNCHANGED handled

Next == Handle \/ Advance \/ Reset

Spec == Init /\ [][Next]_vars

\* Every item of a block in [base, wm) has been handled.
Covered ==
  wm # NoRow => \A i \in Items : base <= BlockOf[i] /\ BlockOf[i] < wm => i \in handled

=============================================================================
