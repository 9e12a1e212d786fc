------------------------- MODULE TokenScriptProofs -------------------------
(***************************************************************************)
(* Proof that the token script's member-key loop and supply-key build are *)
(* complete: for every command line, a created token carries every member *)
(* key and one supply key per member or per supplyKeys piece.             *)
(***************************************************************************)
EXTENDS TokenScript, TLAPS

\* The loop invariant of main: before the loop nothing is parsed; in the
\* loop the first i - 1 members are; after it all of them are; the supply
\* key list has its final length once built, and the token is that list.
ScriptInv ==
  /\ flags \in Flags
  /\ i \in Nat \ {0}
  /\ custodian \in Seq(Pieces)
  /\ supplyKey.keys \in Seq(Pieces)
  /\ pc \in {"flags", "admin"} => Len(custodian) = 0 /\ i = 1
  /\ pc = "members" => Len(custodian) = i - 1 /\ i - 1 <= Len(flags.memberPrKeys)
  /\ pc \in {"supply", "bridge", "done"} => Len(custodian) = Len(flags.memberPrKeys)
  /\ pc \in {"bridge", "done"} =>
       Len(supplyKey.keys) =
         IF flags.generate THEN Len(flags.memberPrKeys) ELSE Len(flags.supplyKeys)
  /\ pc = "done" => token = supplyKey

\* Every list flag is a sequence of pieces.
LEMMA SplitsAreSeqs ==
  ASSUME MaxPieces \in Nat
  PROVE  Splits \subseteq Seq(Pieces)
BY DEF Splits

LEMMA InitScriptInv == Init => ScriptInv
BY DEF Init, ScriptInv, NoToken

LEMMA NextScriptInv ==
  ASSUME MaxPieces \in Nat
  PROVE  ScriptInv /\ [Next]_vars => ScriptInv'
<1> SUFFICES ASSUME ScriptInv, [Next]_vars PROVE ScriptInv'
  OBVIOUS
<1>0. /\ flags.memberPrKeys \in Seq(Pieces)
      /\ flags.supplyKeys \in Seq(Pieces)
      /\ flags.generate \in BOOLEAN
  BY SplitsAreSeqs DEF ScriptInv, Flags
<1>1. CASE UNCHANGED vars
  BY <1>1 DEF vars, ScriptInv
<1>2. CASE CheckFlags
  BY <1>2 DEF CheckFlags, Panic, ScriptInv
<1>3. CASE ParseAdmin
  <2>1. CASE flags.adminKey # "pub"
    BY <1>3, <2>1 DEF ParseAdmin, Panic, ScriptInv
  <2>2. CASE flags.adminKey = "pub"
    BY <1>3, <2>2 DEF ParseAdmin, ScriptInv
  <2>3. QED  BY <2>1, <2>2
<1>4. CASE ParseMember
  <2>1. i <= Len(flags.memberPrKeys)
    BY <1>4, <1>0 DEF ParseMember, MembersDone, ScriptInv
  <2>2. flags.memberPrKeys[i] \in Pieces
    BY <2>1, <1>0 DEF ScriptInv
  <2>3. CASE flags.memberPrKeys[i] # "prv"
    BY <1>4, <2>3 DEF ParseMember, Panic, ScriptInv
  <2>4. CASE flags.memberPrKeys[i] = "prv"
    <3>1. /\ custodian' = Append(custodian, flags.memberPrKeys[i])
          /\ i' = i + 1
          /\ UNCHANGED <<flags, pc, supplyKey, token>>
      BY <1>4, <2>4 DEF ParseMember
    <3>2. Append(custodian, flags.memberPrKeys[i]) \in Seq(Pieces)
          /\ Len(Append(custodian, flags.memberPrKeys[i])) = Len(custodian) + 1
      BY <2>2 DEF ScriptInv
    <3>3. pc = "members" /\ Len(custodian) = i - 1
      BY <1>4 DEF ParseMember, ScriptInv
    <3>4. QED  BY <3>1, <3>2, <3>3, <2>1 DEF ScriptInv
  <2>5. QED  BY <2>3, <2>4
<1>5. CASE MembersParsed
  BY <1>5, <1>0 DEF MembersParsed, MembersDone, ScriptInv
<1>6. CASE BuildSupplyKey
  <2>1. CASE flags.generate
    <3>1. DOMAIN custodian = 1 .. Len(custodian)
      BY DEF ScriptInv
    <3>2. [k \in DOMAIN custodian |-> "pub"] \in Seq(Pieces)
          /\ Len([k \in DOMAIN custodian |-> "pub"]) = Len(custodian)
      <4> DEFINE n == Len(custodian)
      <4>1. n \in Nat
        BY DEF ScriptInv
      <4>2. [k \in DOMAIN custodian |-> "pub"] = [k \in 1 .. n |-> "pub"]
        BY <3>1
      <4>3. [k \in 1 .. n |-> "pub"] \in [1 .. n -> Pieces]
        BY DEF Pieces
      <4>4. [k \in 1 .. n |-> "pub"] \in Seq(Pieces)
        BY <4>1, <4>3
      <4>5. Len([k \in 1 .. n |-> "pub"]) = n
        BY <4>1, <4>4
      <4>6. QED  BY <4>2, <4>4, <4>5
    <3>3. /\ supplyKey' = [threshold |-> flags.threshold,
                           keys |-> [k \in DOMAIN custodian |-> "pub"]]
          /\ pc' = "bridge"
          /\ UNCHANGED <<flags, i, custodian, token>>
      BY <1>6, <2>1 DEF BuildSupplyKey
    <3>4. pc = "supply"
      BY <1>6 DEF BuildSupplyKey
    <3>5. QED  BY <3>2, <3>3, <3>4, <2>1 DEF ScriptInv
  <2>2. CASE ~flags.generate
    BY <1>6, <2>2, <1>0 DEF BuildSupplyKey, Panic, ScriptInv
  <2>3. QED  BY <2>1, <2>2, <1>0
<1>7. CASE CreateToken
  BY <1>7 DEF CreateToken, Panic, ScriptInv
<1>8. QED
  BY <1>1, <1>2, <1>3, <1>4, <1>5, <1>6, <1>7 DEF Next

\* Keys complete (the member-key loop and the supply-key build of main):
\* for every command line, a token the script creates is signed by every
\* member key given, and its supply key list has one key per member when
\* generated, else one per supplyKeys piece.
THEOREM KeysCompleteHolds ==
  ASSUME MaxPieces \in Nat
  PROVE  Spec => []KeysComplete
<1>1. ScriptInv => KeysComplete
  BY DEF ScriptInv, KeysComplete
<1>2. QED
  BY <1>1, InitScriptInv, NextScriptInv, PTL DEF Spec

=============================================================================
