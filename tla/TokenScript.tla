----------------------------- MODULE TokenScript -----------------------------
(***************************************************************************)
(* The wrapped-token creation script (the main of                         *)
(* src/app/persistence/transfer/transfer.go, lines 258-379): it checks the *)
(* flags, parses the admin key, the members' private keys and the supply  *)
(* keys, builds a threshold key list and creates the token.  A failure    *)
(* anywhere is a panic.                                                    *)
(*                                                                         *)
(* A flag holding a list is what strings.Split(s, ",") makes of it: a     *)
(* non-empty sequence of pieces, the empty flag giving <<"">>.  A piece is *)
(* "" , a private key "prv" or a public key "pub"; PrivateKeyFromString    *)
(* accepts "prv" only and PublicKeyFromString "pub" only.                  *)
(***************************************************************************)
EXTENDS Naturals, Sequences

CONSTANTS
  MaxThreshold,  \* the largest -threshold value tried
  MaxPieces      \* the longest comma-separated list tried

Pieces == {"", "prv", "pub"}

\* What strings.Split can return for a flag, up to MaxPieces pieces.
Splits == UNION {[1 .. n -> Pieces] : n \in 1 .. MaxPieces}

\* Every command line the script can be given: defaults and bad values.
Flags ==
  [privateKey: {"0x0", "prv"}, accountID: {"0.0", "acct"},
   bridgeID: {"0.0", "acct", "garbage"}, adminKey: {"", "pub", "prv"},
   threshold: 0 .. MaxThreshold, supplyKeys: Splits, memberPrKeys: Splits,
   generate: BOOLEAN]

NoToken == [keys |-> <<>>, threshold |-> 0]

VARIABLES
  flags,      \* the parsed command line
  pc,         \* the statement main is at, "done" or "panicked"
  i,          \* the index of the member-key loop
  custodian,  \* custodianKey: the members' parsed private keys
  supplyKey,  \* the KeyListWithThreshold built: [threshold, keys]
  token       \* the token created, or NoToken

vars == <<flags, pc, i, custodian, supplyKey, token>>

Init ==
  /\ flags \in Flags
  /\ pc = "flags" /\ i = 1
  /\ custodian = <<>> /\ supplyKey = NoToken /\ token = NoToken

Panic == pc' = "panicked" /\ UNCHANGED <<flags, i, custodian, supplyKey, token>>

\* The four checks against the flag defaults, in source order.
CheckFlags ==
  /\ pc = "flags"
  /\ IF \/ flags.privateKey = "0x0" \/ flags.accountID = "0.0"
        \/ flags.bridgeID = "0.0" \/ flags.adminKey = ""
       THEN Panic
       ELSE pc' = "admin" /\ UNCHANGED <<flags, i, custodian, supplyKey, token>>

\* client.Init, the split of memberPrKeys, PublicKeyFromString(adminKey).
ParseAdmin ==
  /\ pc = "admin"
  /\ IF flags.adminKey # "pub"
       THEN Panic
       ELSE pc' = "members" /\ UNCHANGED <<flags, i, custodian, supplyKey, token>>

\* The loop condition i < len(membersSlice) no longer holds.
MembersDone(n, members) == n > Len(members)

\* One iteration of the member-key loop: PrivateKeyFromString, append.
ParseMember ==
  /\ pc = "members" /\ ~MembersDone(i, flags.memberPrKeys)
  /\ IF flags.memberPrKeys[i] # "prv"
       THEN Panic
       ELSE /\ custodian' = Append(custodian, flags.memberPrKeys[i])
            /\ i' = i + 1
            /\ UNCHANGED <<flags, pc, supplyKey, token>>

\* The member-key loop ends.
MembersParsed ==
  /\ pc = "members" /\ MembersDone(i, flags.memberPrKeys)
  /\ pc' = "supply"
  /\ UNCHANGED <<flags, i, custodian, supplyKey, token>>

\* KeyListWithThreshold(threshold), then either the custodians' public
\* keys, or every piece of supplyKeys parsed with PublicKeyFromString.
BuildSupplyKey ==
  /\ pc = "supply"
  /\ IF flags.generate
       THEN /\ supplyKey' = [threshold |-> flags.threshold,
                             keys |-> [k \in DOMAIN custodian |-> "pub"]]
            /\ pc' = "bridge"
            /\ UNCHANGED <<flags, i, custodian, token>>
     ELSE IF \E k \in DOMAIN flags.supplyKeys : flags.supplyKeys[k] # "pub"
       THEN Panic
       ELSE /\ supplyKey' = [threshold |-> flags.threshold, keys |-> flags.supplyKeys]
            /\ pc' = "bridge"
            /\ UNCHANGED <<flags, i, custodian, token>>

\* AccountIDFromString(bridgeID), then WrappedFungibleToken, which fails
\* when the network rejects the transaction.
CreateToken ==
  /\ pc = "bridge"
  /\ IF flags.bridgeID # "acct"
       THEN Panic
       ELSE \E ok \in BOOLEAN :
              IF ok
                THEN /\ token' = supplyKey
                     /\ pc' = "done"
                     /\ UNCHANGED <<flags, i, custodian, supplyKey>>
                ELSE Panic

Next ==
  \/ CheckFlags \/ ParseAdmin \/ ParseMember \/ MembersParsed
  \/ BuildSupplyKey \/ CreateToken

Spec == Init /\ [][Next]_vars

TypeOK ==
  /\ flags \in Flags
  /\ pc \in {"flags", "admin", "members", "supply", "bridge", "done", "panicked"}
  /\ i \in 1 .. MaxPieces + 1
  /\ custodian \in Seq(Pieces) /\ Len(custodian) <= MaxPieces
  /\ supplyKey.threshold \in 0 .. MaxThreshold /\ token.threshold \in 0 .. MaxThreshold

\* Keys complete (the member-key loop and the supply-key build): a created
\* token is signed by every member key given, and its supply key list has
\* one key per member when generated, else one per supplyKeys piece.
KeysComplete ==
  pc = "done" =>
    /\ Len(custodian) = Len(flags.memberPrKeys)
    /\ Len(token.keys) =
         IF flags.generate THEN Len(flags.memberPrKeys) ELSE Len(flags.supplyKeys)

=============================================================================
