-------------------------- MODULE TransferHandler --------------------------
(***************************************************************************)
(* The transfer message Handler (src/unnamed/part_000, Handle) composed   *)
(* with the transfer Repository.  Queue workers take delivered payloads,   *)
(* possibly the same transfer several times (the watcher re-pushes a range *)
(* after a failed watermark update or a kill), and run Handle on each.     *)
(*                                                                         *)
(* The transfers service is not in this repository.  Its three calls are   *)
(* modelled from spec section 4 and the repository methods they use:       *)
(* InitiateNewTransfer reads the row and creates it when missing (two      *)
(* statements), VerifyFee is a check that may fail, and ProcessTransfer   *)
(* signs the transfer (submits the signature message) and then marks its  *)
(* row with UpdateStatusSignatureSubmitted: two calls, the second of which *)
(* may fail after the first has succeeded.                                 *)
(***************************************************************************)
EXTENDS TransferStore, Naturals

CONSTANTS
  Workers,       \* goroutines running Handle concurrently
  Garbage,       \* a payload NewTransferMessageFromBytes rejects
  Deliveries,    \* Deliveries[m]: how often payload m is delivered
  ExecuteEth,    \* ExecuteEth[id]: the message's ExecuteEthTransaction flag
  DbFaults,      \* may a database call fail?
  NoTx           \* a worker not handling a transfer

ASSUME HandlerAssumption ==
  /\ Workers = Callers
  /\ Garbage \notin TxIds /\ NoTx \notin TxIds
  /\ Deliveries \in [TxIds \cup {Garbage} -> Nat]
  /\ ExecuteEth \in [TxIds -> BOOLEAN]
  /\ DbFaults \in BOOLEAN

Results == IF DbFaults THEN BOOLEAN ELSE {TRUE}

VARIABLES
  queue,      \* queue[m]: deliveries of payload m still waiting
  hpc,        \* hpc[w]: where worker w is in Handle
  cur,        \* cur[w]: the transaction id of the message w handles
  processed   \* processed[id]: successful ProcessTransfer calls (history)

vars == <<rows, held, queue, hpc, cur, processed>>

Init ==
  /\ StoreInit
  /\ queue = Deliveries
  /\ hpc = [w \in Workers |-> "idle"]
  /\ cur = [w \in Workers |-> NoTx]
  /\ processed = [id \in TxIds |-> 0]

Goto(w, at) == hpc' = [hpc EXCEPT ![w] = at]

\* Handle returns: the worker takes the next delivery.
Return(w) ==
  /\ Goto(w, "idle")
  /\ cur' = [cur EXCEPT ![w] = NoTx]

\* A delivery starts Handle; NewTransferMessageFromBytes fails on Garbage
\* and Handle returns at once.
Receive(w) ==
  /\ hpc[w] = "idle"
  /\ \E m \in DOMAIN queue :
       /\ queue[m] > 0
       /\ queue' = [queue EXCEPT ![m] = @ - 1]
       /\ IF m = Garbage
            THEN UNCHANGED <<hpc, cur>>
            ELSE Goto(w, "initiate") /\ cur' = [cur EXCEPT ![w] = m]
  /\ UNCHANGED <<rows, held, processed>>

\* InitiateNewTransfer, first statement: GetByTransactionId.  A found row
\* is returned; no row goes on to the create; an error returns from Handle.
InitiateGet(w) ==
  /\ hpc[w] = "initiate"
  /\ \E ok \in Results :
       IF ok /\ rows[cur[w]] # NoRecord
         THEN GetByTransactionId(w, cur[w]) /\ Goto(w, "check") /\ UNCHANGED cur
       ELSE IF ok
         THEN Goto(w, "create") /\ UNCHANGED <<rows, held, cur>>
         ELSE Return(w) /\ UNCHANGED <<rows, held>>
  /\ UNCHANGED <<queue, processed>>

\* InitiateNewTransfer, second statement: Create.  A row created meanwhile
\* (duplicate key) or a database error is an error: Handle returns.
InitiateCreate(w) ==
  /\ hpc[w] = "create"
  /\ \E ok \in Results :
       IF ok /\ rows[cur[w]] = NoRecord
         THEN Create(w, cur[w]) /\ rows'[cur[w]] # NoRecord
              /\ Goto(w, "check") /\ UNCHANGED cur
         ELSE Return(w) /\ UNCHANGED <<rows, held>>
  /\ UNCHANGED <<queue, processed>>

\* Variant: the status check dropped.
SkipNever(r) == FALSE

\* transactionRecord.Status != transfer.StatusInitial: already handled.
Skip(r) == r.status # "Initial"

\* The status check, then the fee check when the message executes an
\* Ethereum transaction.
CheckStatus(w) ==
  /\ hpc[w] = "check"
  /\ IF Skip(held[w][2])
       THEN Return(w)
       ELSE Goto(w, IF ExecuteEth[cur[w]] THEN "fee" ELSE "process") /\ UNCHANGED cur
  /\ UNCHANGED <<rows, held, queue, processed>>

\* VerifyFee: a failed check returns from Handle.
VerifyFee(w) ==
  /\ hpc[w] = "fee"
  /\ \E ok \in BOOLEAN :
       IF ok THEN Goto(w, "process") /\ UNCHANGED cur ELSE Return(w)
  /\ UNCHANGED <<rows, held, queue, processed>>

\* Variant: the signing error logged and ignored, the row marked anyway.
OnSignErrorIgnored(w) == Goto(w, "mark") /\ UNCHANGED cur

\* A failed signing: the error is returned and Handle logs it and returns.
OnSignError(w) == Return(w)

\* ProcessTransfer, first call: sign the transfer and submit the signature
\* message (a network call, which may fail whatever the database does).
ProcessTransfer(w) ==
  /\ hpc[w] = "process"
  /\ \E ok \in BOOLEAN :
       IF ok
         THEN /\ processed' = [processed EXCEPT ![cur[w]] = @ + 1]
              /\ Goto(w, "mark") /\ UNCHANGED cur
         ELSE OnSignError(w) /\ UNCHANGED processed
  /\ UNCHANGED <<rows, held, queue>>

\* ProcessTransfer, second call: UpdateStatusSignatureSubmitted.  A database
\* error leaves the row in Initial although the transfer is signed; either
\* way the call returns and so does Handle.
MarkSubmitted(w) ==
  /\ hpc[w] = "mark"
  /\ \E ok \in Results :
       IF ok THEN UpdateStatusSignatureSubmitted(cur[w]) ELSE UNCHANGED <<rows, held>>
  /\ Return(w)
  /\ UNCHANGED <<queue, processed>>

Next ==
  \E w \in Workers :
    \/ Receive(w) \/ InitiateGet(w) \/ InitiateCreate(w)
    \/ CheckStatus(w) \/ VerifyFee(w) \/ ProcessTransfer(w) \/ MarkSubmitted(w)

Spec == Init /\ [][Next]_vars

HandlerTypeOK ==
  /\ StoreTypeOK
  /\ queue \in [TxIds \cup {Garbage} -> Nat]
  /\ hpc \in [Workers -> {"idle", "initiate", "create", "check", "fee", "process", "mark"}]
  /\ cur \in [Workers -> TxIds \cup {NoTx}]
  /\ processed \in [TxIds -> Nat]

\* Signed before skipped (Handle's status check and ProcessTransfer's two
\* calls): a transfer whose row has left Initial has been signed.  Every
\* later delivery of it stops at the status check, so a row that left
\* Initial unsigned would never be signed by any validator run.
SignedBeforeSkipped ==
  \A id \in TxIds : rows[id] # NoRecord /\ rows[id].status # "Initial" => processed[id] >= 1

\* Idempotent on transaction id (Handle's status check after
\* InitiateNewTransfer): spec section 4.1 requires the consumers of the
\* watcher's at-least-once pushes to be idempotent on the transaction id;
\* however often a transfer is delivered, it is signed at most once.
AtMostOnceProcessed == \A id \in TxIds : processed[id] <= 1

=============================================================================
