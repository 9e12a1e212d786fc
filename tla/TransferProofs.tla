----------------------- MODULE TransferProofs ----------------------------
(***************************************************************************)
(* Proofs about the transfer repository and the handler composed with it:  *)
(* the repository's typing; that the handler, with any number of queue     *)
(* workers, is well typed and only calls repository methods (so it         *)
(* implements StoreSpec); and that, with any number of workers, deliveries *)
(* and database errors, a transfer row leaves Initial only after the       *)
(* transfer has been signed.                                               *)
(***************************************************************************)
EXTENDS TransferHandler, TLAPS

USE StoreAssumption, HandlerAssumption

\* create() builds a well-typed row.
LEMMA NewRowType ==
  ASSUME NEW s \in StatusValues
  PROVE  NewRow(s) \in Rows /\ NewRow(s).status = s
BY DEF NewRow, Rows, Unset, SignatureValues, EthTxValues, EthTxMsgValues

\* UpdateStatusSignatureSubmitted keeps a row well typed and moves its
\* Status to InProgress.
LEMMA SignatureSubmittedRowType ==
  ASSUME NEW r \in Rows
  PROVE  SignatureSubmittedRow(r) \in Rows /\ SignatureSubmittedRow(r).status = "InProgress"
BY DEF SignatureSubmittedRow, Rows, StatusValues, SignatureValues

(***************************************************************************)
(* The repository alone.                                                   *)
(***************************************************************************)
\* An UPDATE of an existing row that writes a well-typed row keeps the
\* store typed.
LEMMA UpdateWhereStep ==
  ASSUME StoreTypeOK, NEW id \in TxIds, NEW new \in Rows, UpdateWhere(id, new)
  PROVE  StoreTypeOK'
BY DEF UpdateWhere, StoreTypeOK

\* Every Update* method writes a well-typed row: it sets status columns to
\* constants of their own column.
LEMMA UpdatesStep ==
  ASSUME StoreTypeOK, NEW id \in TxIds,
         \/ UpdateStatusInsufficientFee(id) \/ UpdateStatusCompleted(id)
         \/ UpdateStatusSignatureSubmitted(id)
         \/ UpdateStatusSignatureMined(id) \/ UpdateStatusSignatureFailed(id)
         \/ UpdateEthTxSubmitted(id) \/ UpdateEthTxMined(id) \/ UpdateEthTxReverted(id)
         \/ UpdateStatusEthTxMsgSubmitted(id) \/ UpdateStatusEthTxMsgMined(id)
         \/ UpdateStatusEthTxMsgFailed(id)
  PROVE  StoreTypeOK'
<1>0. rows[id] # NoRecord => rows[id] \in Rows
  BY DEF StoreTypeOK
<1> DEFINE r == rows[id]
<1> HIDE DEF r
<1>1. CASE UpdateStatusInsufficientFee(id) \/ UpdateStatusCompleted(id)
  <2>1. PICK v \in {"InsufficientFee", "Completed"} : UpdateWhere(id, [r EXCEPT !.status = v])
    BY <1>1 DEF UpdateStatusInsufficientFee, UpdateStatusCompleted, updateStatus, r
  <2>2. r \in Rows
    BY <2>1, <1>0 DEF UpdateWhere, r
  <2>3. [r EXCEPT !.status = v] \in Rows
    BY <2>2 DEF Rows, StatusValues
  <2>4. QED  BY <2>1, <2>3, UpdateWhereStep
<1>2. CASE UpdateStatusSignatureSubmitted(id)
  <2>1. UpdateWhere(id, SignatureSubmittedRow(r))
    BY <1>2 DEF UpdateStatusSignatureSubmitted, r
  <2>2. r \in Rows
    BY <2>1, <1>0 DEF UpdateWhere, r
  <2>3. SignatureSubmittedRow(r) \in Rows
    BY <2>2, SignatureSubmittedRowType
  <2>4. QED  BY <2>1, <2>3, UpdateWhereStep
<1>3. CASE UpdateStatusSignatureMined(id) \/ UpdateStatusSignatureFailed(id)
  <2>1. PICK v \in SignatureValues : UpdateWhere(id, [r EXCEPT !.sig = v])
    BY <1>3 DEF UpdateStatusSignatureMined, UpdateStatusSignatureFailed,
                updateSignatureStatus, baseUpdateStatus, isValidStatus, SignatureValues, r
  <2>2. r \in Rows
    BY <2>1, <1>0 DEF UpdateWhere, r
  <2>3. [r EXCEPT !.sig = v] \in Rows
    BY <2>2 DEF Rows, SignatureValues, Unset
  <2>4. QED  BY <2>1, <2>3, UpdateWhereStep
<1>4. CASE UpdateEthTxSubmitted(id)
  <2>1. UpdateWhere(id, [r EXCEPT !.ethTx = "EthTxSubmitted"])
    BY <1>4 DEF UpdateEthTxSubmitted, r
  <2>2. r \in Rows
    BY <2>1, <1>0 DEF UpdateWhere, r
  <2>3. [r EXCEPT !.ethTx = "EthTxSubmitted"] \in Rows
    BY <2>2 DEF Rows, EthTxValues, Unset
  <2>4. QED  BY <2>1, <2>3, UpdateWhereStep
<1>5. CASE UpdateEthTxMined(id)
  <2>1. UpdateWhere(id, [r EXCEPT !.ethTx = "EthTxMined", !.status = "Completed"])
    BY <1>5 DEF UpdateEthTxMined, r
  <2>2. r \in Rows
    BY <2>1, <1>0 DEF UpdateWhere, r
  <2>3. [r EXCEPT !.ethTx = "EthTxMined", !.status = "Completed"]
          \in Rows
    BY <2>2 DEF Rows, EthTxValues, StatusValues, Unset
  <2>4. QED  BY <2>1, <2>3, UpdateWhereStep
<1>8. CASE UpdateEthTxReverted(id)
  <2>1. UpdateWhere(id, [r EXCEPT !.ethTx = "EthTxReverted", !.status = "Failed"])
    BY <1>8 DEF UpdateEthTxReverted, r
  <2>2. r \in Rows
    BY <2>1, <1>0 DEF UpdateWhere, r
  <2>3. [r EXCEPT !.ethTx = "EthTxReverted", !.status = "Failed"]
          \in Rows
    BY <2>2 DEF Rows, EthTxValues, StatusValues, Unset
  <2>4. QED  BY <2>1, <2>3, UpdateWhereStep
<1>6. CASE UpdateStatusEthTxMsgSubmitted(id) \/ UpdateStatusEthTxMsgMined(id)
           \/ UpdateStatusEthTxMsgFailed(id)
  <2>1. PICK v \in EthTxMsgValues : UpdateWhere(id, [r EXCEPT !.ethTxMsg = v])
    BY <1>6 DEF UpdateStatusEthTxMsgSubmitted, UpdateStatusEthTxMsgMined,
                UpdateStatusEthTxMsgFailed, updateEthereumTxMsgStatus, baseUpdateStatus,
                isValidStatus, EthTxMsgValues, r
  <2>2. r \in Rows
    BY <2>1, <1>0 DEF UpdateWhere, r
  <2>3. [r EXCEPT !.ethTxMsg = v] \in Rows
    BY <2>2 DEF Rows, EthTxMsgValues, Unset
  <2>4. QED  BY <2>1, <2>3, UpdateWhereStep
<1>7. QED  BY <1>1, <1>2, <1>3, <1>4, <1>5, <1>6, <1>8

\* Every repository call keeps the store typed.
LEMMA StoreStep ==
  ASSUME StoreTypeOK, [StoreNext]_storeVars
  PROVE  StoreTypeOK'
<1>1. CASE UNCHANGED storeVars
  BY <1>1 DEF storeVars, StoreTypeOK
<1>2. ASSUME NEW c \in Callers, NEW id \in TxIds, Create(c, id) \/ SaveRecoveredTxn(c, id)
      PROVE  StoreTypeOK'
  <2>1. PICK s \in {"Initial", "Recovered"} : create(c, id, s)
    BY <1>2 DEF Create, SaveRecoveredTxn
  <2>2. NewRow(s) \in Rows
    BY NewRowType DEF StatusValues
  <2>3. QED  BY <2>1, <2>2 DEF create, StoreTypeOK
<1>3. ASSUME NEW c \in Callers, NEW ids \in SUBSET {i \in TxIds : rows[i] # NoRecord},
             ReadOne(c, ids)
      PROVE  StoreTypeOK'
  <2>1. PICK id \in ids : held' = [held EXCEPT ![c] = <<id, rows[id]>>] /\ rows' = rows
    BY <1>3 DEF ReadOne
  <2>2. QED  BY <2>1 DEF StoreTypeOK
<1>4. ASSUME NEW c \in Callers, Save(c)  PROVE StoreTypeOK'
  BY <1>4 DEF Save, StoreTypeOK
<1>5. ASSUME NEW c \in Callers,
             \/ \E id \in TxIds : GetByTransactionId(c, id) \/ GetWithMessages(c, id)
             \/ GetInitialAndSignatureSubmittedTx(c) \/ GetUnprocessedTransfers(c)
      PROVE  StoreTypeOK'
  <2>1. CASE \E id \in TxIds : rows[id] = NoRecord /\ held' = [held EXCEPT ![c] = NoCopy]
                                /\ UNCHANGED rows
    BY <2>1 DEF StoreTypeOK
  <2>2. CASE ~\E id \in TxIds : rows[id] = NoRecord /\ held' = [held EXCEPT ![c] = NoCopy]
                                 /\ UNCHANGED rows
    BY <1>5, <2>2, <1>3 DEF GetByTransactionId, GetWithMessages,
                           GetInitialAndSignatureSubmittedTx,
                           GetUnprocessedTransfers, InitialAndSignatureSubmitted, Unprocessed
  <2>3. QED  BY <2>1, <2>2
<1>6. QED
  BY <1>1, <1>2, <1>4, <1>5, UpdatesStep DEF StoreNext

LEMMA StoreInitTypeOK == StoreInit => StoreTypeOK
BY DEF StoreInit, StoreTypeOK

\* Repository typing (every method): whatever the callers do, every row
\* holds one of each column's constants and every instance a caller holds
\* is a row of an existing transfer.
THEOREM StoreTypeCorrect == StoreSpec => []StoreTypeOK
<1>1. StoreTypeOK /\ [StoreNext]_storeVars => StoreTypeOK'
  BY StoreStep
<1>2. QED  BY <1>1, StoreInitTypeOK, PTL DEF StoreSpec

(***************************************************************************)
(* The handler with any number of workers: every step is a repository     *)
(* call or leaves the repository alone, so the composition implements the *)
(* repository's specification and is well typed.                          *)
(***************************************************************************)
\* The type invariant, with the fact the database calls need: a worker
\* inside Handle works on a transaction id.
HandlerTypeInv ==
  /\ HandlerTypeOK
  /\ \A w \in Workers : hpc[w] # "idle" => cur[w] \in TxIds

LEMMA InitHandlerTypeInv == Init => HandlerTypeInv
BY DEF Init, StoreInit, HandlerTypeInv, HandlerTypeOK, StoreTypeOK

\* Every handler step is a repository method call of StoreNext on the
\* worker's transaction id, or leaves the repository unchanged.
LEMMA StepIsStoreCall == HandlerTypeInv /\ [Next]_vars => [StoreNext]_storeVars
<1> SUFFICES ASSUME HandlerTypeInv, [Next]_vars PROVE [StoreNext]_storeVars
  OBVIOUS
<1>1. CASE UNCHANGED vars
  BY <1>1 DEF vars, storeVars
<1>2. ASSUME NEW w \in Workers,
             Receive(w) \/ CheckStatus(w) \/ VerifyFee(w) \/ ProcessTransfer(w)
      PROVE  [StoreNext]_storeVars
  BY <1>2 DEF Receive, CheckStatus, VerifyFee, ProcessTransfer, storeVars
<1>3. ASSUME NEW w \in Workers, InitiateGet(w) PROVE [StoreNext]_storeVars
  <2>1. w \in Callers /\ cur[w] \in TxIds
    BY <1>3 DEF InitiateGet, HandlerTypeInv
  <2>2. GetByTransactionId(w, cur[w]) \/ UNCHANGED storeVars
    BY <1>3 DEF InitiateGet, storeVars
  <2>3. QED  BY <2>1, <2>2 DEF StoreNext
<1>4. ASSUME NEW w \in Workers, InitiateCreate(w) PROVE [StoreNext]_storeVars
  <2>1. w \in Callers /\ cur[w] \in TxIds
    BY <1>4 DEF InitiateCreate, HandlerTypeInv
  <2>2. Create(w, cur[w]) \/ UNCHANGED storeVars
    BY <1>4 DEF InitiateCreate, storeVars
  <2>3. QED  BY <2>1, <2>2 DEF StoreNext
<1>5. ASSUME NEW w \in Workers, MarkSubmitted(w) PROVE [StoreNext]_storeVars
  <2>1. cur[w] \in TxIds
    BY <1>5 DEF MarkSubmitted, HandlerTypeInv
  <2>2. UpdateStatusSignatureSubmitted(cur[w]) \/ UNCHANGED storeVars
    BY <1>5 DEF MarkSubmitted, storeVars
  <2>3. QED  BY <2>1, <2>2 DEF StoreNext
<1>6. QED  BY <1>1, <1>2, <1>3, <1>4, <1>5 DEF Next

LEMMA NextHandlerTypeInv == HandlerTypeInv /\ [Next]_vars => HandlerTypeInv'
<1> SUFFICES ASSUME HandlerTypeInv, [Next]_vars PROVE HandlerTypeInv'
  OBVIOUS
<1>0. StoreTypeOK'
  BY StepIsStoreCall, StoreStep DEF HandlerTypeInv, HandlerTypeOK
<1>1. /\ queue \in [TxIds \cup {Garbage} -> Nat]
      /\ hpc \in [Workers -> {"idle", "initiate", "create", "check", "fee", "process", "mark"}]
      /\ cur \in [Workers -> TxIds \cup {NoTx}]
      /\ processed \in [TxIds -> Nat]
      /\ \A w \in Workers : hpc[w] # "idle" => cur[w] \in TxIds
  BY DEF HandlerTypeInv, HandlerTypeOK
<1>2. CASE UNCHANGED vars
  BY <1>0, <1>1, <1>2 DEF vars, HandlerTypeInv, HandlerTypeOK
<1>3. ASSUME NEW w \in Workers, Receive(w) PROVE HandlerTypeInv'
  BY <1>0, <1>1, <1>3 DEF Receive, Goto, HandlerTypeInv, HandlerTypeOK
<1>4. ASSUME NEW w \in Workers, InitiateGet(w) PROVE HandlerTypeInv'
  <2>1. CASE rows[cur[w]] # NoRecord
    BY <1>0, <1>1, <1>4 DEF InitiateGet, Goto, Return, HandlerTypeInv, HandlerTypeOK
  <2>2. CASE rows[cur[w]] = NoRecord
    BY <1>0, <1>1, <1>4, <2>2 DEF InitiateGet, Goto, Return, HandlerTypeInv, HandlerTypeOK
  <2>3. QED  BY <2>1, <2>2
<1>5. ASSUME NEW w \in Workers, InitiateCreate(w) PROVE HandlerTypeInv'
  BY <1>0, <1>1, <1>5 DEF InitiateCreate, Goto, Return, HandlerTypeInv, HandlerTypeOK
<1>6. ASSUME NEW w \in Workers, CheckStatus(w) PROVE HandlerTypeInv'
  BY <1>0, <1>1, <1>6 DEF CheckStatus, Goto, Return, HandlerTypeInv, HandlerTypeOK
<1>7. ASSUME NEW w \in Workers, VerifyFee(w) PROVE HandlerTypeInv'
  BY <1>0, <1>1, <1>7 DEF VerifyFee, Goto, Return, HandlerTypeInv, HandlerTypeOK
<1>8. ASSUME NEW w \in Workers, ProcessTransfer(w) PROVE HandlerTypeInv'
  <2>1. cur[w] \in TxIds
    BY <1>8, <1>1 DEF ProcessTransfer
  <2>2. processed' \in [TxIds -> Nat]
    BY <1>8, <1>1, <2>1 DEF ProcessTransfer, OnSignError, Return, Goto
  <2>3. \/ hpc' = [hpc EXCEPT ![w] = "mark"] /\ cur' = cur
        \/ hpc' = [hpc EXCEPT ![w] = "idle"] /\ cur' = [cur EXCEPT ![w] = NoTx]
    BY <1>8 DEF ProcessTransfer, OnSignError, Return, Goto
  <2>4. QED  BY <1>0, <1>1, <1>8, <2>2, <2>3 DEF ProcessTransfer, HandlerTypeInv, HandlerTypeOK
<1>10. ASSUME NEW w \in Workers, MarkSubmitted(w) PROVE HandlerTypeInv'
  BY <1>0, <1>1, <1>10 DEF MarkSubmitted, Return, Goto, HandlerTypeInv, HandlerTypeOK
<1>9. QED  BY <1>2, <1>3, <1>4, <1>5, <1>6, <1>7, <1>8, <1>10 DEF Next

\* Handler typing (Handle with any number of queue workers): every
\* variable of the composition keeps its type in every reachable state.
THEOREM HandlerTypeCorrect == Spec => []HandlerTypeOK
<1>1. HandlerTypeInv => HandlerTypeOK
  BY DEF HandlerTypeInv
<1>2. QED  BY <1>1, InitHandlerTypeInv, NextHandlerTypeInv, PTL DEF Spec

\* The handler implements the repository (Handle and the transfers-service
\* calls it makes, any number of workers): seen through rows and held,
\* every behaviour of the composition is a behaviour of StoreSpec, so the
\* repository's theorems hold inside it.
THEOREM HandlerImplementsStore == Spec => StoreSpec
<1>1. Init => StoreInit
  BY DEF Init
<1>2. QED
  BY <1>1, InitHandlerTypeInv, NextHandlerTypeInv, StepIsStoreCall, PTL DEF Spec, StoreSpec

(***************************************************************************)
(* Signed before skipped, for any number of workers.  The invariant needs  *)
(* one more fact: a worker between ProcessTransfer's two calls has signed  *)
(* its transfer, so the mark it is about to write is backed by a signing. *)
(***************************************************************************)
SignedInv ==
  /\ HandlerTypeInv
  /\ SignedBeforeSkipped
  /\ \A w \in Workers : hpc[w] = "mark" => processed[cur[w]] >= 1

\* A count that is a signing count or one more stays at least one.
LEMMA CountStaysSigned ==
  ASSUME NEW p \in Nat, NEW t, t \in {p, p + 1}, p >= 1 \/ t = p + 1
  PROVE  t >= 1
OBVIOUS

LEMMA InitSignedInv == Init => SignedInv
BY InitHandlerTypeInv DEF Init, StoreInit, SignedInv, SignedBeforeSkipped

\* A step that leaves rows and processed alone and moves no worker to
\* "mark" keeps both halves of the invariant.
LEMMA QuietStep ==
  ASSUME SignedInv, NEW w \in Workers,
         rows' = rows, processed' = processed,
         hpc' = [hpc EXCEPT ![w] = hpc'[w]], hpc'[w] # "mark",
         \A v \in Workers \ {w} : cur'[v] = cur[v]
  PROVE  SignedBeforeSkipped' /\ \A v \in Workers : hpc'[v] = "mark" => processed'[cur'[v]] >= 1
<1>1. SignedBeforeSkipped'
  BY DEF SignedInv, SignedBeforeSkipped
<1>2. ASSUME NEW v \in Workers, hpc'[v] = "mark" PROVE processed'[cur'[v]] >= 1
  <2>1. v # w /\ hpc[v] = "mark"
    BY <1>2 DEF SignedInv, HandlerTypeInv, HandlerTypeOK
  <2>2. QED  BY <2>1 DEF SignedInv
<1>3. QED  BY <1>1, <1>2

LEMMA NextSignedInv == SignedInv /\ [Next]_vars => SignedInv'
<1> SUFFICES ASSUME SignedInv, [Next]_vars PROVE SignedInv'
  OBVIOUS
<1>0. HandlerTypeInv'
  BY NextHandlerTypeInv DEF SignedInv
<1>1. /\ rows \in [TxIds -> Rows \cup {NoRecord}]
      /\ hpc \in [Workers -> {"idle", "initiate", "create", "check", "fee", "process", "mark"}]
      /\ cur \in [Workers -> TxIds \cup {NoTx}]
      /\ processed \in [TxIds -> Nat]
      /\ \A w \in Workers : hpc[w] # "idle" => cur[w] \in TxIds
  BY DEF SignedInv, HandlerTypeInv, HandlerTypeOK, StoreTypeOK
<1>2. CASE UNCHANGED vars
  BY <1>0, <1>2 DEF vars, SignedInv, SignedBeforeSkipped
<1>3. ASSUME NEW w \in Workers, Receive(w) \/ CheckStatus(w) \/ VerifyFee(w) PROVE SignedInv'
  <2>1. /\ rows' = rows /\ processed' = processed
        /\ hpc' = [hpc EXCEPT ![w] = hpc'[w]] /\ hpc'[w] # "mark"
        /\ \A v \in Workers \ {w} : cur'[v] = cur[v]
    BY <1>1, <1>3 DEF Receive, CheckStatus, VerifyFee, Goto, Return
  <2>2. QED  BY <1>0, <2>1, QuietStep DEF SignedInv
<1>4. ASSUME NEW w \in Workers, InitiateGet(w) PROVE SignedInv'
  <2>1. /\ rows' = rows /\ processed' = processed
        /\ hpc' = [hpc EXCEPT ![w] = hpc'[w]] /\ hpc'[w] # "mark"
        /\ \A v \in Workers \ {w} : cur'[v] = cur[v]
    BY <1>1, <1>4 DEF InitiateGet, GetByTransactionId, ReadOne, Goto, Return
  <2>2. QED  BY <1>0, <2>1, QuietStep DEF SignedInv
<1>5. ASSUME NEW w \in Workers, InitiateCreate(w) PROVE SignedInv'
  <2>1. /\ processed' = processed
        /\ hpc' = [hpc EXCEPT ![w] = hpc'[w]] /\ hpc'[w] # "mark"
        /\ \A v \in Workers \ {w} : cur'[v] = cur[v]
    BY <1>1, <1>5 DEF InitiateCreate, Goto, Return
  <2>2. \/ rows' = rows
        \/ cur[w] \in TxIds /\ rows' = [rows EXCEPT ![cur[w]] = NewRow("Initial")]
    BY <1>1, <1>5 DEF InitiateCreate, Create, create, Return
  <2>3. SignedBeforeSkipped'
    <3>1. CASE rows' = rows
      BY <2>1, <3>1 DEF SignedInv, SignedBeforeSkipped
    <3>2. CASE cur[w] \in TxIds /\ rows' = [rows EXCEPT ![cur[w]] = NewRow("Initial")]
      <4>1. NewRow("Initial").status = "Initial"
        BY NewRowType DEF StatusValues
      <4>2. QED  BY <1>1, <2>1, <3>2, <4>1 DEF SignedInv, SignedBeforeSkipped
    <3>3. QED  BY <2>2, <3>1, <3>2
  <2>4. ASSUME NEW v \in Workers, hpc'[v] = "mark" PROVE processed'[cur'[v]] >= 1
    <3>1. v # w /\ hpc[v] = "mark"
      BY <1>1, <2>1, <2>4
    <3>2. QED  BY <2>1, <3>1 DEF SignedInv
  <2>5. QED  BY <1>0, <2>3, <2>4 DEF SignedInv
<1>6. ASSUME NEW w \in Workers, ProcessTransfer(w) PROVE SignedInv'
  <2>0. cur[w] \in TxIds /\ hpc[w] = "process" /\ rows' = rows
    BY <1>1, <1>6 DEF ProcessTransfer
  <2>1. CASE /\ processed' = [processed EXCEPT ![cur[w]] = @ + 1]
             /\ hpc' = [hpc EXCEPT ![w] = "mark"] /\ cur' = cur
    <3>1. \A id \in TxIds : processed'[id] \in {processed[id], processed[id] + 1}
      BY <1>1, <2>0, <2>1
    <3>2. processed'[cur[w]] = processed[cur[w]] + 1
      BY <1>1, <2>0, <2>1
    <3>3. SignedBeforeSkipped'
      <4> SUFFICES ASSUME NEW id \in TxIds, rows'[id] # NoRecord, rows'[id].status # "Initial"
                   PROVE  processed'[id] >= 1
        BY DEF SignedBeforeSkipped
      <4>1. processed[id] >= 1 /\ processed[id] \in Nat
        BY <1>1, <2>0 DEF SignedInv, SignedBeforeSkipped
      <4>2. QED  BY <4>1, <3>1, CountStaysSigned
    <3>4. ASSUME NEW v \in Workers, hpc'[v] = "mark" PROVE processed'[cur'[v]] >= 1
      <4>1. CASE v = w
        <5>1. processed[cur[w]] \in Nat
          BY <1>1, <2>0
        <5>2. QED  BY <2>1, <3>2, <4>1, <5>1, CountStaysSigned
      <4>2. CASE v # w
        <5>1. hpc[v] = "mark" /\ cur'[v] = cur[v] /\ cur[v] \in TxIds
          BY <1>1, <2>1, <3>4, <4>2
        <5>2. processed[cur[v]] >= 1 /\ processed[cur[v]] \in Nat
          BY <5>1, <1>1 DEF SignedInv
        <5>3. QED  BY <5>1, <5>2, <3>1, CountStaysSigned
      <4>3. QED  BY <4>1, <4>2
    <3>5. QED  BY <1>0, <3>3, <3>4 DEF SignedInv
  <2>2. CASE ~(/\ processed' = [processed EXCEPT ![cur[w]] = @ + 1]
               /\ hpc' = [hpc EXCEPT ![w] = "mark"] /\ cur' = cur)
    <3>1. /\ processed' = processed
          /\ hpc' = [hpc EXCEPT ![w] = hpc'[w]] /\ hpc'[w] # "mark"
          /\ \A v \in Workers \ {w} : cur'[v] = cur[v]
      BY <1>1, <1>6, <2>2 DEF ProcessTransfer, OnSignError, Return, Goto
    <3>2. QED  BY <1>0, <2>0, <3>1, QuietStep DEF SignedInv
  <2>3. QED  BY <2>1, <2>2
<1>7. ASSUME NEW w \in Workers, MarkSubmitted(w) PROVE SignedInv'
  <2>0. /\ cur[w] \in TxIds /\ hpc[w] = "mark" /\ processed' = processed
        /\ hpc' = [hpc EXCEPT ![w] = "idle"]
        /\ \A v \in Workers \ {w} : cur'[v] = cur[v]
    BY <1>1, <1>7 DEF MarkSubmitted, Return, Goto
  <2>1. processed[cur[w]] >= 1
    BY <2>0 DEF SignedInv
  <2>2. \/ rows' = rows
        \/ rows' = [rows EXCEPT ![cur[w]] = SignatureSubmittedRow(rows[cur[w]])]
    BY <1>7 DEF MarkSubmitted, UpdateStatusSignatureSubmitted, UpdateWhere
  <2>3. SignedBeforeSkipped'
    BY <1>1, <2>0, <2>1, <2>2 DEF SignedInv, SignedBeforeSkipped
  <2>4. ASSUME NEW v \in Workers, hpc'[v] = "mark" PROVE processed'[cur'[v]] >= 1
    <3>1. v # w /\ hpc[v] = "mark"
      BY <1>1, <2>0, <2>4
    <3>2. QED  BY <2>0, <3>1 DEF SignedInv
  <2>5. QED  BY <1>0, <2>3, <2>4 DEF SignedInv
<1>8. QED  BY <1>2, <1>3, <1>4, <1>5, <1>6, <1>7 DEF Next

\* Signed before skipped (Handle's status check and ProcessTransfer's two
\* calls), with any number of queue workers, any deliveries and any
\* database errors: a transfer row leaves Initial only after the transfer
\* has been signed, so the status check never skips an unsigned transfer.
THEOREM SignedBeforeSkippedHolds == Spec => []SignedBeforeSkipped
<1>1. SignedInv => SignedBeforeSkipped
  BY DEF SignedInv
<1>2. QED  BY <1>1, InitSignedInv, NextSignedInv, PTL DEF Spec

=============================================================================
