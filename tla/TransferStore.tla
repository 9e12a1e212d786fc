--------------------------- MODULE TransferStore ---------------------------
(***************************************************************************)
(* The transfer Repository (src/app/persistence/transfer/transfer.go): one *)
(* database row per transaction id with four status columns, and the       *)
(* repository methods that read and write it.  Every method is one SQL     *)
(* statement, so one action.  A write to a missing row, and a write that   *)
(* fails with a database error, change nothing: both are stuttering steps  *)
(* and need no action of their own.                                        *)
(*                                                                         *)
(* Callers are the downstream services, which are not part of this code:   *)
(* any caller may call any method at any time.  Save writes back a Transfer *)
(* instance the caller holds; such an instance comes from a read or from   *)
(* Create, so each caller holds the last row it was handed (`held`).       *)
(***************************************************************************)
EXTENDS FiniteSets

CONSTANTS
  TxIds,     \* transaction ids
  Callers,   \* concurrent users of the repository
  NoRecord,  \* no row for this transaction id
  NoCopy     \* a caller holding no Transfer instance

\* The status constants of entity/transfer, column by column; Unset is the
\* zero value of a column no update has written.
Unset == ""
StatusValues ==
  {"Initial", "Recovered", "InProgress", "Completed", "Failed", "InsufficientFee"}
SignatureValues == {"SignatureSubmitted", "SignatureMined", "SignatureFailed"}
EthTxValues == {"EthTxSubmitted", "EthTxMined", "EthTxReverted"}
EthTxMsgValues == {"EthTxMsgSubmitted", "EthTxMsgMined", "EthTxMsgFailed"}

Rows ==
  [status: StatusValues, sig: SignatureValues \cup {Unset},
   ethTx: EthTxValues \cup {Unset}, ethTxMsg: EthTxMsgValues \cup {Unset}]

ASSUME StoreAssumption ==
  /\ IsFiniteSet(TxIds) /\ TxIds # {}
  /\ IsFiniteSet(Callers) /\ Callers # {}
  /\ NoRecord # NoCopy
  /\ NoRecord \notin Rows

VARIABLES
  rows,  \* rows[id]: the row of transaction id, or NoRecord
  held   \* held[c]: <<id, row>> the Transfer instance caller c holds, or NoCopy

storeVars == <<rows, held>>

StoreInit ==
  /\ rows = [id \in TxIds |-> NoRecord]
  /\ held = [c \in Callers |-> NoCopy]

(***************************************************************************)
(* Helpers of the repository.                                              *)
(***************************************************************************)
\* The Transfer create() builds: the given status, every other column unset.
NewRow(status) == [status |-> status, sig |-> Unset, ethTx |-> Unset, ethTxMsg |-> Unset]

\* create: dbClient.Create(tx), then tx is returned with the error.  The
\* INSERT fails on an existing primary key (and on any database error) and
\* writes nothing; the caller holds the instance built for it either way.
create(c, id, status) ==
  /\ held' = [held EXCEPT ![c] = <<id, NewRow(status)>>]
  /\ \/ rows[id] = NoRecord /\ rows' = [rows EXCEPT ![id] = NewRow(status)]
     \/ UNCHANGED rows

\* Model(...).Where("transaction_id = ?", id).Updates / UpdateColumn: the
\* row of id, when there is one, becomes new.
UpdateWhere(id, new) ==
  /\ rows[id] # NoRecord
  /\ rows' = [rows EXCEPT ![id] = new]
  /\ UNCHANGED held

\* isValidStatus: the loop over possibleStatuses.
isValidStatus(status, possibleStatuses) == status \in possibleStatuses

\* updateStatus: the sanity check on the target value, then the column.
updateStatus(id, status) ==
  /\ status \in {"Initial", "InsufficientFee", "InProgress", "Completed"}
  /\ UpdateWhere(id, [rows[id] EXCEPT !.status = status])

\* baseUpdateStatus: the allow-list check on the target value only, then
\* UpdateColumn(statusColumn, status).
baseUpdateStatus(statusColumn, id, status, possibleStatuses) ==
  /\ isValidStatus(status, possibleStatuses)
  /\ UpdateWhere(id, [rows[id] EXCEPT ![statusColumn] = status])

updateSignatureStatus(id, status) ==
  baseUpdateStatus("sig", id, status, SignatureValues)

updateEthereumTxMsgStatus(id, status) ==
  baseUpdateStatus("ethTxMsg", id, status, EthTxMsgValues)

\* Variant: the signature-submitted update writing its value into the
\* Status column instead of SignatureMsgStatus.
SignatureSubmittedRowSwapped(r) == [r EXCEPT !.status = "SignatureSubmitted"]

\* The two columns UpdateStatusSignatureSubmitted sets in one Updates.
SignatureSubmittedRow(r) == [r EXCEPT !.sig = "SignatureSubmitted", !.status = "InProgress"]

\* The queries' WHERE clauses.
InitialAndSignatureSubmitted ==
  {id \in TxIds : rows[id] # NoRecord /\ rows[id].status \in {"Initial", "SignatureSubmitted"}}
Unprocessed ==
  {id \in TxIds : rows[id] # NoRecord /\ rows[id].status \in {"Initial", "Recovered"}}

\* A read hands caller c the Transfer of one of the ids it returns.
ReadOne(c, ids) ==
  /\ \E id \in ids : held' = [held EXCEPT ![c] = <<id, rows[id]>>]
  /\ UNCHANGED rows

(***************************************************************************)
(* The repository methods.                                                 *)
(***************************************************************************)
Create(c, id) == create(c, id, "Initial")
SaveRecoveredTxn(c, id) == create(c, id, "Recovered")

\* Save: dbClient.Save(tx), an upsert of the whole instance.
Save(c) ==
  /\ held[c] # NoCopy
  /\ rows' = [rows EXCEPT ![held[c][1]] = held[c][2]]
  /\ UNCHANGED held

GetByTransactionId(c, id) == ReadOne(c, {i \in {id} : rows[i] # NoRecord})
\* GetWithMessages: Find does not fail on no rows, so a missing id hands
\* back an empty Transfer that names no row (modelled as NoCopy).
GetWithMessages(c, id) ==
  \/ ReadOne(c, {i \in {id} : rows[i] # NoRecord})
  \/ rows[id] = NoRecord /\ held' = [held EXCEPT ![c] = NoCopy] /\ UNCHANGED rows
GetInitialAndSignatureSubmittedTx(c) == ReadOne(c, InitialAndSignatureSubmitted)
GetUnprocessedTransfers(c) == ReadOne(c, Unprocessed)

UpdateStatusInsufficientFee(id) == updateStatus(id, "InsufficientFee")
UpdateStatusCompleted(id) == updateStatus(id, "Completed")
UpdateStatusSignatureSubmitted(id) == UpdateWhere(id, SignatureSubmittedRow(rows[id]))
UpdateStatusSignatureMined(id) == updateSignatureStatus(id, "SignatureMined")
UpdateStatusSignatureFailed(id) == updateSignatureStatus(id, "SignatureFailed")
UpdateEthTxSubmitted(id) == UpdateWhere(id, [rows[id] EXCEPT !.ethTx = "EthTxSubmitted"])
UpdateEthTxMined(id) ==
  UpdateWhere(id, [rows[id] EXCEPT !.ethTx = "EthTxMined", !.status = "Completed"])
UpdateEthTxReverted(id) ==
  UpdateWhere(id, [rows[id] EXCEPT !.ethTx = "EthTxReverted", !.status = "Failed"])
UpdateStatusEthTxMsgSubmitted(id) == updateEthereumTxMsgStatus(id, "EthTxMsgSubmitted")
UpdateStatusEthTxMsgMined(id) == updateEthereumTxMsgStatus(id, "EthTxMsgMined")
UpdateStatusEthTxMsgFailed(id) == updateEthereumTxMsgStatus(id, "EthTxMsgFailed")

\* Every call some caller can make.
StoreNext ==
  \/ \E c \in Callers, id \in TxIds :
       \/ Create(c, id) \/ SaveRecoveredTxn(c, id)
       \/ GetByTransactionId(c, id) \/ GetWithMessages(c, id)
  \/ \E c \in Callers :
       Save(c) \/ GetInitialAndSignatureSubmittedTx(c) \/ GetUnprocessedTransfers(c)
  \/ \E id \in TxIds :
       \/ UpdateStatusInsufficientFee(id) \/ UpdateStatusCompleted(id)
       \/ UpdateStatusSignatureSubmitted(id)
       \/ UpdateStatusSignatureMined(id) \/ UpdateStatusSignatureFailed(id)
       \/ UpdateEthTxSubmitted(id) \/ UpdateEthTxMined(id) \/ UpdateEthTxReverted(id)
       \/ UpdateStatusEthTxMsgSubmitted(id) \/ UpdateStatusEthTxMsgMined(id)
       \/ UpdateStatusEthTxMsgFailed(id)

StoreSpec == StoreInit /\ [][StoreNext]_storeVars

(***************************************************************************)
(* Properties.                                                             *)
(***************************************************************************)
StoreTypeOK ==
  /\ rows \in [TxIds -> Rows \cup {NoRecord}]
  /\ held \in [Callers -> (TxIds \X Rows) \cup {NoCopy}]

\* Tracks agree (UpdateEthTxMined, UpdateEthTxReverted and every other
\* status write): spec section 4.5 says the composite updates keep the
\* Ethereum-tx track and the overall Status from ever observably
\* disagreeing -- a mined tx means Completed, a reverted one Failed.
TracksAgree ==
  \A id \in TxIds :
    rows[id] # NoRecord =>
      /\ rows[id].ethTx = "EthTxMined" => rows[id].status = "Completed"
      /\ rows[id].ethTx = "EthTxReverted" => rows[id].status = "Failed"

\* Recovery query (GetInitialAndSignatureSubmittedTx): the method is named
\* for, and spec section 3 puts on the Status track, the transfers whose
\* signature has been submitted: every one of them is in its result.
RecoveryQueryComplete ==
  \A id \in TxIds :
    rows[id] # NoRecord /\ rows[id].sig = "SignatureSubmitted" =>
      id \in InitialAndSignatureSubmitted

=============================================================================
