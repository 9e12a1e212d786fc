--------------------------- MODULE MCTransferStore ---------------------------
(***************************************************************************)
(* TransferStore for TLC: one transfer and one caller already reach every *)
(* combination of the four status columns.                                *)
(***************************************************************************)
EXTENDS TransferStore

MCTxIds == {"tx1"}
MCCallers == {"svc"}

=============================================================================
