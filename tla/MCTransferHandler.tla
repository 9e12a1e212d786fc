------------------------- MODULE MCTransferHandler -------------------------
(***************************************************************************)
(* TransferHandler for TLC: two transfers, the first delivered three times *)
(* and executing an Ethereum transaction, the second twice, and one       *)
(* payload that does not decode.                                          *)
(***************************************************************************)
EXTENDS TransferHandler

MCTxIds == {"tx1", "tx2"}
MCDeliveries == [m \in MCTxIds \cup {"junk"} |->
                   IF m = "tx1" THEN 3 ELSE IF m = "tx2" THEN 2 ELSE 1]
MCExecuteEth == [id \in MCTxIds |-> id = "tx1"]

=============================================================================
