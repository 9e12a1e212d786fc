\* Two queue workers, duplicate deliveries, database errors on every call.
CONSTANTS
  Workers = {w1, w2}
  Callers = {w1, w2}
CONSTANTS
  TxIds <- MCTxIds
  Garbage = "junk"
  Deliveries <- MCDeliveries
  ExecuteEth <- MCExecuteEth
  DbFaults = TRUE
  NoRecord = NoRecord
  NoCopy = NoCopy
  NoTx = NoTx
SPECIFICATION Spec
\* The handler blocks on an empty queue once every delivery is handled.
CHECK_DEADLOCK FALSE
INVARIANTS HandlerTypeOK 
