\* One queue worker; the signature-submitted update may fail after signing.
CONSTANTS
  Workers = {w1}
  Callers = {w1}
CONSTANTS
  TxIds <- MCTxIds
  Garbage = "junk"
  Deliveries <- MCDeliveries
  ExecuteEth <- MCExecuteEth
  DbFaults = TRUE
  NoRecord = NoRecord
  NoCopy = NoCopy
  NoTx = NoTx
SPECIFICATION Spec
CHECK_DEADLOCK FALSE
INVARIANTS AtMostOnceProcessed
