\* The recovery query filters the Status column on SignatureSubmitted.
CONSTANTS
  TxIds <- MCTxIds
  Callers <- MCCallers
  NoRecord = NoRecord
  NoCopy = NoCopy
SPECIFICATION StoreSpec
INVARIANTS RecoveryQueryComplete
