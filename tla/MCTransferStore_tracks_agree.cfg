\* A status write after the Ethereum tx is mined splits the two tracks.
CONSTANTS
  TxIds <- MCTxIds
  Callers <- MCCallers
  NoRecord = NoRecord
  NoCopy = NoCopy
SPECIFICATION StoreSpec
INVARIANTS TracksAgree
