\* Safety of the poll loop: store and RPC errors, ChainID and RemoveDecimals
\* errors, a log that does not decode, kills, restarts with and without an
\* explicit startBlock (6 lies above every confirmed head), a fresh chain.
CONSTANTS
  Chains <- MCChains
  ThisChain = "evm"
  HederaChain = "hedera"
  Tokens <- MCTokens
  NoAsset = NoAsset
  NativeToWrappedMap <- MCNativeToWrapped
  WrappedToNativeMap <- MCWrappedToNative
  MinAmount <- MCMinAmount
  DecimalsDiv <- MCDecimalsDiv
  Width = 4
  Confirmations = 1
  MaxLogsBlocks = 1
  Logs <- SafetyLogs
  Amounts <- MCAmounts
  Validator = TRUE
  StartBlocks = {0, 2, 6}
  InitHeads = {0, 3}
  MaxHead = 5
  MaxCrashes = 1
  TransientFaults = TRUE
  NoRow = NoRow
SPECIFICATION Spec
INVARIANTS TypeOK NoGap ConfirmedOnly
PROPERTIES WatermarkMonotone ImplementsWatermarkLog
