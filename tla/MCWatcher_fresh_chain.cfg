\* Progress when the watcher is deployed on a chain whose head is still
\* below Confirmations (a fresh network): the uint64 subtraction in
\* NewWatcher wraps.
CONSTANTS
  Chains <- MCChains
  ThisChain = "evm"
  HederaChain = "hedera"
  Tokens <- MCTokens
  NoAsset = NoAsset
  NativeToWrappedMap <- MCNativeToWrapped
  WrappedToNativeMap <- MCWrappedToNative
  MinAmount <- MCMinAmount
  DecimalsDiv <- MCDecimalsDiv
  Width = 4
  Confirmations = 1
  MaxLogsBlocks = 1
  Amounts <- MCAmounts
  Validator = TRUE
  TransientFaults = TRUE
  MaxHead = 5
  NoRow = NoRow
  Logs <- ProgressLogs
  StartBlocks = {0}
  InitHeads = {0}
  MaxCrashes = 0
SPECIFICATION Spec
PROPERTIES Progress
