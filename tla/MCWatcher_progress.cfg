\* Progress on a chain that already has Confirmations blocks when the
\* watcher is deployed: store and RPC errors, kills and restarts.
CONSTANTS
  Chains <- MCChains
  ThisChain = "evm"
  HederaChain = "hedera"
  Tokens <- MCTokens
  NoAsset = NoAsset
  NativeToWrappedMap <- MCNativeToWrapped
  WrappedToNativeMap <- MCWrappedToNative
  MinAmount <- MCMinAmount
  DecimalsDiv <- MCDecimalsDiv
  Width = 4
  Confirmations = 1
  MaxLogsBlocks = 1
  Amounts <- MCAmounts
  Validator = TRUE
  TransientFaults = TRUE
  MaxHead = 5
  NoRow = NoRow
  Logs <- ProgressLogs
  StartBlocks = {0}
  InitHeads = {1}
  MaxCrashes = 1
SPECIFICATION Spec
PROPERTIES Progress
