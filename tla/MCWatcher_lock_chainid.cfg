\* A Lock log while ChainID() may fail.
CONSTANTS
  Chains <- MCChains
  ThisChain = "evm"
  HederaChain = "hedera"
  Tokens <- MCTokens
  NoAsset = NoAsset
  NativeToWrappedMap <- MCNativeToWrapped
  WrappedToNativeMap <- MCWrappedToNative
  MinAmount <- MCMinAmount
  DecimalsDiv <- MCDecimalsDiv
  Width = 4
  Confirmations = 1
  MaxLogsBlocks = 1
  Amounts <- MCAmounts
  Validator = TRUE
  TransientFaults = TRUE
  MaxHead = 5
  NoRow = NoRow
  Logs <- LockLogs
  StartBlocks = {0}
  InitHeads = {1}
  MaxCrashes = 0
SPECIFICATION Spec
INVARIANTS NoPanic
