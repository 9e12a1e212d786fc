\* A Lock whose fee and decimals take it below the minimum.
CONSTANTS
  Chains <- MCChains
  ThisChain = "evm"
  HederaChain = "hedera"
  Tokens <- MCTokens
  NoAsset = NoAsset
  NativeToWrappedMap <- MCNativeToWrapped
  WrappedToNativeMap <- MCWrappedToNative
  MinAmount <- MCMinAmount
  DecimalsDiv <- MCDecimalsDiv
  Width = 4
  Confirmations = 1
  MaxLogsBlocks = 1
  Amounts <- MCAmounts
  Validator = TRUE
  TransientFaults = FALSE
  MaxHead = 5
  NoRow = NoRow
  Logs <- FeeLockLogs
  StartBlocks = {0}
  InitHeads = {1}
  MaxCrashes = 0
SPECIFICATION Spec
INVARIANTS PushedAmountAtLeastMin
