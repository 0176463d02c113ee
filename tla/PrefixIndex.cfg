\* PrefixIndex
CONSTANTS
  TokenSet <- MCTokens
  MaxTokens = 2
  DataSet <- MCData
  BlockSize = 1
  BytesPerTokenFlags <- MCBytesPerToken
  MaxUsable = 3
  MaxStores = 2
  MaxRestarts = 1
  NONE = NONE
SPECIFICATION Spec
INVARIANT LookupAsSpecified
INVARIANT UsableBytesAsSpecified
INVARIANT LoadReturnsUsablePrefix
