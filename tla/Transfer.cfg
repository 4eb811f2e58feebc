\* Two agents hand one device back and forth.
SPECIFICATION Spec
CONSTANTS
  Devices = {d1}
  Agents = {a1, a2}
  NoOne = NoOne
  NoId = NoId
  Commands = {hello}
  NoCmd = NoCmd
  EndCmd = EndCmd
  MaxNonce = 36
  Issuers = {a1, a2}
  Reporters = {a1, a2}
  IssueTypes <- OwnershipTypes
  Scopes <- OnlyAll
  TokenKinds <- AnyToken
  FirstCmds <- OnlyEnd
  CmdInputs <- OnlyEnd
  MaxOrder = 3
  Fragile <- NoDevice
SYMMETRY AgentSymmetry
INVARIANTS
  TypeOK
  LatestReceipt
PROPERTIES
  LedgerSpec
  IssuerForgetsOnlyExecuted
  OrderLostForever
