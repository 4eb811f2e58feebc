\* An owner and her device: every session, every text.
SPECIFICATION Spec
CONSTANTS
  Devices = {d1}
  Agents = {a1}
  NoOne = NoOne
  NoId = NoId
  Commands = {hello}
  NoCmd = NoCmd
  EndCmd = EndCmd
  MaxNonce = 36
  Issuers = {a1}
  Reporters = {}
  IssueTypes <- SelfTypes
  Scopes <- AllOrNarrow
  TokenKinds <- AnyToken
  FirstCmds <- AnyText
  CmdInputs <- AnyText
  MaxOrder = 3
  Fragile <- NoDevice
VIEW View
INVARIANTS
  OrderBound
  DataIsAuthorised
