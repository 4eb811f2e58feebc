\* Ownership and access tickets reach a device that is in a session.
SPECIFICATION Spec
CONSTANTS
  Devices = {d1}
  Agents = {a1, a2}
  NoOne = NoOne
  NoId = NoId
  Commands = {hello}
  NoCmd = NoCmd
  EndCmd = EndCmd
  MaxNonce = 36
  Issuers = {a1}
  Reporters = {}
  IssueTypes <- SelfOwnTypes
  Scopes <- OnlyAll
  TokenKinds <- AnyToken
  FirstCmds <- OnlyEnd
  CmdInputs <- OnlyEnd
  MaxOrder = 2
  Fragile <- NoDevice
VIEW View
PROPERTIES
  StrandedForever
  LedgerSpec
