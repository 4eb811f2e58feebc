\* An access is ended with another text than ACCESS_END.
SPECIFICATION Spec
CONSTANTS
  Devices = {d1}
  Agents = {a1}
  NoOne = NoOne
  NoId = NoId
  Commands = {hello}
  NoCmd = NoCmd
  EndCmd = EndCmd
  MaxNonce = 36
  Issuers = {a1}
  Reporters = {}
  IssueTypes <- SelfTypes
  Scopes <- OnlyAll
  TokenKinds <- AnyToken
  FirstCmds <- OnlyCommands
  CmdInputs <- OnlyCommands
  MaxOrder = 2
  Fragile <- NoDevice
VIEW View
INVARIANTS
  EndReceiptOfEndedAccess
