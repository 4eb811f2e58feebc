\* An initialisation ticket is applied twice.
SPECIFICATION Spec
CONSTANTS
  Devices = {d1}
  Agents = {a1}
  NoOne = NoOne
  NoId = NoId
  Commands = {hello}
  NoCmd = NoCmd
  EndCmd = EndCmd
  MaxNonce = 36
  Issuers = {a1}
  Reporters = {}
  IssueTypes <- SelfTypes
  Scopes <- OnlyAll
  TokenKinds <- NoToken
  FirstCmds <- OnlyEnd
  CmdInputs <- OnlyEnd
  MaxOrder = 2
  Fragile <- NoDevice
VIEW View
PROPERTIES
  OrderFromVerifiedRTicket
