\* An ownership ticket is applied while the device is in a session.
SPECIFICATION Spec
CONSTANTS
  Devices = {d1}
  Agents = {a1, a2}
  NoOne = NoOne
  NoId = NoId
  Commands = {hello}
  NoCmd = NoCmd
  EndCmd = EndCmd
  MaxNonce = 36
  Issuers = {a1}
  Reporters = {}
  IssueTypes <- SelfOwnTypes
  Scopes <- OnlyAll
  TokenKinds <- NoToken
  FirstCmds <- OnlyEnd
  CmdInputs <- OnlyEnd
  MaxOrder = 2
  Fragile <- NoDevice
VIEW View
INVARIANTS
  SessionIsCurrent
