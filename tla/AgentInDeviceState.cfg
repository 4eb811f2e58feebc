\* The state of an agent after it received data.
SPECIFICATION Spec
CONSTANTS
  Devices = {d1}
  Agents = {a1}
  NoOne = NoOne
  NoId = NoId
  Commands = {hello}
  NoCmd = NoCmd
  EndCmd = EndCmd
  MaxNonce = 36
  Issuers = {a1}
  Reporters = {}
  IssueTypes <- SelfTypes
  Scopes <- OnlyAll
  TokenKinds <- CmdOnly
  FirstCmds <- OnlyEnd
  CmdInputs <- OnlyEnd
  MaxOrder = 2
  Fragile <- NoDevice
VIEW View
INVARIANTS
  AgentsKeepAgentStates
