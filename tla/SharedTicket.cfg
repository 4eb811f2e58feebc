\* Two agents that took the same ticket open sessions with it, while the device may lose
\* its memory at any moment.
SPECIFICATION Spec
CONSTANTS
  Devices = {d1}
  Agents = {a1, a2}
  NoOne = NoOne
  NoId = NoId
  Commands = {hello}
  NoCmd = NoCmd
  EndCmd = EndCmd
  MaxNonce = 36
  Issuers = {a1}
  Reporters = {}
  IssueTypes <- DelegateTypes
  Scopes <- OnlyNarrow
  TokenKinds <- NoToken
  FirstCmds <- CmdAndEnd
  CmdInputs <- CmdAndEnd
  MaxOrder = 2
  Fragile <- AnyDevice
VIEW View
PROPERTIES
  DataAnswersCommand
