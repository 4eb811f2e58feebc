\* An owner lets a holder in, for less than he asks; he reports the end.
SPECIFICATION Spec
CONSTANTS
  Devices = {d1}
  Agents = {a1, a2}
  NoOne = NoOne
  NoId = NoId
  Commands = {hello}
  NoCmd = NoCmd
  EndCmd = EndCmd
  MaxNonce = 36
  Issuers = {a1}
  Reporters = {a2}
  IssueTypes <- DelegateTypes
  Scopes <- OnlyNarrow
  TokenKinds <- AnyToken
  FirstCmds <- OnlyCommands
  CmdInputs <- OnlyEnd
  MaxOrder = 2
  Fragile <- NoDevice
VIEW View
INVARIANTS
  DataIsAuthorised
PROPERTIES
  IssuerForgetsOnlyExecuted
