\* An application that does one thing at a time.
SPECIFICATION DriverSpec
CONSTANTS
  Devices = {d1, d2}
  Agents = {a1, a2}
  NoOne = NoOne
  NoId = NoId
  Commands = {hello}
  NoCmd = NoCmd
  EndCmd = EndCmd
  MaxNonce = 40
  Issuers <- AnyAgent
  Reporters <- AnyAgent
  IssueTypes <- AnyStored
  Scopes <- OneCommand
  TokenKinds <- AnyToken
  FirstCmds <- FirstTexts
  CmdInputs <- CmdAndEnd
  MaxOrder = 2
  Fragile <- NoDevice
VIEW DriverView
CHECK_DEADLOCK FALSE
INVARIANTS
  SessionInStep
PROPERTIES
  ServiceSpec
  EveryGoalAnswered
