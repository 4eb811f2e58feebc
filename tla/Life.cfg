\* Controllers are constructed, initialised and rebooted at any moment.
SPECIFICATION LifeSpec
CONSTANTS
  Devices = {d1}
  Agents = {a1, a2}
  NoOne = NoOne
  NoId = NoId
  Commands = {hello}
  NoCmd = NoCmd
  EndCmd = EndCmd
  MaxNonce = 36
  Issuers = {a1, a2}
  Reporters = {}
  IssueTypes <- OwnershipTypes
  Scopes <- OnlyAll
  TokenKinds <- AnyToken
  FirstCmds <- OnlyEnd
  CmdInputs <- OnlyEnd
  MaxOrder = 2
  Fragile <- AnyDevice
VIEW LifeView
SYMMETRY AgentSymmetry
PROPERTIES
  LifeLedgerSpec
  OrphanedForever
