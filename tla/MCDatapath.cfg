CONSTANTS
  RegisterFiles <- MCRegisterFiles
  Statements <- MCStatements
  RawWords <- MCRawWords
  PCs <- MCPCs
SPECIFICATION Spec
INVARIANTS TypeOK ExecutesAssembly ClassifiedAsModelled DisplayReadsBack DisplayedIsExecuted
CHECK_DEADLOCK FALSE
