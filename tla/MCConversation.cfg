SPECIFICATION ConversationSpec
CONSTANTS
  MaxInt = 20
  Million = 2
  MostInput = 2
  MostOutput = 2
  MostCost = 9
  MaxMessages = 4
  Roles = {"user", "assistant", "tool", "system", "none"}
  Parts <- MCParts
  Models <- MCModels
  Lines <- MCLines
  Bodies <- MCBodies
  JsonOf <- MCJsonOf
  MaxBytes = 7
  MaxCalls = 2
  MaxChunk = 2
  MaxLines = 4
  Inputs <- MCInputs
  MaxInputs = 3
INVARIANTS
  ConversationTypeOK
  ValidModelsAreReachable
  ValidationIsExact
  AnswersAreWhole
  BillsAreFair
  AnswersCanBeContinued
PROPERTIES
  AdaptersAnswerOnce
CHECK_DEADLOCK FALSE
