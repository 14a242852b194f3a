SPECIFICATION Spec
CONSTANTS
  Bundle = "shared"
  NumDefinitions = 3
  PreSteps <- MCPreSteps
  ProgramOf <- MCProgramOf
  Steps <- MCSteps
  TargetOf <- MCTargetOf
  MaxInput = 3
  Inputs <- MCInputs
  GrowthFrom <- MCGrowthFrom
  LeftMargin = 3
  ScratchSize = 6
  NoAnswer = NoAnswer
INVARIANTS
  MarginSuffices
CHECK_DEADLOCK FALSE
