SPECIFICATION Spec
CONSTANTS
  HeaderBytes = 2
  MaxFrame = 3
  Bodies <- MCBodies
  Answers <- MCAnswers
  PipeCapacity = 3
  ReadBuffer = 3
  WriteBuffer = 3
  MaxExchanges = 3
INVARIANTS
  LockStep
  NothingUnanswered
PROPERTIES
  EveryRequestAnswered
  EndsWithItsInput
