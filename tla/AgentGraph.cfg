SPECIFICATION Spec
CONSTANTS
  MaxExamples = 4
  Limit = 3
  MaxRetries = 2
  None = None
INVARIANT ResultJustified
PROPERTY AgentEnds
