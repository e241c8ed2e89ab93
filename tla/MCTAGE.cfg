SPECIFICATION Spec
CONSTANTS
  PCs <- MCPCs
  nTables = 2
  idxLen = 1
  resetPeriod = 4
  Branches = 4
INVARIANT TypeOK
PROPERTIES UsefulEntrySurvives WrongPredictionMakesRoom LearnsSteadyBranch
