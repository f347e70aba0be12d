SPECIFICATION FairSpec
CONSTANTS
  Name = {1, 2, 3}
  Context = {1, 3}
  portOf <- MCPortOf
  MaxEvents = 2
INVARIANT TypeOK
INVARIANT CoversSteady
INVARIANT LeavesOthers
INVARIANT EndsWithAll
INVARIANT AnswerKept
PROPERTY ExecEnds
