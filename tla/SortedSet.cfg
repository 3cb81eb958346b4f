SPECIFICATION Spec
CONSTANTS
  Null = Null
  NoScore = NoScore
  Names = {1, 2, 3, 4, 5, 6, 7, 8, 9, 10}
  Scores = {0, 1}
  Movable = {5}
  Inputs <- MCInputs
INVARIANTS
  TreeExact
  RanksExact
PROPERTIES
  ImplementsScoredSet
