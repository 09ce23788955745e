CONSTANTS
  Member = {1, 2, 3, 4}
  Score = {1, 3}
  MaxLevel = 3
  Nil = Nil
SPECIFICATION Spec
CHECK_DEADLOCK FALSE
INVARIANTS WellLinked RanksExact ScoresExact
PROPERTY KeepsTheRightOnes
