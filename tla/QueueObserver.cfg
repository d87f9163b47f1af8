SPECIFICATION FairSpec
CONSTANTS
  Size = 4
INVARIANTS
  TypeOK
PROPERTIES
  AnswersWithinCall
  AnswersSettle
