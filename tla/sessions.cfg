SPECIFICATION AnswersSpec
CONSTANTS
  Products = {p1}
  p1 = p1
  Sessions = {s1, s2}
  s1 = s1
  s2 = s2
  MaxCalls = 4
  MaxSagas = 3
  MaxCharges = 2
SYMMETRY SessionSymmetry
INVARIANTS
  TypeOK
  RowIsWhole
  RecordedFirst
  
  RefusalChangesNothing
  
  ErrorLeavesStatus
PROPERTY ChangesAreRecorded
CHECK_DEADLOCK FALSE
