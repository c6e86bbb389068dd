SPECIFICATION AnswersSpec
CONSTANTS
  Products = {p1}
  p1 = p1
  Sessions = {s1, s2}
  s1 = s1
  s2 = s2
  MaxCalls = 4
  MaxSagas = 2
  MaxCharges = 2
INVARIANT OneSagaAtATime
CHECK_DEADLOCK FALSE
