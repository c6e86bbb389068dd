SPECIFICATION Spec
CONSTANTS
  s1 = s1
  s2 = s2
  References = {r1, r2}
  Spellings = {"canonical"}
  Prices = {1, 2}
  Quantities = {0, 1}
  Sessions = {s1, s2}
  MaxLines = 2
  MaxItems = 3
  MaxEntries = 2
SYMMETRY ItemSymmetry
INVARIANTS TypeOK OneItemPerReference AmountKept
PROPERTIES ReplacedItemsLinked 
CHECK_DEADLOCK FALSE
