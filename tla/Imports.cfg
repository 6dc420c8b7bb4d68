SPECIFICATION Spec
CONSTANTS
  root = root
  pets = pets
  dog = dog
  shop = shop
  Sorted <- MCSorted
  Above <- MCAbove
  MaxLines = 3
INVARIANTS
  ComponentsFound
  FailsInCycle
CHECK_DEADLOCK FALSE
