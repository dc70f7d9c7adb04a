CONSTANTS
  DigitBits = 6
  Half = 8
  KaratsubaThreshold = 2
  BurnikelZieglerThreshold = 1
  RecursiveToStringThreshold = 13
  Precision = 3
  MinExponent <- LeastExponent
  MaxExponent = 12
  IntegerFamilies <- Digitwise
  TowerFamilies <- RealsAndCompound
  Rooms = {0, 1, 3}
  Shifts <- ShiftDistances
  Radices = {2, 3, 4, 7, 16}
SPECIFICATION Spec
INVARIANTS ShiftIsFloor
CHECK_DEADLOCK FALSE
