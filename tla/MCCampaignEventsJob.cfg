SPECIFICATION Spec
CONSTANTS
  Members = {m1}
  MaxLog = 2
PROPERTIES
  OppositionArrives
