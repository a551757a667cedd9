SPECIFICATION Spec
CONSTANTS
  Members = {m1, m2}
  MaxLog = 3
SYMMETRY Symmetry
INVARIANTS
  TypeOK
  StatusFollowsEvents
  OppositionIsComplete
