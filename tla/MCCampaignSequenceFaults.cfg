SPECIFICATION Spec
CHECK_DEADLOCK FALSE
CONSTANTS
  ann = ann
  bob = bob
  one = one
  Requests <- MCRequest
  Leads <- MCLead
  MaxSteps = 2
  MaxIds = 3
  MaxFaults = 2
CONSTRAINT Followed
INVARIANTS
  RenderedIsPersonalized
PROPERTIES
  SafeLeadsGetTheirOwn
