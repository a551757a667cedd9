SPECIFICATION Spec
CHECK_DEADLOCK FALSE
CONSTANTS
  ann = ann
  bob = bob
  one = one
  Requests <- MCRequest
  Leads <- MCLeads
  MaxSteps = 2
  MaxIds = 3
  MaxFaults = 0
SYMMETRY Symmetry
CONSTRAINT Seen
INVARIANTS
  TypeOK
PROPERTIES
  OwnEmailsOnly
