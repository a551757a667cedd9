SPECIFICATION FairSpec
CONSTANTS
  Persons = {p1, p2}
  Principal = p1
  Agency = Agency
  MaxRequests <- MCMaxRequests
  MaxResends <- MCMaxResends
  MaxCrowded <- MCMaxCrowded
  MaxCredits <- MCMaxCredits
  Templates <- MCTemplates
INVARIANTS
  TypeOK
  OpenIffReserved
  OnlyOverlapsReseat
PROPERTIES
  ContractSpec
  CreditsSettle
