SPECIFICATION FairSpec
CONSTANTS
  Signers = {s1, s2}
  Sessions = {k1, k2}
  Balance = Balance
  Request = Request
  Nobody = Nobody
  OtherCredits <- MCOtherCredits
  MaxFilings <- MCMaxFilings
INVARIANTS
  TypeOK
  OverIsSettled
  CompletedIsSigned
PROPERTIES
  HandlersEnd
