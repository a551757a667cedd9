SPECIFICATION FairSpec
CONSTANTS
  Signers = {s1, s2}
  Sessions = {k1, k2}
  Balance = Balance
  Request = Request
  Nobody = Nobody
  OtherCredits <- MCOtherCredits
  MaxFilings <- MCMaxFilings
PROPERTIES
  SignedRequestEnds
