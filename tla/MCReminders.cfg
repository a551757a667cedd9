CONSTANTS
  auto1 = auto1
  auto2 = auto2
  letter = letter
  inapp = inapp
  chat = chat
  visa = visa
  NoStep = NoStep
  Rows <- MCRows
  Automatic <- MCAutomatic
  WhatsApp = {chat}
  Silent = {inapp}
  Groups <- MCGroups
  Steps = {visa}
  StepOf <- MCStepOf
  MaxAgents = 2
  MaxTicks = 2
  Editable = {letter}
  Contended = {letter}
  MaxEdits = 1
  Together <- MCTogether
  MaxMishaps = 2
SPECIFICATION FairSpec
INVARIANTS TypeOK OnlySlippedTextsLeave MailedOncePerApproval SentHasLeft
PROPERTIES ApprovedIsHandled
