SPECIFICATION FairSpec
CONSTANTS
  s1 = s1
  s2 = s2
  s3 = s3
  passport = passport
  contract = contract
  birth = birth
  Steps = {s1, s2, s3}
  Definitions = {passport, contract, birth}
  People = {principal, spouse}
  Principal = principal
  InitialSteps = {s1, s2}
  InitialDefinitions = {birth, contract}
  Countersigned = TRUE
  StepOf <- MCStepOf
  Scope <- MCScope
  Kind <- MCKind
  DefaultValidator <- MCDefaultValidator
  InitialPrerequisites <- MCInitialPrerequisites
  Validators <- MCValidators
  Statuses <- MCStatuses
  MaxEdits = 3
INVARIANTS
  TypeOK
  DefinitionsAreAsked
PROPERTIES
  PrerequisitesHold
  StatusFollowsSteps
  AnswersAreKept
  EveryoneStaysAsked
  JourneyEnds
