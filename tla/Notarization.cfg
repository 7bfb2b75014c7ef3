SPECIFICATION Spec
CONSTANTS
  MaxCommitted = 100
  BlockLen = 2
  MaxCommits = 2
  LinkFails = TRUE
  RecordChoices <- MCRecordChoices
  Parties <- MCParties
  Validator <- MCValidator
  NotaryConfig <- MCNotaryConfig
INVARIANTS PresentedIsTrue PresentationWorks VerifiedIsTrue
PROPERTIES PartiesEnd 
CHECK_DEADLOCK FALSE
