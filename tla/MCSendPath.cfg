SPECIFICATION Spec
CONSTANTS
  clean = clean
  risky = risky
  secret = secret
  Texts <- MCTexts
  Verdict <- MCVerdict
  Matched <- MCMatched
  Redacted <- MCRedacted
  MaxRequests = 2
  Spans = {"a", "all"}
  WholeText = "all"
  SignalSets <- MCSignalSets
  MaxRules = 3
  MaxIntents = 1
  Doc <- MCDoc
  Content <- MCContent
INVARIANTS VerdictHolds OneRequestPerApproval FlaggedReleasedByItsUser
PROPERTIES GateSpec HeldForTheUser AnsweredUnlessReplaced
CHECK_DEADLOCK FALSE
