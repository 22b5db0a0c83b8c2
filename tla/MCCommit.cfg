SPECIFICATION CommandLineSpec
CONSTANTS
  N = 3
  MayRace = {"dir"}
  Cases <- MCCases
  Documents <- MCDocuments
  Discount <- MCDiscount
  Whole = 2520
  MaxOptions = 4
INVARIANT TypeOK
INVARIANT RestoredOnFailure
INVARIANT CommittedTogether
INVARIANT OldNeverLost
INVARIANT NoLitter
INVARIANT InputsSurvive
INVARIANT AllOrNothing
INVARIANT NoOptionIgnored
INVARIANT ReportIsTrue
PROPERTY BackupsBeforeInstall
PROPERTY FailureSettles
CHECK_DEADLOCK FALSE
