SPECIFICATION FairSpec
CONSTANTS
  Protocols <- Both
  Looks = {"stray", "ping"}
  MaxSent = 5
  MaxAbandoned = 2
INVARIANTS TypeOK EachStepFilters OwnStrip
PROPERTY Answered
CHECK_DEADLOCK FALSE
