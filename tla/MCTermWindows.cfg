CONSTANTS
  MaxSessions = 4
  MaxIntents = 1
SPECIFICATION Spec
INVARIANTS TypeOK SomethingToSee ViewsMatchSessions StopsOnlyWhenEmpty
CHECK_DEADLOCK FALSE
