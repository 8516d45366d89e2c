SPECIFICATION Spec
CONSTANTS
 Titles = {"a", "b"}
 Absent = Absent
 BatchMax = 1
 Budget = 1
 RefreshAge = 1
 MissRetry = 2
INVARIANTS  NextLaunchAsks
