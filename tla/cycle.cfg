SPECIFICATION Spec
CONSTANT StartValues <- AnyHeap
CHECK_DEADLOCK FALSE
INVARIANTS TypeOK SingleToken RefreshesAreSpaced StallsOnlyIfMissed RequestNeverLost DeadlockOnlyIfMissed LateWorkIsBounded
PROPERTIES TakesTurns ShutdownUnlessMissed RefreshRecursUnlessMissed
