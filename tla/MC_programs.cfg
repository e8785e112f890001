SPECIFICATION ProgramsSpec
CONSTANTS
  Cloners = {c1, c2}
  Nobody = Nobody
  MaxIds = 3
  MaxFaults = 2
  MaxSignals = 2
  MaxErrors = 2
  Refreshers = {r1, r2}
  Debounce = 1
  MaxTime = 1
  MaxMoves = 1
  Names = {n1, n2}
  Files = {f1}
  Subdirectories = {d1, d2}
  BlockCounts = {1}
  MaxBytes = 3
  MaxChanges = 2
  Asked = {w1, w2}
  Pids = {7}
  MaxStarts = 2
  MaxEvents = 4
  MaxCommits = 2
  Parts = {"a", "b"}
  MaxParts = 3
  MaxPaths = 3
INVARIANT ProgramsTypeOK
INVARIANT OneManagedClone
INVARIANT NoTakeover
INVARIANT ReferencesResolve
INVARIANT ZeroMeansReleased
INVARIANT SizesFollowPaths
INVARIANT CompleteRefreshSavedAll
INVARIANT UndisturbedScanIsExact
INVARIANT CompleteScanMissedNothing
INVARIANT AnswersAreWhole
INVARIANT NothingIsLeft
INVARIANT ReportedProcessWasThere
INVARIANT CompleteMissesNobody
INVARIANT ReportIsOfOneMoment
INVARIANT LabelsAreShortestUnique
PROPERTY CloneSurvives
PROPERTY IntentsEnd
PROPERTY ReleasesOnlyItsOwn
PROPERTY TerminationReachesChild
PROPERTY ExitIsNoticed
PROPERTY QueriesEnd
CHECK_DEADLOCK FALSE
