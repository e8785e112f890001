SPECIFICATION Spec
CONSTANTS
 Processes={p1,p2}
 New={n1}
 None=None
 Automatic=TRUE
 Layouts={"root","inside"}
 Contents={"dirty"}
 MaxOperations=4
 MaxClaims=2
 MaxRemovals=1
 MaxTroubles=2
INVARIANT TypeOK Settled UnresolvedBlocks PublishedStays
PROPERTY UserWorkSurvives ClaimKept AdditionIsAtomic AdditionsEnd
CHECK_DEADLOCK FALSE
