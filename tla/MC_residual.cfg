\* Manual workspace: two commands recover the same unresolved addition.
SPECIFICATION Spec
CONSTANTS
 Processes = {p1, p2}
 New = {n1}
 None = None
 Automatic = FALSE
 Layouts = {"root"}
 Contents = {"dirty"}
 MaxOperations = 4
 MaxClaims = 0
 MaxRemovals = 0
 MaxTroubles = 1
INVARIANT PublishedStays
CHECK_DEADLOCK FALSE
