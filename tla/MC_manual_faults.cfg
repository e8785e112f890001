SPECIFICATION FairSpec
CONSTANTS
    p1 = p1  p2 = p2
    w1 = w1  r1 = r1  r2 = r2
    c1 = c1  c2 = c2
    None = None
    Processes = {p1}
    Workspaces = {w1}
    Automatic = {}
    Repos = {r1, r2}
    Claims = {}
    Commands = {"create", "remove", "reconcile"}
    Forces = {FALSE, TRUE}
    Edits = {"dirty", "branch"}
    Faults = TRUE
    Stalls = FALSE
    Crashes = TRUE
INVARIANTS TypeOK
PROPERTIES CommandsEnd
CHECK_DEADLOCK FALSE
