SPECIFICATION Spec
CONSTANTS
    p1 = p1  p2 = p2
    w1 = w1  r1 = r1  r2 = r2
    c1 = c1  c2 = c2
    None = None
    Processes = {p1}
    Workspaces = {w1}
    Automatic = {w1}
    Repos = {r1}
    Claims = {c1}
    Commands = {"provision", "reconcile"}
    Forces = {FALSE}
    Edits = {"moved"}
    Faults = FALSE
    Stalls = FALSE
    Crashes = FALSE
SYMMETRY Symmetry
INVARIANTS ObservationIsIdempotent
CHECK_DEADLOCK FALSE
