SPECIFICATION Spec
CONSTANTS
    p1 = p1  p2 = p2
    w1 = w1  r1 = r1  r2 = r2
    c1 = c1  c2 = c2
    None = None
    Processes = {p1, p2}
    Workspaces = {w1}
    Automatic = {w1}
    Repos = {r1}
    Claims = {c1, c2}
    Commands = {"provision", "allocate", "claim", "release", "gc"}
    Forces = {FALSE}
    Edits = {}
    Faults = TRUE
    Stalls = TRUE
    Crashes = TRUE
SYMMETRY Symmetry
INVARIANTS HeldClaimsAreActive
PROPERTIES ClaimsFollowLedger OneCreationOutcome
CHECK_DEADLOCK FALSE
