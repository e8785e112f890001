----------------------------- MODULE ClaimLedger ----------------------------
(***************************************************************************)
(* What the claims of automatic workspaces promise, without processes,     *)
(* leases, Git or crashes (openspec/specs/workspace-reuse: Persist One     *)
(* Active Workspace Claim).  A claim is recorded on a vacant workspace     *)
(* under an identity never used before; its user may learn of it at once   *)
(* or later, as long as it is still recorded; and it ends in one step for  *)
(* the record and the user.  A claim is never replaced, moved or revived.  *)
(***************************************************************************)
CONSTANTS Workspaces, Claims, None

VARIABLES
    active,  \* the claim recorded on each workspace
    spent,   \* every claim ever recorded
    user     \* the workspace held by the user who was told of each claim

ledger == <<active, spent, user>>

LedgerInit ==
    /\ active = [w \in Workspaces |-> None]
    /\ spent  = {}
    /\ user   = [c \in Claims |-> None]

Record(w, c) ==
    /\ active[w] = None
    /\ c \notin spent
    /\ active' = [active EXCEPT ![w] = c]
    /\ spent'  = spent \cup {c}
    /\ user' \in {user, [user EXCEPT ![c] = w]}

Tell(w) ==
    /\ active[w] # None
    /\ user' = [user EXCEPT ![active[w]] = w]
    /\ UNCHANGED <<active, spent>>

Drop(w) ==
    /\ active[w] # None
    /\ active' = [active EXCEPT ![w] = None]
    /\ user'   = [c \in Claims |-> IF user[c] = w THEN None ELSE user[c]]
    /\ UNCHANGED spent

LedgerNext ==
    \E w \in Workspaces : Tell(w) \/ Drop(w) \/ \E c \in Claims : Record(w, c)

LedgerSpec == LedgerInit /\ [][LedgerNext]_ledger
=============================================================================
