--------------------------- MODULE AtomicAddition ---------------------------
(***************************************************************************)
(* What `trees add` promises, without processes, worktrees, journals or    *)
(* crashes (openspec/specs/workspace-lifecycle: Publish Add Membership     *)
(* Atomically, Compensate Only Changes Owned by an Addition, Recover       *)
(* Interrupted Additions).  The members of a workspace change in one step, *)
(* and only when the files already agree with the change.  A workspace     *)
(* whose files do not agree with its members is being worked on or is      *)
(* marked as unresolved, and an addition that is being undone is never     *)
(* published.                                                              *)
(***************************************************************************)
CONSTANTS Layout   \* what a workspace may have: its members and their places

VARIABLES
    layout,  \* what the database says
    stage,   \* "settled", "adding", "undoing" or "unresolved"
    exact    \* are the files of the members where the database says?

addition == <<layout, stage, exact>>

AdditionInit ==
    /\ layout \in Layout
    /\ stage = "settled"
    /\ exact = TRUE

Add == stage = "settled" /\ stage' = "adding" /\ UNCHANGED <<layout, exact>>

\* An undoing starts from a failed, an interrupted or an unresolved addition,
\* or from one that another process has just resolved.
Undo == stage # "undoing" /\ stage' = "undoing" /\ UNCHANGED <<layout, exact>>

\* Files change under an addition, its undoing, and the repairs of a user.
Change == stage # "settled" /\ exact' \in BOOLEAN /\ UNCHANGED <<layout, stage>>

Commit ==
    /\ stage = "adding" /\ stage' = "settled"
    /\ layout' \in Layout
    /\ exact' = TRUE

Settle ==
    /\ stage # "unresolved"
    /\ stage' = "settled"
    /\ exact' = TRUE
    /\ UNCHANGED layout

Retain ==
    /\ stage \in {"adding", "undoing"} /\ stage' = "unresolved"
    /\ exact' \in BOOLEAN
    /\ UNCHANGED layout

AdditionNext == Add \/ Undo \/ Change \/ Commit \/ Settle \/ Retain

AdditionSpec == AdditionInit /\ [][AdditionNext]_addition
=============================================================================
