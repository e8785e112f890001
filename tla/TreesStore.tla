----------------------------- MODULE TreesStore -----------------------------
(***************************************************************************)
(* The lifecycle database that every trees process shares, the files it    *)
(* describes, and the memory of each running process.                      *)
(*                                                                         *)
(* One row per workspace: its state, its repository worktrees, its claim   *)
(* (unique per workspace), and the lease of the one operation that may run *)
(* on it (unique per workspace).  The operators below are the statements   *)
(* of src/storage/repository.rs; the modules that extend this one are the  *)
(* commands that issue them.                                               *)
(*                                                                         *)
(* Abstractions.  A lease token is the process that holds it: a process    *)
(* works under one token at a time and forgets it when it stops, so        *)
(* [by, own] identify the token.  Time is whether the 300 s of a lease are *)
(* over ("live").  The revision a command aligns to is "base"; any other   *)
(* revision is "other".  No workspace has an unresolved addition: `trees   *)
(* add` and its journal are the subject of Addition.                       *)
(***************************************************************************)
EXTENDS Naturals, FiniteSets

CONSTANTS
    Processes,   \* the concurrent trees processes
    Workspaces,  \* workspace identities, recorded or not yet
    Automatic,   \* those that automatic creation generates
    Repos,       \* the repositories of every workspace
    Claims,      \* claim identities
    None,        \* no claim, no workspace, no repository
    Commands,    \* the commands that processes may run
    Forces,      \* the values of --force they may run with
    Edits,       \* what a user may turn the content of a worktree into
    Faults,      \* may a git or filesystem command fail by itself?
    Stalls,      \* may a running process outlive its lease?
    Crashes      \* may a running process die?

AllCommands == {"allocate", "provision", "create", "claim", "release",
                "reconcile", "gc", "remove"}

\* What is on disk at a worktree path: nothing, a detached worktree at the
\* base revision without or with local changes, one on a branch, or a clean
\* detached one at another revision.
Contents == {"absent", "clean", "dirty", "branch", "moved"}

ASSUME StoreAssumption ==
    /\ Automatic \subseteq Workspaces
    /\ IsFiniteSet(Repos) /\ Repos # {}
    /\ None \notin Workspaces \cup Claims \cup Repos \cup Processes
    /\ Commands \subseteq AllCommands
    /\ Forces \subseteq BOOLEAN
    /\ Edits \subseteq Contents
    /\ {Faults, Stalls, Crashes} \subseteq BOOLEAN

VARIABLES
    wsState,   \* workspaces.state; "none" before the row exists
    row,       \* repo_worktrees: state and last_head
    claim,     \* workspace_claims: the active claim of each workspace
    lease,     \* operation_leases: the operation running on each workspace
    createOp,  \* outcome of the operation that created each workspace
    disk,      \* content of each worktree path
    dir,       \* does the container directory of the workspace exist?
    pc,        \* the next step of each process
    mem,       \* the local variables of each process
    issued,    \* history: the claims ever inserted
    held       \* history: the workspace a user holds by each claim

db      == <<wsState, row, claim, lease, createOp>>
files   == <<disk, dir>>
control == <<pc, mem>>
history == <<issued, held>>
vars    == <<wsState, row, claim, lease, createOp, disk, dir, pc, mem,
             issued, held>>

WorkspaceState == {"none", "creating", "ready", "degraded", "failed",
                   "removed"}
RowState  == {"none", "pending", "attached", "dirty", "missing", "diverged",
              "failed", "removed"}
Head      == {"none", "base", "other"}
Row       == [st: RowState, head: Head]
Outcome   == {"none", "running", "succeeded", "failed", "rolled_back"}
Kind      == {"acquire", "claim", "release", "reconcile", "gc", "remove",
              "create"}
NoLease   == [kind |-> "none", by |-> None, live |-> FALSE]
Lease     == {NoLease} \cup [kind: Kind, by: Processes, live: BOOLEAN]

NoRow  == [st |-> "none", head |-> "none"]
NoRows == [r \in Repos |-> NoRow]

\* What a process remembers while it runs one command.
Blank == [cmd |-> "none", ws |-> None, claim |-> None, force |-> FALSE,
          own |-> FALSE, seen |-> NoLease, rows |-> NoRows, todo |-> {},
          done |-> {}, cur |-> None, at |-> None, sum |-> "none", err |-> FALSE,
          keep |-> FALSE, ret |-> "idle"]

Init ==
    /\ wsState  = [w \in Workspaces |-> "none"]
    /\ row      = [w \in Workspaces |-> NoRows]
    /\ claim    = [w \in Workspaces |-> None]
    /\ lease    = [w \in Workspaces |-> NoLease]
    /\ createOp = [w \in Workspaces |-> "none"]
    /\ disk     = [w \in Workspaces |-> [r \in Repos |-> "absent"]]
    /\ dir      = [w \in Workspaces |-> FALSE]
    /\ pc       = [p \in Processes |-> "idle"]
    /\ mem      = [p \in Processes |-> Blank]
    /\ issued   = {}
    /\ held     = [c \in Claims |-> None]

-----------------------------------------------------------------------------
(* Control of one process. *)

Ws(p) == mem[p].ws

Step(p, label, m) ==
    /\ pc'  = [pc EXCEPT ![p] = label]
    /\ mem' = [mem EXCEPT ![p] = m]

End(p) == Step(p, "idle", Blank)

\* Call the reconciliation of the workspace; it returns to label ret.
CallReconcile(p, ret, m) == Step(p, "rc_read", [m EXCEPT !.ret = ret])

\* A claim identity nobody uses or is about to use.
FreshClaim(c) == c \notin issued /\ \A q \in Processes : mem[q].claim # c

-----------------------------------------------------------------------------
(* The statements of the repository. *)

\* operation_lease_for_mutation, renew_operation_lease: does p's token name
\* a lease row that has not expired?  A renewal changes nothing else.
Holds(p) ==
    /\ mem[p].own
    /\ lease[Ws(p)].by = p
    /\ lease[Ws(p)].live

\* find_running_operation: the lease row of a finished operation is deleted
\* with its terminal event, so a row means a running operation.
Running(w) == lease[w] # NoLease

\* persist_operation_intent: the unique workspace_id admits one lease.
InsertLease(p, kind) ==
    lease' = [lease EXCEPT ![Ws(p)] = [kind |-> kind, by |-> p, live |-> TRUE]]

\* finish_operation_in_transaction, once the lease was found live.
CloseOperation(p, outcome) ==
    /\ lease' = [lease EXCEPT ![Ws(p)] = NoLease]
    /\ createOp' = IF lease[Ws(p)].kind = "create"
                   THEN [createOp EXCEPT ![Ws(p)] = outcome]
                   ELSE createOp

\* record_operation_transition where the caller goes on whatever it returns.
TryCloseOperation(p, outcome) ==
    IF Holds(p) THEN CloseOperation(p, outcome)
                ELSE UNCHANGED <<lease, createOp>>

\* record_workspace_transition and update_workspace_observation: no lease is
\* checked.
SetWorkspace(p, state) == wsState' = [wsState EXCEPT ![Ws(p)] = state]

\* record_repo_worktree_transition: no lease is checked.
SetRow(p, r, value) == row' = [row EXCEPT ![Ws(p)][r] = value]

\* fail_operation: the best-effort end of a command that failed.
FailOperation(p) ==
    /\ pc[p] = "fail_op"
    /\ TryCloseOperation(p, "failed")
    /\ End(p)
    /\ UNCHANGED <<wsState, row, claim, files, history>>

-----------------------------------------------------------------------------
(* Git and the filesystem. *)

\* Mutant of HeadOf: the branch is recorded in place of its revision.
SymbolicHead(content) == IF content = "branch" THEN content ELSE "base"

Present(w)       == {r \in Repos : disk[w][r] # "absent"}
RootExists(w)    == dir[w] \/ Present(w) # {}
RootIsWorktree   == Cardinality(Repos) = 1
HeadOf(content)  == IF content = "moved" THEN "other" ELSE "base"
Detached(content) == content \in {"clean", "dirty", "moved"}

SetDisk(p, r, content) == disk' = [disk EXCEPT ![Ws(p)][r] = content]

\* run_command_with_heartbeat: a command that lasts a second asks for a
\* renewal and is killed when the lease is lost; a shorter one never asks.
CommandMayFail(p) == Faults \/ ~Holds(p)

\* git worktree remove --force removes whatever is there, a worktree that is
\* already gone included; one that fails may have deleted some of the files.
GitRemove(p, r) == SetDisk(p, r, "absent")

GitRemoveFails(p, r) ==
    disk' \in {disk, [disk EXCEPT ![Ws(p)][r] = IF @ = "absent" THEN @ ELSE "dirty"]}

\* The removal of the workspace directory: under the lease, and only when no
\* worktree is left in it.
RemoveRoot(p) ==
    /\ RootExists(Ws(p)) /\ Holds(p) /\ Present(Ws(p)) = {}
    /\ dir' = [dir EXCEPT ![Ws(p)] = FALSE]

RemoveRootFails(p) ==
    /\ RootExists(Ws(p))
    /\ Faults \/ ~Holds(p) \/ Present(Ws(p)) # {}

\* ObservationFingerprint::matches_attached for a row that expects head.
CleanAt(content, head) ==
    \/ content = "clean" /\ head = "base"
    \/ content = "moved" /\ head = "other"

=============================================================================
