-------------------------------- MODULE Trees -------------------------------
(***************************************************************************)
(* The trees command line: any number of processes run commands against    *)
(* one lifecycle database and one set of files, while users work in the    *)
(* worktrees, processes die, and leases expire.                            *)
(***************************************************************************)
EXTENDS Access, Creation, Removal

\* The process that the lease names still works under its token.
OwnerAlive(w) == LET p == lease[w].by IN mem[p].own /\ Ws(p) = w

\* The 300 s of a lease pass without a renewal.  A process that runs renews
\* in time unless it is suspended or one of its steps stalls.
Expire(w) ==
    /\ lease[w].live
    /\ Stalls \/ ~OwnerAlive(w)
    /\ lease' = [lease EXCEPT ![w].live = FALSE]
    /\ UNCHANGED <<wsState, row, claim, createOp, files, control, history>>

\* A user works in a worktree, or removes it.
UserEdit(w, r) ==
    /\ disk[w][r] # "absent"
    /\ \E content \in Edits \ {disk[w][r]} :
        disk' = [disk EXCEPT ![w][r] = content]
    /\ UNCHANGED <<db, dir, control, history>>

\* A process dies between two of its steps.
Crash(p) ==
    /\ Crashes
    /\ pc[p] # "idle"
    /\ End(p)
    /\ UNCHANGED <<db, files, history>>

Work(p) ==
    \/ ReconcileNext(p) \/ RecoverNext(p) \/ AccessNext(p)
    \/ CreationNext(p) \/ RemovalNext(p) \/ FailOperation(p)

Next ==
    \/ \E p \in Processes : Work(p) \/ Crash(p)
    \/ \E w \in Workspaces : Expire(w) \/ \E r \in Repos : UserEdit(w, r)

Spec == Init /\ [][Next]_vars

-----------------------------------------------------------------------------
(* Properties. *)

Label == {"idle", "fail_op", "rc_read", "rc_observe", "rc_write", "recover",
          "takeover", "rv_close", "rv_observe", "rv_attach", "rv_renew",
          "rv_remove", "rv_row", "rv_dir", "rv_op", "rv_ws", "al_admit",
          "al_begin", "al_check", "al_claim", "al_finish", "cl_begin",
          "cl_inspect", "cl_reinspect", "cl_publish", "rl_begin", "rl_check",
          "rl_record", "align_plan", "align_step", "align_checkout",
          "align_record", "rec_begin", "rec_close", "cr_begin", "cr_mkdir",
          "cr_intent", "cr_add", "cr_attach", "cr_next", "cr_final",
          "rb_remove", "rb_row", "rb_dir", "rb_claim", "rb_op", "rb_ws",
          "gc_scan", "rm_refresh", "rm_begin", "rm_check", "rm_renew",
          "rm_remove", "rm_record", "rm_fail"}

Memory == [cmd: AllCommands \cup {"none"}, ws: Workspaces \cup {None},
           claim: Claims \cup {None}, force: BOOLEAN, own: BOOLEAN,
           seen: Lease, rows: [Repos -> Row], todo: SUBSET Repos,
           done: SUBSET Repos, cur: Repos \cup {None}, at: Repos \cup {None},
           sum: WorkspaceState \cup {"error"}, err: BOOLEAN, keep: BOOLEAN,
           ret: Label]

\* Every table row, file and local variable has its type: no step stores a
\* state or a head that its column does not admit.
TypeOK ==
    /\ wsState  \in [Workspaces -> WorkspaceState]
    /\ row      \in [Workspaces -> [Repos -> Row]]
    /\ claim    \in [Workspaces -> Claims \cup {None}]
    /\ lease    \in [Workspaces -> Lease]
    /\ createOp \in [Workspaces -> Outcome]
    /\ disk     \in [Workspaces -> [Repos -> Contents]]
    /\ dir      \in [Workspaces -> BOOLEAN]
    /\ pc       \in [Processes -> Label]
    /\ mem      \in [Processes -> Memory]
    /\ issued   \subseteq Claims
    /\ held     \in [Claims -> Workspaces \cup {None}]

\* Whatever the interleaving, the deaths and the suspensions: a claim that a
\* user was given and has not lost to a release of that very claim or to a
\* forced removal is still the active claim of its workspace.  So no two users
\* hold one workspace, and neither collection, recovery nor a rollback ends a
\* claim (src/workspace.rs, src/gc.rs).
HeldClaimsAreActive ==
    \A c \in Claims : held[c] # None => claim[held[c]] = c

\* The claims of the database and what users know of them behave as the
\* abstract ledger: the inserts of src/storage/repository.rs never replace a
\* claim, and no process confirms a claim that another one has dropped.
Ledger == INSTANCE ClaimLedger WITH active <- claim, spent <- issued, user <- held
ClaimsFollowLedger == Ledger!LedgerSpec

\* A creation reaches one terminal outcome, once: no process recovers, rolls
\* back or finalizes a creation that another one has finished
\* (claim_expired_operation, finish_operation_in_transaction).
OneCreationOutcome ==
    [][\A w \in Workspaces :
          createOp[w] \in {"succeeded", "failed", "rolled_back"} =>
              createOp'[w] = createOp[w]]_vars

\* The steps at which a process changes what is on disk.
PhysicalLabel == {"align_checkout", "cr_mkdir", "cr_add", "rb_remove", "rb_dir",
                  "rv_remove", "rv_dir", "rm_remove", "rm_renew"}

\* If no process outlives its lease, whoever is about to change the disk of a
\* workspace still has its operation: two processes never work on the files
\* of one workspace (openspec/specs/workspace-lifecycle: Serialize Mutations
\* Per Workspace).
PhysicalWorkIsLeased ==
    \A p \in Processes : pc[p] \in PhysicalLabel => Holds(p)

ForcedRemovalOf(w) ==
    \E p \in Processes : /\ pc[p] = "rm_remove" /\ Ws(p) = w
                         /\ mem[p].cmd = "remove" /\ Forced(p)

\* No step of a process deletes a worktree of a workspace that a user holds,
\* or the local changes in it, except a forced explicit removal
\* (docs/cleanup.md).
HeldFilesSurvive ==
    [][\A c \in Claims, w \in Workspaces, r \in Repos :
          /\ held[c] = w
          /\ \/ disk[w][r] # "absent" /\ disk'[w][r] = "absent"
             \/ disk[w][r] = "dirty" /\ disk'[w][r] # "dirty"
          => UNCHANGED control \/ ForcedRemovalOf(w)]_vars

\* A user who is given a workspace finds every worktree in it
\* (record_workspace_acquire, publish_explicit_claim,
\* finalize_automatic_creation).
GrantedWorkspacesAreComplete ==
    [][\A c \in Claims, w \in Workspaces :
          held[c] # w /\ held'[c] = w => Present(w) = Repos]_vars

\* A tombstone stays a tombstone (docs/cleanup.md).
RemovedIsFinal ==
    [][\A w \in Workspaces : wsState[w] = "removed" => wsState'[w] = "removed"]_vars

\* Collection removes no worktree of a claimed workspace (docs/cleanup.md).
CollectionSparesClaimed ==
    [][\A p \in Processes :
          /\ pc[p] = "rm_remove" /\ pc'[p] # pc[p]
          /\ mem[p].cmd = "gc" /\ claim[Ws(p)] # None
          => UNCHANGED disk]_vars

\* Observing a worktree twice without a change in between records nothing
\* new (openspec/specs/workspace-lifecycle: Reconcile External Git Changes).
ObservationIsIdempotent ==
    \A w \in Workspaces, r \in Repos :
        LET once == Observe(row[w][r], disk[w][r])
        IN  Observe(once, disk[w][r]) = once

\* A ready workspace without a running operation has all its worktrees
\* recorded as attached (openspec/specs/workspace-lifecycle: Mark a
\* Successful Workspace).
ReadyMeansAttached ==
    \A w \in Workspaces : wsState[w] = "ready" /\ ~Running(w) =>
        \A r \in Repos : row[w][r].st = "attached"

-----------------------------------------------------------------------------
(* Liveness: a process that runs a command keeps running until it dies. *)

FairSpec == Spec /\ \A p \in Processes : WF_vars(pc[p] # "idle" /\ Work(p))

\* Every command ends, whatever the others do to its workspace: no command
\* waits for another one or retries forever.
CommandsEnd == \A p \in Processes : pc[p] # "idle" ~> pc[p] = "idle"
=============================================================================
