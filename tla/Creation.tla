------------------------------ MODULE Creation ------------------------------
(***************************************************************************)
(* src/workspace.rs: automatic provisioning, which creates a workspace     *)
(* together with its claim ("provision"), and manual creation ("create"),  *)
(* with their rollback.                                                    *)
(***************************************************************************)
EXTENDS Reconciliation

Provisioning(p) == mem[p].cmd = "provision"

\* next_generated_workspace gives provisioning a path nobody has.
ProvisionStart(p) ==
    /\ pc[p] = "idle"
    /\ "provision" \in Commands
    /\ \E w \in Automatic, c \in Claims :
        /\ wsState[w] = "none"
        /\ FreshClaim(c)
        /\ \A q \in Processes : Ws(q) # w
        /\ Step(p, "cr_begin",
                [Blank EXCEPT !.cmd = "provision", !.ws = w, !.claim = c])
    /\ UNCHANGED <<db, files, history>>

\* reconcile_before_creation: an expired operation at that path is recovered.
CreateStart(p) ==
    /\ pc[p] = "idle"
    /\ "create" \in Commands
    /\ \E w \in Workspaces \ Automatic :
        Step(p, "recover", [Blank EXCEPT !.cmd = "create", !.ws = w])
    /\ UNCHANGED <<db, files, history>>

\* initialize_creation_with_mode: one transaction for every row.
CreateBegin(p) ==
    /\ pc[p] = "cr_begin"
    /\ IF wsState[Ws(p)] # "none"
       THEN UNCHANGED <<wsState, row, claim, lease, createOp, issued>> /\ End(p)
       ELSE /\ SetWorkspace(p, "creating")
            /\ row' = [row EXCEPT ![Ws(p)] =
                          [r \in Repos |-> [st |-> "pending", head |-> "base"]]]
            /\ InsertLease(p, "create")
            /\ createOp' = [createOp EXCEPT ![Ws(p)] = "running"]
            /\ claim' = [claim EXCEPT ![Ws(p)] = mem[p].claim]
            /\ issued' = issued \cup ({mem[p].claim} \ {None})
            /\ CallReconcile(p, "cr_mkdir", [mem[p] EXCEPT !.own = TRUE])
    /\ UNCHANGED <<files, held>>

\* fail_creation: the worktree that failed, if any, and the completed ones
\* are removed; keep: the directory is not ours to remove.
Rollback(p, m, failed, keep) ==
    LET todo == m.done \cup failed
    IN  Step(p, IF todo = {} THEN "rb_dir" ELSE "rb_remove",
             [m EXCEPT !.todo = todo, !.done = failed, !.keep = keep, !.err = FALSE])

\* The reconciliation before the first worktree: manual creation returns its
\* error and leaves the operation to recovery.
CreateMkdir(p) ==
    /\ pc[p] = "cr_mkdir"
    /\ \/ /\ mem[p].sum = "error"
          /\ UNCHANGED dir
          /\ IF Provisioning(p) THEN Rollback(p, mem[p], {}, FALSE) ELSE End(p)
       \/ /\ mem[p].sum # "error"
          /\ dir' = [dir EXCEPT ![Ws(p)] = ~RootIsWorktree]
          /\ Step(p, "cr_intent", mem[p])
       \/ /\ mem[p].sum # "error" /\ ~RootIsWorktree /\ Faults
          /\ \E made \in BOOLEAN :
              /\ dir' = [dir EXCEPT ![Ws(p)] = made]
              /\ Rollback(p, mem[p], {}, ~made)
    /\ UNCHANGED <<db, disk, history>>

\* execute_repository_step, first transaction.
CreateIntent(p) ==
    /\ pc[p] = "cr_intent"
    /\ \E r \in Repos \ mem[p].done :
        LET m == [mem[p] EXCEPT !.cur = r]
        IN  IF Holds(p) THEN Step(p, "cr_add", m) ELSE Rollback(p, m, {r}, FALSE)
    /\ UNCHANGED <<db, files, history>>

\* git worktree add; one that is killed may leave part of a worktree.
CreateAdd(p) ==
    /\ pc[p] = "cr_add"
    /\ LET r == mem[p].cur
       IN  \/ /\ disk[Ws(p)][r] = "absent"
              /\ SetDisk(p, r, "clean")
              /\ Step(p, "cr_attach", mem[p])
           \/ /\ CommandMayFail(p) \/ disk[Ws(p)][r] # "absent"
              /\ UNCHANGED disk \/ (disk[Ws(p)][r] = "absent" /\ SetDisk(p, r, "dirty"))
              /\ Rollback(p, mem[p], {r}, FALSE)
    /\ UNCHANGED <<db, dir, history>>

\* record_worktree_step_result, then a reconciliation.
CreateAttach(p) ==
    /\ pc[p] = "cr_attach"
    /\ LET r == mem[p].cur
           content == disk[Ws(p)][r]
       IN  \/ /\ Holds(p) /\ content # "absent"
              /\ SetRow(p, r, [st |-> "attached", head |-> HeadOf(content)])
              /\ CallReconcile(p, "cr_next", mem[p])
           \/ /\ CommandMayFail(p) \/ content = "absent"
              /\ UNCHANGED row
              /\ Rollback(p, mem[p], {r}, FALSE)
    /\ UNCHANGED <<wsState, claim, lease, createOp, files, history>>

CreateNext(p) ==
    /\ pc[p] = "cr_next"
    /\ LET done == mem[p].done \cup {mem[p].cur}
       IN  IF mem[p].sum = "error"
           THEN Rollback(p, mem[p], {mem[p].cur}, FALSE)
           ELSE IF done = Repos
           THEN CallReconcile(p, "cr_final", [mem[p] EXCEPT !.done = done, !.cur = None])
           ELSE Step(p, "cr_intent", [mem[p] EXCEPT !.done = done, !.cur = None])
    /\ UNCHANGED <<db, files, history>>

\* finalize_automatic_creation wants a healthy workspace and the claim it
\* inserted; finalize_creation wants neither.
CanFinalize(p) ==
    /\ Holds(p)
    /\ mem[p].sum # "error"
    /\ Provisioning(p) => mem[p].sum = "ready" /\ claim[Ws(p)] = mem[p].claim

CreateFinalize(p) ==
    /\ pc[p] = "cr_final"
    /\ IF CanFinalize(p)
       THEN /\ CloseOperation(p, "succeeded")
            /\ SetWorkspace(p, "ready")
            /\ held' = IF Provisioning(p)
                       THEN [held EXCEPT ![mem[p].claim] = Ws(p)] ELSE held
            /\ End(p)
       ELSE /\ UNCHANGED <<wsState, lease, createOp, held>>
            /\ IF Provisioning(p) THEN Rollback(p, mem[p], {}, FALSE) ELSE End(p)
    /\ UNCHANGED <<row, claim, files, issued>>

-----------------------------------------------------------------------------
(* rollback_creation *)

\* rollback_repository: the removal starts without asking for the lease.  An
\* inspection error is an error except for the repository that failed.
RollbackRemove(p) ==
    /\ pc[p] = "rb_remove"
    /\ \E r \in mem[p].todo :
        LET content == disk[Ws(p)][r]
            next(err) == Step(p, "rb_row", [mem[p] EXCEPT !.todo = @ \ {r}, !.cur = r,
                                                         !.err = @ \/ err])
        IN  \/ /\ content = "absent"
               /\ UNCHANGED disk /\ next(FALSE)
            \/ /\ content = "branch"
               /\ UNCHANGED disk /\ next(TRUE)
            \/ /\ Detached(content)
               /\ GitRemove(p, r) /\ next(FALSE)
            \/ /\ Detached(content) /\ CommandMayFail(p)
               /\ GitRemoveFails(p, r) /\ next(TRUE)
            \/ /\ Faults
               /\ UNCHANGED disk /\ next(r \notin mem[p].done)
    /\ UNCHANGED <<db, dir, history>>

RollbackRow(p) ==
    /\ pc[p] = "rb_row"
    /\ SetRow(p, mem[p].cur, Unobservable)
    /\ Step(p, IF mem[p].todo = {} THEN "rb_dir" ELSE "rb_remove", mem[p])
    /\ UNCHANGED <<wsState, claim, lease, createOp, files, history>>

RollbackDirectory(p) ==
    /\ pc[p] = "rb_dir"
    /\ \/ /\ mem[p].keep \/ ~RootExists(Ws(p))
          /\ UNCHANGED dir
          /\ Step(p, "rb_claim", mem[p])
       \/ /\ ~mem[p].keep
          /\ RemoveRoot(p)
          /\ Step(p, "rb_claim", mem[p])
       \/ /\ ~mem[p].keep
          /\ RemoveRootFails(p)
          /\ UNCHANGED dir
          /\ Step(p, "rb_claim", [mem[p] EXCEPT !.err = TRUE])
    /\ UNCHANGED <<db, disk, history>>

\* Mutant of OwnClaim: the workspace, not the claim, selects the row.
AnyClaim(p) == claim[Ws(p)] # None

\* Only the claim of this creation is deleted, and no lease is checked.
OwnClaim(p) == claim[Ws(p)] = mem[p].claim

RollbackClaim(p) ==
    /\ pc[p] = "rb_claim"
    /\ IF Provisioning(p) /\ OwnClaim(p)
       THEN claim' = [claim EXCEPT ![Ws(p)] = None] /\ Step(p, "rb_op", mem[p])
       ELSE /\ UNCHANGED claim
            /\ Step(p, "rb_op", [mem[p] EXCEPT !.err = @ \/ Provisioning(p)])
    /\ UNCHANGED <<wsState, row, lease, createOp, files, history>>

RollbackOperation(p) ==
    /\ pc[p] = "rb_op"
    /\ TryCloseOperation(p, IF mem[p].err THEN "failed" ELSE "rolled_back")
    /\ Step(p, "rb_ws", mem[p])
    /\ UNCHANGED <<wsState, row, claim, files, history>>

\* Written even when the operation had been lost to another process.
RollbackWorkspace(p) ==
    /\ pc[p] = "rb_ws"
    /\ SetWorkspace(p, "failed")
    /\ End(p)
    /\ UNCHANGED <<row, claim, lease, createOp, files, history>>

-----------------------------------------------------------------------------
CreationNext(p) ==
    \/ ProvisionStart(p) \/ CreateStart(p) \/ CreateBegin(p) \/ CreateMkdir(p)
    \/ CreateIntent(p) \/ CreateAdd(p) \/ CreateAttach(p) \/ CreateNext(p)
    \/ CreateFinalize(p)
    \/ RollbackRemove(p) \/ RollbackRow(p) \/ RollbackDirectory(p)
    \/ RollbackClaim(p) \/ RollbackOperation(p) \/ RollbackWorkspace(p)
=============================================================================
