------------------------------- MODULE Access -------------------------------
(***************************************************************************)
(* src/workspace.rs: the commands that hand workspaces to users and take   *)
(* them back - the acquisition of an idle pooled workspace, the explicit   *)
(* claim, the release - and the explicit reconciliation of                 *)
(* src/reconciliation.rs.  Each admits itself with an operation lease,     *)
(* works outside any transaction, and re-validates when it commits.        *)
(***************************************************************************)
EXTENDS Reconciliation

-----------------------------------------------------------------------------
(* allocate_automatic_workspace: one idle candidate. *)

\* list_automatic_workspace_candidates selects the recorded Ready workspaces
\* of the pool; expired operations on them are recovered first.
AllocateStart(p) ==
    /\ pc[p] = "idle"
    /\ "allocate" \in Commands
    /\ \E w \in Automatic, c \in Claims :
        /\ wsState[w] = "ready"
        /\ FreshClaim(c)
        /\ Step(p, "recover",
                [Blank EXCEPT !.cmd = "allocate", !.ws = w, !.claim = c])
    /\ UNCHANGED <<db, files, history>>

\* A candidate with a running operation or a claim is passed over.
AllocateAdmit(p) ==
    /\ pc[p] = "al_admit"
    /\ IF Running(Ws(p)) \/ claim[Ws(p)] # None
       THEN End(p)
       ELSE Step(p, "al_begin", mem[p])
    /\ UNCHANGED <<db, files, history>>

\* begin_operation or try_begin_operation of an access command, then its
\* reconciliation; a workspace whose lease row exists is busy.
BeginOf(p) == CASE pc[p] = "al_begin" -> "acquire"
                [] pc[p] = "cl_begin" -> "claim"
                [] OTHER              -> "release"

AccessBegin(p) ==
    /\ pc[p] \in {"al_begin", "cl_begin", "rl_begin"}
    /\ IF Running(Ws(p))
       THEN End(p) /\ UNCHANGED lease
       ELSE /\ InsertLease(p, BeginOf(p))
            /\ LET m == [mem[p] EXCEPT !.own = TRUE]
               IN  CASE BeginOf(p) = "acquire" -> CallReconcile(p, "al_check", m)
                     [] BeginOf(p) = "claim"   -> Step(p, "cl_inspect", m)
                     [] OTHER                  -> CallReconcile(p, "rl_check", m)
    /\ UNCHANGED <<wsState, row, claim, createOp, files, history>>

\* validate_acquire_boundary
AcquireBoundaryOk(p) == mem[p].sum = "ready" /\ claim[Ws(p)] = None

AllocateCheck(p) ==
    /\ pc[p] = "al_check"
    /\ Step(p, IF AcquireBoundaryOk(p) THEN "align_plan" ELSE "fail_op", mem[p])
    /\ UNCHANGED <<db, files, history>>

\* record_workspace_acquire: the claim is unique per workspace.  The
\* operation is finished by the next transaction.
AllocateClaim(p) ==
    /\ pc[p] = "al_claim"
    /\ \/ /\ Holds(p) /\ claim[Ws(p)] = None
          /\ claim'  = [claim EXCEPT ![Ws(p)] = mem[p].claim]
          /\ issued' = issued \cup {mem[p].claim}
          /\ Step(p, "al_finish", mem[p])
       \/ /\ Faults \/ ~(Holds(p) /\ claim[Ws(p)] = None)
          /\ UNCHANGED <<claim, issued>>
          /\ Step(p, "fail_op", mem[p])
    /\ UNCHANGED <<wsState, row, lease, createOp, files, held>>

\* The user learns the claim only when the operation succeeded.
AllocateFinish(p) ==
    /\ pc[p] = "al_finish"
    /\ IF Holds(p)
       THEN /\ CloseOperation(p, "succeeded")
            /\ held' = [held EXCEPT ![mem[p].claim] = Ws(p)]
            /\ End(p)
       ELSE UNCHANGED <<lease, createOp, held>> /\ Step(p, "fail_op", mem[p])
    /\ UNCHANGED <<wsState, row, claim, files, issued>>

-----------------------------------------------------------------------------
(* claim_automatic_workspace *)

\* Mutant of ClaimableMetadata: the claim is not looked up again.
HealthyMetadata(w) ==
    /\ w \in Automatic
    /\ wsState[w] \in {"ready", "degraded"}
    /\ \A r \in Repos : row[w][r].st # "removed"

\* validate_claim_metadata; the live rows must still be the repository set of
\* the pool.
ClaimableMetadata(w) ==
    /\ w \in Automatic
    /\ wsState[w] \in {"ready", "degraded"}
    /\ claim[w] = None
    /\ \A r \in Repos : row[w][r].st # "removed"

\* Mutant of ClaimableStructure: the rows are believed.
RecordedStructure(w) ==
    \A r \in Repos : row[w][r].st \notin {"pending", "failed"}

\* validate_claim_structure: unfinished worktrees and unregistered paths are
\* refused, local changes are not.
ClaimableStructure(w) ==
    \A r \in Repos : /\ row[w][r].st \notin {"pending", "failed"}
                     /\ disk[w][r] # "absent"

\* Even an expired lease blocks an explicit claim.
ClaimStart(p) ==
    /\ pc[p] = "idle"
    /\ "claim" \in Commands
    /\ \E w \in Workspaces, c \in Claims :
        /\ ClaimableMetadata(w) /\ ~Running(w)
        /\ FreshClaim(c)
        /\ Step(p, "cl_begin",
                [Blank EXCEPT !.cmd = "claim", !.ws = w, !.claim = c])
    /\ UNCHANGED <<db, files, history>>

\* The structure is inspected before and after the reconciliation.
ClaimInspect(p) ==
    /\ pc[p] \in {"cl_inspect", "cl_reinspect"}
    /\ \/ /\ ClaimableStructure(Ws(p))
          /\ IF pc[p] = "cl_inspect"
             THEN /\ ClaimableMetadata(Ws(p))
                  /\ CallReconcile(p, "cl_reinspect", mem[p])
             ELSE /\ mem[p].sum # "error"
                  /\ Step(p, "cl_publish", mem[p])
       \/ /\ \/ CommandMayFail(p)
             \/ ~ClaimableStructure(Ws(p))
             \/ pc[p] = "cl_inspect" /\ ~ClaimableMetadata(Ws(p))
             \/ pc[p] = "cl_reinspect" /\ mem[p].sum = "error"
          /\ Step(p, "fail_op", mem[p])
    /\ UNCHANGED <<db, files, history>>

\* publish_explicit_claim: one transaction checks the lease and the metadata
\* again, inserts the claim and finishes the operation.
ClaimPublish(p) ==
    /\ pc[p] = "cl_publish"
    /\ IF Holds(p) /\ ClaimableMetadata(Ws(p))
       THEN /\ claim'  = [claim EXCEPT ![Ws(p)] = mem[p].claim]
            /\ issued' = issued \cup {mem[p].claim}
            /\ held'   = [held EXCEPT ![mem[p].claim] = Ws(p)]
            /\ CloseOperation(p, "succeeded")
            /\ End(p)
       ELSE UNCHANGED <<claim, lease, createOp, history>> /\ Step(p, "fail_op", mem[p])
    /\ UNCHANGED <<wsState, row, files>>

-----------------------------------------------------------------------------
(* release_automatic_workspace *)

\* By claim identity or by path, which selects the active claim.
ReleaseStart(p) ==
    /\ pc[p] = "idle"
    /\ "release" \in Commands
    /\ \E w \in Automatic :
        /\ claim[w] # None
        /\ Step(p, "rl_begin",
                [Blank EXCEPT !.cmd = "release", !.ws = w, !.claim = claim[w]])
    /\ UNCHANGED <<db, files, history>>

ReleaseCheck(p) ==
    /\ pc[p] = "rl_check"
    /\ Step(p, IF mem[p].sum # "error" /\ claim[Ws(p)] = mem[p].claim
               THEN "align_plan" ELSE "fail_op", mem[p])
    /\ UNCHANGED <<db, files, history>>

\* record_workspace_release: one transaction deletes the claim, makes the
\* workspace Ready and finishes the operation, or does nothing.
ReleaseAllowed(p) ==
    /\ Holds(p)
    /\ claim[Ws(p)] = mem[p].claim
    /\ \A r \in Repos : /\ row[Ws(p)][r].st = "attached"
                        /\ row[Ws(p)][r].head # "none"

ReleaseRecord(p) ==
    /\ pc[p] = "rl_record"
    /\ IF ReleaseAllowed(p)
       THEN /\ claim' = [claim EXCEPT ![Ws(p)] = None]
            /\ held'  = [held EXCEPT ![mem[p].claim] = None]
            /\ SetWorkspace(p, "ready")
            /\ CloseOperation(p, "succeeded")
            /\ End(p)
       ELSE /\ UNCHANGED <<wsState, claim, lease, createOp, held>>
            /\ Step(p, "fail_op", mem[p])
    /\ UNCHANGED <<row, files, issued>>

-----------------------------------------------------------------------------
(* Alignment of the worktrees to the base revision, shared by both. *)

\* prepare_worktree_alignments: nothing is changed unless every worktree is
\* present and clean.  Only the fetch of a release renews the lease.
\* todo: the rows to record, done: those to check out.
AlignPlan(p) ==
    /\ pc[p] = "align_plan"
    /\ \/ LET content(r) == disk[Ws(p)][r]
              checkout   == {r \in Repos : content(r) # "clean"}
              record     == {r \in Repos : row[Ws(p)][r] #
                                           [st |-> "attached", head |-> "base"]}
          IN  /\ \A r \in Repos : content(r) \in {"clean", "branch", "moved"}
              /\ Step(p, "align_step", [mem[p] EXCEPT !.todo = checkout \cup record,
                                                      !.done = checkout])
       \/ /\ \/ Faults
             \/ mem[p].cmd = "release" /\ ~Holds(p)
             \/ \E r \in Repos : disk[Ws(p)][r] \in {"absent", "dirty"}
          /\ Step(p, "fail_op", mem[p])
    /\ UNCHANGED <<db, files, history>>

\* persist_operation_step_intent before a checkout.
AlignStep(p) ==
    /\ pc[p] = "align_step"
    /\ \E r \in mem[p].todo :
        LET checkout == r \in mem[p].done
        IN  Step(p, CASE checkout /\ Holds(p)  -> "align_checkout"
                      [] checkout /\ ~Holds(p) -> "fail_op"
                      [] OTHER                 -> "align_record",
                 [mem[p] EXCEPT !.todo = @ \ {r}, !.cur = r])
    /\ UNCHANGED <<db, files, history>>

\* git checkout --detach keeps local changes made since the plan.
AlignCheckout(p) ==
    /\ pc[p] = "align_checkout"
    /\ LET content == disk[Ws(p)][mem[p].cur]
       IN  \/ /\ content # "absent"
              /\ SetDisk(p, mem[p].cur, IF content = "dirty" THEN "dirty" ELSE "clean")
              /\ Step(p, "align_record", mem[p])
           \/ /\ CommandMayFail(p) \/ content = "absent"
              /\ UNCHANGED disk
              /\ Step(p, "fail_op", mem[p])
    /\ UNCHANGED <<db, dir, history>>

\* record_worktree_step_result
AlignRecord(p) ==
    /\ pc[p] = "align_record"
    /\ IF Holds(p)
       THEN /\ SetRow(p, mem[p].cur, [st |-> "attached", head |-> "base"])
            /\ Step(p, "align_step", [mem[p] EXCEPT !.cur = None])
       ELSE UNCHANGED row /\ Step(p, "fail_op", mem[p])
    /\ UNCHANGED <<wsState, claim, lease, createOp, files, history>>

AlignDone(p) ==
    /\ pc[p] = "align_step"
    /\ mem[p].todo = {}
    /\ Step(p, IF mem[p].cmd = "allocate" THEN "al_claim" ELSE "rl_record",
            [mem[p] EXCEPT !.done = {}])
    /\ UNCHANGED <<db, files, history>>

-----------------------------------------------------------------------------
(* trees reconcile *)

ExplicitReconcileStart(p) ==
    /\ pc[p] = "idle"
    /\ "reconcile" \in Commands
    /\ \E w \in Workspaces :
        /\ wsState[w] \notin {"none", "removed"}
        /\ Step(p, "recover", [Blank EXCEPT !.cmd = "reconcile", !.ws = w])
    /\ UNCHANGED <<db, files, history>>

ExplicitReconcileBegin(p) ==
    /\ pc[p] = "rec_begin"
    /\ IF Running(Ws(p)) \/ wsState[Ws(p)] = "removed"
       THEN End(p) /\ UNCHANGED lease
       ELSE /\ InsertLease(p, "reconcile")
            /\ CallReconcile(p, "rec_close", [mem[p] EXCEPT !.own = TRUE])
    /\ UNCHANGED <<wsState, row, claim, createOp, files, history>>

ExplicitReconcileClose(p) ==
    /\ pc[p] = "rec_close"
    /\ TryCloseOperation(p, IF mem[p].sum = "error" THEN "failed" ELSE "succeeded")
    /\ End(p)
    /\ UNCHANGED <<wsState, row, claim, files, history>>

-----------------------------------------------------------------------------
AccessNext(p) ==
    \/ AllocateStart(p) \/ AllocateAdmit(p) \/ AllocateCheck(p)
    \/ AllocateClaim(p) \/ AllocateFinish(p)
    \/ AccessBegin(p)
    \/ ClaimStart(p) \/ ClaimInspect(p) \/ ClaimPublish(p)
    \/ ReleaseStart(p) \/ ReleaseCheck(p) \/ ReleaseRecord(p)
    \/ AlignPlan(p) \/ AlignStep(p) \/ AlignCheckout(p) \/ AlignRecord(p)
    \/ AlignDone(p)
    \/ ExplicitReconcileStart(p) \/ ExplicitReconcileBegin(p)
    \/ ExplicitReconcileClose(p)
=============================================================================
