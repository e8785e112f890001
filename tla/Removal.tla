------------------------------ MODULE Removal -------------------------------
(***************************************************************************)
(* src/gc.rs: garbage collection of idle pooled workspaces ("gc") and the  *)
(* explicit removal of any workspace ("remove").  Both scan first, admit   *)
(* an operation, reconcile, re-validate under the lease, remove what is on *)
(* disk, and record a tombstone.  The age threshold of the collector is    *)
(* not modelled: any idle workspace may be old enough.                     *)
(***************************************************************************)
EXTENDS Reconciliation

Forced(p) == mem[p].force

\* workspace_is_unhealthy
Unhealthy(w, force) ==
    wsState[w] \in {"none", "removed"} \/ (~force /\ wsState[w] # "ready")

\* prepare_removal: without force every worktree is clean, detached and at
\* its recorded revision; only an explicit forced removal takes a branch.
Removable(w, cmd, force) ==
    \A r \in Repos :
        LET content == disk[w][r]
        IN  IF force THEN cmd = "remove" \/ content # "branch"
                     ELSE CleanAt(content, row[w][r].head)

\* Mutant of ClaimGuard: the scan has already left out claimed workspaces.
ScannedUnclaimed(w, cmd, force) == TRUE

\* The claim guard: removal with force is the one that ignores it.
ClaimGuard(w, cmd, force) == (cmd = "remove" /\ force) \/ claim[w] = None

RemovalEligible(w, cmd, force) ==
    /\ ClaimGuard(w, cmd, force)
    /\ ~Unhealthy(w, force)
    /\ Removable(w, cmd, force)

-----------------------------------------------------------------------------
(* Admission. *)

\* recover_expired_automatic_operations, then a scan.
GcStart(p) ==
    /\ pc[p] = "idle"
    /\ "gc" \in Commands
    /\ \E w \in Automatic, force \in Forces :
        /\ claim[w] = None
        /\ ~Unhealthy(w, force)
        /\ Step(p, IF Running(w) /\ ~lease[w].live THEN "recover" ELSE "gc_scan",
                [Blank EXCEPT !.cmd = "gc", !.ws = w, !.force = force])
    /\ UNCHANGED <<db, files, history>>

GcScan(p) ==
    /\ pc[p] = "gc_scan"
    /\ \/ /\ RemovalEligible(Ws(p), "gc", Forced(p)) /\ ~Running(Ws(p))
          /\ Step(p, "rm_begin", mem[p])
       \/ /\ Faults \/ ~RemovalEligible(Ws(p), "gc", Forced(p)) \/ Running(Ws(p))
          /\ End(p)
    /\ UNCHANGED <<db, files, history>>

\* scan_removal and admit_removal_preflight: an expired operation is
\* recovered before anything else is validated.
RemoveStart(p) ==
    /\ pc[p] = "idle"
    /\ "remove" \in Commands
    /\ \E w \in Workspaces, force \in Forces :
        /\ wsState[w] \notin {"none", "removed"}
        /\ ClaimGuard(w, "remove", force)
        /\ IF Running(w) THEN ~lease[w].live ELSE RemovalEligible(w, "remove", force)
        /\ Step(p, IF Running(w) THEN "recover" ELSE "rm_refresh",
                [Blank EXCEPT !.cmd = "remove", !.ws = w, !.force = force])
    /\ UNCHANGED <<db, files, history>>

RemoveRefresh(p) ==
    /\ pc[p] = "rm_refresh"
    /\ IF wsState[Ws(p)] = "removed" THEN End(p) ELSE Step(p, "rm_begin", mem[p])
    /\ UNCHANGED <<db, files, history>>

RemovalBegin(p) ==
    /\ pc[p] = "rm_begin"
    /\ IF Running(Ws(p))
       THEN End(p) /\ UNCHANGED lease
       ELSE /\ InsertLease(p, mem[p].cmd)
            /\ CallReconcile(p, "rm_check", [mem[p] EXCEPT !.own = TRUE])
    /\ UNCHANGED <<wsState, row, claim, createOp, files, history>>

-----------------------------------------------------------------------------
(* Execution. *)

\* removal_reason_while_owned, execute_started_candidate: the guards again,
\* now under the lease.  todo: the worktrees to remove.
RemovalCheck(p) ==
    /\ pc[p] = "rm_check"
    /\ IF mem[p].sum = "error" THEN Step(p, "rm_fail", mem[p])
       ELSE \/ /\ RemovalEligible(Ws(p), mem[p].cmd, Forced(p))
               /\ Step(p, "rm_renew", [mem[p] EXCEPT !.todo = Present(Ws(p))])
            \/ /\ Faults \/ ~RemovalEligible(Ws(p), mem[p].cmd, Forced(p))
               /\ Step(p, "fail_op", mem[p])
    /\ UNCHANGED <<db, files, history>>

\* A physical failure: the workspace is reconciled, whatever that returns.
GiveUp(p) == CallReconcile(p, "rm_fail", [mem[p] EXCEPT !.todo = {}])

RemovalRenew(p) ==
    /\ pc[p] = "rm_renew"
    /\ \E r \in mem[p].todo :
        IF Holds(p)
        THEN Step(p, "rm_remove", [mem[p] EXCEPT !.todo = @ \ {r}, !.cur = r])
        ELSE GiveUp(p)
    /\ UNCHANGED <<db, files, history>>

\* Without force git refuses a worktree with local changes.
RemovalRemove(p) ==
    /\ pc[p] = "rm_remove"
    /\ LET refused == ~Forced(p) /\ disk[Ws(p)][mem[p].cur] = "dirty"
       IN  \/ /\ ~refused
              /\ GitRemove(p, mem[p].cur)
              /\ Step(p, "rm_renew", mem[p])
           \/ /\ refused
              /\ UNCHANGED disk
              /\ GiveUp(p)
           \/ /\ CommandMayFail(p)
              /\ GitRemoveFails(p, mem[p].cur)
              /\ GiveUp(p)
    /\ UNCHANGED <<db, dir, history>>

RemovalDirectory(p) ==
    /\ pc[p] = "rm_renew"
    /\ mem[p].todo = {}
    /\ \/ /\ ~RootExists(Ws(p))
          /\ UNCHANGED dir
          /\ Step(p, "rm_record", mem[p])
       \/ /\ RemoveRoot(p)
          /\ Step(p, "rm_record", mem[p])
       \/ /\ RemoveRootFails(p)
          /\ UNCHANGED dir
          /\ GiveUp(p)
    /\ UNCHANGED <<db, disk, history>>

\* record_workspace_removed_by: one transaction makes the tombstones, drops
\* whatever claim there is and finishes the operation.  Only explicit forced
\* removal is meant to end a user's claim.
RemovalRecord(p) ==
    /\ pc[p] = "rm_record"
    /\ IF Holds(p)
       THEN /\ row' = [row EXCEPT ![Ws(p)] =
                          [r \in Repos |-> [row[Ws(p)][r] EXCEPT !.st = "removed"]]]
            /\ claim' = [claim EXCEPT ![Ws(p)] = None]
            /\ held' = IF mem[p].cmd = "remove" /\ Forced(p)
                       THEN [c \in Claims |-> IF held[c] = Ws(p) THEN None ELSE held[c]]
                       ELSE held
            /\ SetWorkspace(p, "removed")
            /\ CloseOperation(p, "succeeded")
            /\ End(p)
       ELSE UNCHANGED <<db, held>> /\ Step(p, "rm_fail", mem[p])
    /\ UNCHANGED <<files, issued>>

\* record_workspace_removal_failure
RemovalFail(p) ==
    /\ pc[p] = "rm_fail"
    /\ IF Holds(p)
       THEN SetWorkspace(p, "failed") /\ CloseOperation(p, "failed")
       ELSE UNCHANGED <<wsState, lease, createOp>>
    /\ End(p)
    /\ UNCHANGED <<row, claim, files, history>>

-----------------------------------------------------------------------------
RemovalNext(p) ==
    \/ GcStart(p) \/ GcScan(p) \/ RemoveStart(p) \/ RemoveRefresh(p)
    \/ RemovalBegin(p) \/ RemovalCheck(p) \/ RemovalRenew(p) \/ RemovalRemove(p)
    \/ RemovalDirectory(p) \/ RemovalRecord(p) \/ RemovalFail(p)
=============================================================================
