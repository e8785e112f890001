--------------------------- MODULE Reconciliation ---------------------------
(***************************************************************************)
(* src/reconciliation.rs: the observation of one workspace, and the        *)
(* recovery of an operation whose lease has expired.  Both are subroutines *)
(* of the commands; each write is a transaction of its own, so other       *)
(* processes run between any two steps.                                    *)
(***************************************************************************)
EXTENDS TreesStore

-----------------------------------------------------------------------------
(* Observation. *)

\* The record that observing content makes of a worktree whose row is r0.
Observe(r0, content) ==
    IF content = "absent"
    THEN IF r0.st = "pending" THEN r0 ELSE [st |-> "missing", head |-> "none"]
    ELSE [st   |-> IF Detached(content) /\ HeadOf(content) = r0.head
                   THEN IF content = "dirty" THEN "dirty" ELSE "attached"
                   ELSE "diverged",
          head |-> HeadOf(content)]

\* An inspection command that fails is recorded as a failed worktree.
Unobservable == [st |-> "failed", head |-> "none"]

Observations(r0, content) ==
    {Observe(r0, content)} \cup (IF Faults THEN {Unobservable} ELSE {})

\* The state of a workspace whose worktrees were observed as rows; tidy: its
\* directory holds nothing but them.
Health(rows, tidy) ==
    LET states == {rows[r].st : r \in Repos}
    IN  IF states \cap {"dirty", "missing", "diverged", "failed", "removed"} # {}
        THEN "degraded"
        ELSE IF states # {"attached"} THEN "creating"
        ELSE IF tidy THEN "ready" ELSE "degraded"

\* Back to the caller; sum is "error" or the observed state.
Return(p, sum) ==
    Step(p, mem[p].ret, [mem[p] EXCEPT !.rows = NoRows, !.todo = {}, !.at = None,
                                       !.ret = "idle", !.sum = sum])

\* Read the workspace and its worktree rows.  A tombstone is left alone.
ReconcileRead(p) ==
    /\ pc[p] = "rc_read"
    /\ IF wsState[Ws(p)] = "removed"
       THEN Return(p, "removed")
       ELSE Step(p, "rc_observe", [mem[p] EXCEPT !.rows = row[Ws(p)], !.todo = Repos])
    /\ UNCHANGED <<db, files, history>>

\* Inspect one worktree; a difference from the row read earlier is written.
ReconcileObserve(p) ==
    /\ pc[p] = "rc_observe"
    /\ \E r \in mem[p].todo, seen \in Row :
        /\ seen \in Observations(mem[p].rows[r], disk[Ws(p)][r])
        /\ Step(p, IF seen = mem[p].rows[r] THEN "rc_observe" ELSE "rc_write",
                [mem[p] EXCEPT !.rows[r] = seen, !.todo = @ \ {r}, !.at = r])
    /\ UNCHANGED <<db, files, history>>

\* An inspection that lasts longer than the lease is given up.
ReconcileAbort(p) ==
    /\ pc[p] = "rc_observe"
    /\ mem[p].todo # {}
    /\ ~Holds(p)
    /\ Return(p, "error")
    /\ UNCHANGED <<db, files, history>>

ReconcileWrite(p) ==
    /\ pc[p] = "rc_write"
    /\ SetRow(p, mem[p].at, mem[p].rows[mem[p].at])
    /\ Step(p, "rc_observe", mem[p])
    /\ UNCHANGED <<wsState, claim, lease, createOp, files, history>>

\* The workspace state is written whether or not it changed.
ReconcileFinish(p) ==
    /\ pc[p] = "rc_observe"
    /\ mem[p].todo = {}
    /\ \E tidy \in {TRUE, ~Faults} :
        LET state == Health(mem[p].rows, tidy)
        IN  SetWorkspace(p, state) /\ Return(p, state)
    /\ UNCHANGED <<row, claim, lease, createOp, files, history>>

-----------------------------------------------------------------------------
(* Recovery of an expired operation. *)

\* Back to the command that asked for recovery.  Recovery that returned no
\* error leaves the process without a token.
GoOn(p) ==
    Step(p, CASE mem[p].cmd = "allocate"  -> "al_admit"
              [] mem[p].cmd = "create"    -> "cr_begin"
              [] mem[p].cmd = "reconcile" -> "rec_begin"
              [] mem[p].cmd = "gc"        -> "gc_scan"
              [] OTHER                    -> "rm_refresh",
         [mem[p] EXCEPT !.own = FALSE, !.seen = NoLease, !.rows = NoRows,
                        !.todo = {}, !.done = {}, !.cur = None, !.sum = "none",
                        !.err = FALSE])

\* Mutant of AfterRecovery: wait for an operation whose lease is not over.
WaitForLease(p, outcome) ==
    IF outcome = "active" THEN Step(p, "recover", mem[p]) ELSE GoOn(p)

\* What allocation and manual creation do next depends on the outcome, the
\* others go on in any case.
AfterRecovery(p, outcome) ==
    IF outcome = "active" /\ mem[p].cmd \in {"allocate", "create"}
    THEN End(p)
    ELSE GoOn(p)

\* Access recovery refuses operations that own worktrees.
RecoverRead(p) ==
    /\ pc[p] = "recover"
    /\ LET l == lease[Ws(p)]
       IN  IF ~Running(Ws(p)) THEN AfterRecovery(p, "none")
           ELSE IF l.live THEN AfterRecovery(p, "active")
           ELSE IF mem[p].cmd = "reconcile" /\ l.kind = "create" THEN End(p)
           ELSE Step(p, "takeover", [mem[p] EXCEPT !.seen = l])
    /\ UNCHANGED <<db, files, history>>

\* Mutants of CanTakeOver: the token is not compared; a lease that is gone is
\* taken for an expired one.
TakesAnyLease(p) == TRUE
TakesFinished(p) == lease[Ws(p)] \in {NoLease, mem[p].seen}

\* claim_expired_operation: the lease must still be the expired one that was
\* read; its token is replaced.
CanTakeOver(p) == lease[Ws(p)] = mem[p].seen

TakeOver(p) ==
    /\ pc[p] = "takeover"
    /\ IF CanTakeOver(p)
       THEN /\ InsertLease(p, mem[p].seen.kind)
            /\ IF mem[p].seen.kind = "create"
               THEN Step(p, "rv_observe",
                         [mem[p] EXCEPT !.own = TRUE, !.rows = row[Ws(p)]])
               ELSE CallReconcile(p, "rv_close", [mem[p] EXCEPT !.own = TRUE])
       ELSE /\ AfterRecovery(p, "active")
            /\ UNCHANGED lease
    /\ UNCHANGED <<wsState, row, claim, createOp, files, history>>

\* recover_non_creation_operation: after the observation, the operation
\* fails; its claim, if it had inserted one, stays.
RecoverClose(p) ==
    /\ pc[p] = "rv_close"
    /\ IF mem[p].sum # "error" /\ Holds(p)
       THEN CloseOperation(p, "failed") /\ AfterRecovery(p, "failed")
       ELSE UNCHANGED <<lease, createOp>> /\ End(p)
    /\ UNCHANGED <<wsState, row, claim, files, history>>

\* What an interrupted creation has left.  todo: the rows to bring up to date
\* if it was complete, else every row, with the worktrees to remove in done.
RecoverObserve(p) ==
    /\ pc[p] = "rv_observe"
    /\ \E unsafe \in SUBSET (IF Faults THEN Repos ELSE {}) :
        LET content(r) == disk[Ws(p)][r]
            complete   == \A r \in Repos \ unsafe :
                              CleanAt(content(r), mem[p].rows[r].head)
            owned      == Present(Ws(p)) \ unsafe
            refused    == {r \in owned : ~Detached(content(r))}
        IN  IF complete /\ unsafe = {}
            THEN Step(p, "rv_attach",
                      [mem[p] EXCEPT !.todo = {r \in Repos :
                                                   mem[p].rows[r].st # "attached"}])
            ELSE Step(p, "rv_renew",
                      [mem[p] EXCEPT !.todo = Repos, !.done = owned \ refused,
                                     !.err = unsafe \cup refused # {}])
    /\ UNCHANGED <<db, files, history>>

RecoverAbort(p) ==
    /\ pc[p] = "rv_observe"
    /\ ~Holds(p)
    /\ End(p)
    /\ UNCHANGED <<db, files, history>>

RecoverAttach(p) ==
    /\ pc[p] = "rv_attach"
    /\ \E r \in mem[p].todo :
        /\ SetRow(p, r, [mem[p].rows[r] EXCEPT !.st = "attached"])
        /\ Step(p, "rv_attach", [mem[p] EXCEPT !.todo = @ \ {r}])
    /\ UNCHANGED <<wsState, claim, lease, createOp, files, history>>

\* finalize_recovered_creation; the claim of the creation stays.
RecoverFinalize(p) ==
    /\ pc[p] = "rv_attach"
    /\ mem[p].todo = {}
    /\ IF Holds(p)
       THEN /\ CloseOperation(p, "succeeded")
            /\ SetWorkspace(p, "ready")
            /\ AfterRecovery(p, "succeeded")
       ELSE UNCHANGED <<wsState, lease, createOp>> /\ End(p)
    /\ UNCHANGED <<row, claim, files, history>>

\* The lease is renewed before each removal, but the removal is a command
\* that runs later.
RecoverRenew(p) ==
    /\ pc[p] = "rv_renew"
    /\ \E r \in mem[p].todo :
        LET remove == r \in mem[p].done
        IN  Step(p, IF remove /\ Holds(p) THEN "rv_remove" ELSE "rv_row",
                 [mem[p] EXCEPT !.todo = @ \ {r}, !.cur = r,
                                !.err = @ \/ (remove /\ ~Holds(p))])
    /\ UNCHANGED <<db, files, history>>

RecoverRemove(p) ==
    /\ pc[p] = "rv_remove"
    /\ \/ /\ GitRemove(p, mem[p].cur)
          /\ Step(p, "rv_row", mem[p])
       \/ /\ CommandMayFail(p)
          /\ GitRemoveFails(p, mem[p].cur)
          /\ Step(p, "rv_row", [mem[p] EXCEPT !.err = TRUE])
    /\ UNCHANGED <<db, dir, history>>

RecoverRow(p) ==
    /\ pc[p] = "rv_row"
    /\ SetRow(p, mem[p].cur, Unobservable)
    /\ Step(p, IF mem[p].todo = {} THEN "rv_dir" ELSE "rv_renew", mem[p])
    /\ UNCHANGED <<wsState, claim, lease, createOp, files, history>>

RecoverDirectory(p) ==
    /\ pc[p] = "rv_dir"
    /\ \/ /\ mem[p].err \/ ~RootExists(Ws(p))
          /\ UNCHANGED dir
          /\ Step(p, "rv_op", mem[p])
       \/ /\ ~mem[p].err
          /\ RemoveRoot(p)
          /\ Step(p, "rv_op", mem[p])
       \/ /\ ~mem[p].err
          /\ RemoveRootFails(p)
          /\ UNCHANGED dir
          /\ Step(p, "rv_op", [mem[p] EXCEPT !.err = TRUE])
    /\ UNCHANGED <<db, disk, history>>

RecoverOperation(p) ==
    /\ pc[p] = "rv_op"
    /\ TryCloseOperation(p, IF mem[p].err THEN "failed" ELSE "rolled_back")
    /\ Step(p, "rv_ws", mem[p])
    /\ UNCHANGED <<wsState, row, claim, files, history>>

\* Written even when the operation had been lost to another process.
RecoverWorkspace(p) ==
    /\ pc[p] = "rv_ws"
    /\ SetWorkspace(p, "failed")
    /\ AfterRecovery(p, "rolled_back")
    /\ UNCHANGED <<row, claim, lease, createOp, files, history>>

-----------------------------------------------------------------------------
ReconcileNext(p) ==
    \/ ReconcileRead(p) \/ ReconcileObserve(p) \/ ReconcileAbort(p)
    \/ ReconcileWrite(p) \/ ReconcileFinish(p)

RecoverNext(p) ==
    \/ RecoverRead(p) \/ TakeOver(p) \/ RecoverClose(p)
    \/ RecoverObserve(p) \/ RecoverAbort(p)
    \/ RecoverAttach(p) \/ RecoverFinalize(p)
    \/ RecoverRenew(p) \/ RecoverRemove(p) \/ RecoverRow(p)
    \/ RecoverDirectory(p) \/ RecoverOperation(p) \/ RecoverWorkspace(p)
=============================================================================
