----------------------------- MODULE TreesTypes -----------------------------
(***************************************************************************)
(* Type correctness of Trees, for any processes, workspaces, repositories  *)
(* and claims.  TypeOK is not inductive by itself: a step stores what the  *)
(* process remembers, so the invariant says what a process may remember at *)
(* each of its steps (LocalOK).                                            *)
(***************************************************************************)
EXTENDS Trees, TLAPS

Reconciling == {"rc_read", "rc_observe", "rc_write"}

Recovering == {"recover", "takeover", "rv_close", "rv_observe", "rv_attach",
               "rv_renew", "rv_remove", "rv_row", "rv_dir", "rv_op", "rv_ws"}

\* The commands that come to each step of their own.
CommandAt(l, cmd) ==
    /\ l = "idle" <=> cmd = "none"
    /\ l \in Recovering => cmd \in {"allocate", "create", "reconcile", "gc", "remove"}
    /\ l \in {"al_admit", "al_begin", "al_check", "al_claim", "al_finish"} =>
           cmd = "allocate"
    /\ l \in {"cl_begin", "cl_inspect", "cl_reinspect", "cl_publish"} => cmd = "claim"
    /\ l \in {"rl_begin", "rl_check", "rl_record"} => cmd = "release"
    /\ l \in {"align_plan", "align_step", "align_checkout", "align_record"} =>
           cmd \in {"allocate", "release"}
    /\ l \in {"cr_begin", "cr_mkdir", "cr_intent", "cr_add", "cr_attach", "cr_next",
              "cr_final", "rb_remove", "rb_row", "rb_dir", "rb_claim", "rb_op", "rb_ws"} =>
           cmd \in {"provision", "create"}
    /\ l \in {"rec_begin", "rec_close"} => cmd = "reconcile"
    /\ l = "gc_scan" => cmd = "gc"
    /\ l = "rm_refresh" => cmd = "remove"
    /\ l \in {"rm_begin", "rm_check", "rm_renew", "rm_remove", "rm_record", "rm_fail"} =>
           cmd \in {"gc", "remove"}

\* Where a reconciliation returns to.
ReturnLabel == {"rv_close", "al_check", "cl_reinspect", "rl_check", "rec_close",
                "cr_mkdir", "cr_next", "cr_final", "rm_check", "rm_fail"}

\* The steps about one repository.
AtRepository == {"cr_add", "cr_attach", "cr_next", "rb_row", "rv_remove", "rv_row",
                 "align_checkout", "align_record", "rm_remove"}

\* What a process may remember at label l.
LocalOK(l, m) ==
    /\ l # "idle" => m.ws \in Workspaces
    /\ CommandAt(l, m.cmd)
    /\ l \in Reconciling => m.ret \in ReturnLabel /\ CommandAt(m.ret, m.cmd)
    /\ l = "takeover" => m.seen \in [kind: Kind, by: Processes, live: {FALSE}]
    /\ l = "rc_write" => m.at \in Repos
    /\ l \in AtRepository \/ (l \in Reconciling /\ m.ret = "cr_next") => m.cur \in Repos
    /\ m.cmd \in {"allocate", "provision", "claim", "release"} => m.claim \in Claims
    /\ m.cmd \notin {"allocate", "provision", "claim", "release"} => m.claim = None

Typed == TypeOK /\ \A p \in Processes : LocalOK(pc[p], mem[p])

-----------------------------------------------------------------------------
LEMMA BlankOK == Blank \in Memory /\ LocalOK("idle", Blank)
  BY StoreAssumption DEF Blank, Memory, LocalOK, CommandAt, Reconciling, Recovering, AtRepository,
     NoRows, NoRow, Row, RowState, Head, NoLease, Lease, AllCommands, WorkspaceState, Label

\* A process that steps to a label with a memory that fits it keeps the
\* processes typed.
LEMMA StepOK ==
  ASSUME Typed, NEW p \in Processes, NEW l \in Label, NEW m \in Memory,
         LocalOK(l, m), Step(p, l, m)
  PROVE  /\ pc' \in [Processes -> Label]
         /\ mem' \in [Processes -> Memory]
         /\ \A q \in Processes : LocalOK(pc'[q], mem'[q])
<1>1. pc \in [Processes -> Label] /\ mem \in [Processes -> Memory]
  BY DEF Typed, TypeOK
<1>2. pc' = [pc EXCEPT ![p] = l] /\ mem' = [mem EXCEPT ![p] = m]
  BY DEF Step
<1>3. pc' \in [Processes -> Label] /\ mem' \in [Processes -> Memory]
  BY <1>1, <1>2
<1>4. ASSUME NEW q \in Processes PROVE LocalOK(pc'[q], mem'[q])
  <2>1. CASE q = p
    BY <2>1, <1>1, <1>2
  <2>2. CASE q # p
    <3>1. pc'[q] = pc[q] /\ mem'[q] = mem[q]
      BY <2>2, <1>1, <1>2
    <3>. QED BY <3>1 DEF Typed
  <2>. QED BY <2>1, <2>2
<1>. QED BY <1>3, <1>4

\* A process that ends its command.
LEMMA EndOK ==
  ASSUME Typed, NEW p \in Processes, End(p)
  PROVE  /\ pc' \in [Processes -> Label]
         /\ mem' \in [Processes -> Memory]
         /\ \A q \in Processes : LocalOK(pc'[q], mem'[q])
<1>1. "idle" \in Label
  BY DEF Label
<1>. QED BY <1>1, BlankOK, StepOK DEF End


\* The database, the files and the history have their types.
StoreTyped ==
    /\ wsState  \in [Workspaces -> WorkspaceState]
    /\ row      \in [Workspaces -> [Repos -> Row]]
    /\ claim    \in [Workspaces -> Claims \cup {None}]
    /\ lease    \in [Workspaces -> Lease]
    /\ createOp \in [Workspaces -> Outcome]
    /\ disk     \in [Workspaces -> [Repos -> Contents]]
    /\ dir      \in [Workspaces -> BOOLEAN]
    /\ issued   \subseteq Claims
    /\ held     \in [Claims -> Workspaces \cup {None}]

Fits(l, m) == l \in Label /\ m \in Memory /\ LocalOK(l, m)

\* Process p goes to a label with a memory that fits it.
Moves(p) == \E l, m : Fits(l, m) /\ Step(p, l, m)

LEMMA FitsMoves ==
  ASSUME NEW p \in Processes, NEW l, NEW m, Fits(l, m), Step(p, l, m)
  PROVE  Moves(p)
  BY DEF Moves

LEMMA EndMoves ==
  ASSUME NEW p \in Processes, End(p)
  PROVE  Moves(p)
  BY BlankOK DEF End, Moves, Fits, Label

LEMMA MovesTyped ==
  ASSUME Typed, NEW p \in Processes, Moves(p), StoreTyped'
  PROVE  Typed'
<1>1. PICK l, m : Fits(l, m) /\ Step(p, l, m)
  BY DEF Moves
<1>. QED BY <1>1, StepOK DEF Fits, StoreTyped, Typed, TypeOK

\* What is known of process p at label l.
At(p, l) ==
    /\ StoreTyped /\ mem[p] \in Memory /\ LocalOK(l, mem[p])
    /\ l # "idle" => Ws(p) \in Workspaces
    /\ l \in AtRepository => mem[p].cur \in Repos

LEMMA TypedAt ==
  ASSUME Typed, NEW p \in Processes
  PROVE  At(p, pc[p])
  BY DEF Typed, TypeOK, StoreTyped, At, LocalOK, Ws

\* The call of a reconciliation from a memory that fits the return.
LEMMA CallMoves ==
  ASSUME NEW p \in Processes, NEW ret \in ReturnLabel, NEW m, Fits(ret, m),
         CallReconcile(p, ret, m)
  PROVE  Moves(p)
<1>. DEFINE n == [m EXCEPT !.ret = ret]
<1>1. n \in Memory
  BY DEF Fits, Memory
<1>2. LocalOK("rc_read", n)
  BY DEF Fits, Memory, LocalOK, CommandAt, Reconciling, Recovering, ReturnLabel,
     AtRepository
<1>. QED BY <1>1, <1>2, FitsMoves DEF CallReconcile, Fits, Label

LEMMA NoRowsOK == NoRows \in [Repos -> Row] /\ Unobservable \in Row
  BY DEF NoRows, NoRow, Unobservable, Row, RowState, Head

\* The return of a reconciliation fits the step that called it.
LEMMA ReturnMoves ==
  ASSUME NEW p \in Processes, NEW l \in Reconciling, mem[p] \in Memory,
         LocalOK(l, mem[p]), NEW s \in WorkspaceState \cup {"error"}, Return(p, s)
  PROVE  Moves(p)
<1>. DEFINE m == [mem[p] EXCEPT !.rows = NoRows, !.todo = {}, !.at = None,
                                !.ret = "idle", !.sum = s]
<1>1. m \in Memory
  <2>1. "idle" \in Label
    BY DEF Label
  <2>. QED BY <2>1, NoRowsOK DEF Memory
<1>2. mem[p].ret \in ReturnLabel
  BY DEF LocalOK
<1>3. LocalOK(mem[p].ret, m)
  BY <1>2 DEF Memory, LocalOK, CommandAt, Reconciling, Recovering, ReturnLabel,
     AtRepository
<1>4. mem[p].ret \in Label
  BY <1>2 DEF ReturnLabel, Label
<1>. QED BY <1>1, <1>3, <1>4, FitsMoves DEF Return, Fits

\* So does the end of a recovery.
LEMMA AfterRecoveryMoves ==
  ASSUME NEW p \in Processes, NEW l \in Recovering, mem[p] \in Memory,
         LocalOK(l, mem[p]), NEW o, AfterRecovery(p, o)
  PROVE  Moves(p)
<1>. DEFINE m == [mem[p] EXCEPT !.own = FALSE, !.seen = NoLease, !.rows = NoRows,
                                !.todo = {}, !.done = {}, !.cur = None,
                                !.sum = "none", !.err = FALSE]
<1>1. m \in Memory
  BY NoRowsOK DEF Memory, Lease, WorkspaceState
<1>2. mem[p].cmd \in {"allocate", "create", "reconcile", "gc", "remove"}
  BY DEF LocalOK, CommandAt
<1>3. \A k \in {"al_admit", "cr_begin", "rec_begin", "gc_scan", "rm_refresh"} :
        k \in Label
  BY DEF Label
<1>4. \/ End(p)
      \/ mem[p].cmd = "allocate" /\ Step(p, "al_admit", m)
      \/ mem[p].cmd = "create" /\ Step(p, "cr_begin", m)
      \/ mem[p].cmd = "reconcile" /\ Step(p, "rec_begin", m)
      \/ mem[p].cmd = "gc" /\ Step(p, "gc_scan", m)
      \/ mem[p].cmd = "remove" /\ Step(p, "rm_refresh", m)
  BY <1>2 DEF AfterRecovery, GoOn, Memory
<1>5. l # "idle"
  BY DEF Recovering
<1>6. /\ mem[p].cmd = "allocate" => LocalOK("al_admit", m)
      /\ mem[p].cmd = "create" => LocalOK("cr_begin", m)
      /\ mem[p].cmd = "reconcile" => LocalOK("rec_begin", m)
      /\ mem[p].cmd = "gc" => LocalOK("gc_scan", m)
      /\ mem[p].cmd = "remove" => LocalOK("rm_refresh", m)
  BY <1>5 DEF Memory, LocalOK, CommandAt, Reconciling, Recovering, AtRepository
<1>. QED BY <1>1, <1>3, <1>4, <1>6, EndMoves, FitsMoves DEF Fits

\* So does the start of a rollback.
LEMMA RollbackMoves ==
  ASSUME NEW p \in Processes, NEW m, Fits("rb_dir", m), NEW failed \in SUBSET Repos,
         NEW keep \in BOOLEAN, Rollback(p, m, failed, keep)
  PROVE  Moves(p)
<1>. DEFINE todo == m.done \cup failed
            n == [m EXCEPT !.todo = todo, !.done = failed, !.keep = keep, !.err = FALSE]
<1>1. n \in Memory
  BY DEF Fits, Memory
<1>2. LocalOK("rb_dir", n) /\ LocalOK("rb_remove", n)
  BY DEF Fits, Memory, LocalOK, CommandAt, Reconciling, Recovering, ReturnLabel,
     AtRepository
<1>3. Step(p, "rb_dir", n) \/ Step(p, "rb_remove", n)
  BY DEF Rollback
<1>4. "rb_dir" \in Label /\ "rb_remove" \in Label
  BY DEF Label
<1>. QED BY <1>1, <1>2, <1>3, <1>4, FitsMoves DEF Fits

LEMMA HealthOK ==
  ASSUME NEW rows, NEW tidy
  PROVE  Health(rows, tidy) \in WorkspaceState
  BY DEF Health, WorkspaceState

LEMMA ObservationsOK ==
  ASSUME NEW r0 \in Row, NEW content
  PROVE  Observations(r0, content) \subseteq Row
  BY DEF Observations, Observe, Unobservable, HeadOf, Row, RowState, Head

-----------------------------------------------------------------------------
(* The statements of the repository. *)

LEMMA SetWorkspaceTyped ==
  ASSUME StoreTyped, NEW p, Ws(p) \in Workspaces, NEW s \in WorkspaceState,
         SetWorkspace(p, s)
  PROVE  wsState' \in [Workspaces -> WorkspaceState]
  BY DEF StoreTyped, SetWorkspace

LEMMA SetRowTyped ==
  ASSUME StoreTyped, NEW p, Ws(p) \in Workspaces, NEW r \in Repos, NEW v \in Row,
         SetRow(p, r, v)
  PROVE  row' \in [Workspaces -> [Repos -> Row]]
  BY DEF StoreTyped, SetRow

LEMMA SetDiskTyped ==
  ASSUME StoreTyped, NEW p, Ws(p) \in Workspaces, NEW r \in Repos,
         NEW c \in Contents, SetDisk(p, r, c)
  PROVE  disk' \in [Workspaces -> [Repos -> Contents]]
  BY DEF StoreTyped, SetDisk

LEMMA GitRemoveTyped ==
  ASSUME StoreTyped, NEW p, Ws(p) \in Workspaces, NEW r \in Repos,
         GitRemove(p, r) \/ GitRemoveFails(p, r)
  PROVE  disk' \in [Workspaces -> [Repos -> Contents]]
  BY DEF StoreTyped, SetDisk, GitRemove, GitRemoveFails, Contents

LEMMA RemoveRootTyped ==
  ASSUME StoreTyped, NEW p, Ws(p) \in Workspaces, RemoveRoot(p)
  PROVE  dir' \in [Workspaces -> BOOLEAN]
  BY DEF StoreTyped, RemoveRoot

LEMMA InsertLeaseTyped ==
  ASSUME StoreTyped, NEW p \in Processes, Ws(p) \in Workspaces, NEW k \in Kind,
         InsertLease(p, k)
  PROVE  lease' \in [Workspaces -> Lease]
  BY DEF StoreTyped, InsertLease, Lease

LEMMA CloseTyped ==
  ASSUME StoreTyped, NEW p, Ws(p) \in Workspaces, NEW o \in Outcome,
         CloseOperation(p, o) \/ TryCloseOperation(p, o)
  PROVE  lease' \in [Workspaces -> Lease] /\ createOp' \in [Workspaces -> Outcome]
<1>1. CASE CloseOperation(p, o)
  BY <1>1 DEF StoreTyped, CloseOperation, Lease
<1>2. CASE UNCHANGED <<lease, createOp>>
  BY <1>2 DEF StoreTyped
<1>. QED BY <1>1, <1>2 DEF TryCloseOperation

-----------------------------------------------------------------------------
(* One lemma per action: what the process remembers fits its next step, and *)
(* what it writes has its type. *)

USE DEF Reconciling, Recovering, ReturnLabel, AtRepository

-----------------------------------------------------------------------------
\* Reconciliation.

LEMMA ReconcileReadTyped ==
  ASSUME Typed, NEW p \in Processes, ReconcileRead(p)
  PROVE  Typed'
<1>1. At(p, "rc_read")
  BY TypedAt DEF ReconcileRead
<1>2. Fits("rc_observe", [mem[p] EXCEPT !.rows = row[Ws(p)], !.todo = Repos])
  <2>1. [mem[p] EXCEPT !.rows = row[Ws(p)], !.todo = Repos] \in Memory
    BY <1>1 DEF At, Memory, StoreTyped
  <2>2. LocalOK("rc_observe", [mem[p] EXCEPT !.rows = row[Ws(p)], !.todo = Repos])
    BY <1>1 DEF At, Memory, LocalOK, CommandAt
  <2>. QED BY <2>1, <2>2 DEF Fits, Label
<1>3. \/ Step(p, "rc_observe", [mem[p] EXCEPT !.rows = row[Ws(p)], !.todo = Repos])
      \/ \E s \in WorkspaceState \cup {"error"} : Return(p, s)
  BY <1>1 DEF At, ReconcileRead, WorkspaceState
<1>4. Moves(p)
  BY <1>1, <1>2, <1>3, FitsMoves, ReturnMoves DEF At
<1>5. StoreTyped'
  BY <1>1 DEF At, ReconcileRead, StoreTyped, db, files, history
<1>. QED BY <1>4, <1>5, MovesTyped

LEMMA ReconcileObserveTyped ==
  ASSUME Typed, NEW p \in Processes, ReconcileObserve(p)
  PROVE  Typed'
<1>1. At(p, "rc_observe")
  BY TypedAt DEF ReconcileObserve
<1>2. ASSUME NEW r \in mem[p].todo, NEW seen \in Row
      PROVE  /\ Fits("rc_observe", [mem[p] EXCEPT !.rows[r] = seen, !.todo = @ \ {r}, !.at = r])
             /\ Fits("rc_write", [mem[p] EXCEPT !.rows[r] = seen, !.todo = @ \ {r}, !.at = r])
  <2>1. [mem[p] EXCEPT !.rows[r] = seen, !.todo = @ \ {r}, !.at = r] \in Memory
    BY <1>1, <1>2 DEF At, Memory
  <2>2. LocalOK("rc_observe", [mem[p] EXCEPT !.rows[r] = seen, !.todo = @ \ {r}, !.at = r]) /\ LocalOK("rc_write", [mem[p] EXCEPT !.rows[r] = seen, !.todo = @ \ {r}, !.at = r])
    BY <1>1, <1>2 DEF At, Memory, LocalOK, CommandAt
  <2>. QED BY <2>1, <2>2 DEF Fits, Label
<1>3. \E r \in mem[p].todo, seen \in Row : 
           \/ Step(p, "rc_observe", [mem[p] EXCEPT !.rows[r] = seen, !.todo = @ \ {r}, !.at = r])
           \/ Step(p, "rc_write", [mem[p] EXCEPT !.rows[r] = seen, !.todo = @ \ {r}, !.at = r])
  BY <1>1 DEF At, ReconcileObserve
<1>4. Moves(p)
  BY <1>1, <1>2, <1>3, FitsMoves DEF At
<1>5. StoreTyped'
  BY <1>1 DEF At, ReconcileObserve, StoreTyped, db, files, history
<1>. QED BY <1>4, <1>5, MovesTyped

LEMMA ReconcileAbortTyped ==
  ASSUME Typed, NEW p \in Processes, ReconcileAbort(p)
  PROVE  Typed'
<1>1. At(p, "rc_observe")
  BY TypedAt DEF ReconcileAbort
<1>2. \E s \in WorkspaceState \cup {"error"} : Return(p, s)
  BY <1>1 DEF At, ReconcileAbort
<1>3. Moves(p)
  BY <1>1, <1>2, ReturnMoves DEF At
<1>4. StoreTyped'
  BY <1>1 DEF At, ReconcileAbort, StoreTyped, db, files, history
<1>. QED BY <1>3, <1>4, MovesTyped

LEMMA ReconcileWriteTyped ==
  ASSUME Typed, NEW p \in Processes, ReconcileWrite(p)
  PROVE  Typed'
<1>1. At(p, "rc_write")
  BY TypedAt DEF ReconcileWrite
<1>2. Fits("rc_observe", mem[p])
  BY <1>1 DEF At, Fits, Label, Memory, LocalOK, CommandAt
<1>3. Step(p, "rc_observe", mem[p])
  BY <1>1 DEF At, ReconcileWrite
<1>4. Moves(p)
  BY <1>1, <1>2, <1>3, FitsMoves DEF At
<1>5. StoreTyped'
  <2>1. mem[p].at \in Repos /\ mem[p].rows[mem[p].at] \in Row
    BY <1>1 DEF At, LocalOK, Memory
  <2>. QED BY <1>1, <2>1, SetRowTyped DEF At, ReconcileWrite, StoreTyped, db,
     files, history
<1>. QED BY <1>4, <1>5, MovesTyped

LEMMA ReconcileFinishTyped ==
  ASSUME Typed, NEW p \in Processes, ReconcileFinish(p)
  PROVE  Typed'
<1>1. At(p, "rc_observe")
  BY TypedAt DEF ReconcileFinish
<1>2. \E s \in WorkspaceState \cup {"error"} : Return(p, s)
  BY <1>1, HealthOK DEF At, ReconcileFinish
<1>3. Moves(p)
  BY <1>1, <1>2, ReturnMoves DEF At
<1>4. StoreTyped'
  BY <1>1, HealthOK, SetWorkspaceTyped DEF At, ReconcileFinish, StoreTyped,
     db, files, history
<1>. QED BY <1>3, <1>4, MovesTyped

-----------------------------------------------------------------------------
\* Recovery.

LEMMA RecoverReadTyped ==
  ASSUME Typed, NEW p \in Processes, RecoverRead(p)
  PROVE  Typed'
<1>1. At(p, "recover")
  BY TypedAt DEF RecoverRead
<1>2. ASSUME Running(Ws(p)) /\ ~lease[Ws(p)].live
      PROVE  Fits("takeover", [mem[p] EXCEPT !.seen = lease[Ws(p)]])
  <2>1. [mem[p] EXCEPT !.seen = lease[Ws(p)]] \in Memory
    BY <1>1, <1>2 DEF At, Memory, StoreTyped
  <2>2. LocalOK("takeover", [mem[p] EXCEPT !.seen = lease[Ws(p)]])
    BY <1>1, <1>2 DEF At, Memory, LocalOK, CommandAt, StoreTyped, Lease,
       NoLease, Running
  <2>. QED BY <2>1, <2>2 DEF Fits, Label
<1>3. \/ Running(Ws(p)) /\ ~lease[Ws(p)].live /\ Step(p, "takeover", [mem[p] EXCEPT !.seen = lease[Ws(p)]])
      \/ End(p)
      \/ \E o : AfterRecovery(p, o)
  BY <1>1 DEF At, RecoverRead
<1>4. Moves(p)
  BY <1>1, <1>2, <1>3, FitsMoves, EndMoves, AfterRecoveryMoves DEF At
<1>5. StoreTyped'
  BY <1>1 DEF At, RecoverRead, StoreTyped, db, files, history
<1>. QED BY <1>4, <1>5, MovesTyped

LEMMA TakeOverTyped ==
  ASSUME Typed, NEW p \in Processes, TakeOver(p)
  PROVE  Typed'
<1>1. At(p, "takeover")
  BY TypedAt DEF TakeOver
<1>2. Fits("rv_observe", [mem[p] EXCEPT !.own = TRUE, !.rows = row[Ws(p)]])
  <2>1. [mem[p] EXCEPT !.own = TRUE, !.rows = row[Ws(p)]] \in Memory
    BY <1>1 DEF At, Memory, StoreTyped
  <2>2. LocalOK("rv_observe", [mem[p] EXCEPT !.own = TRUE, !.rows = row[Ws(p)]])
    BY <1>1 DEF At, Memory, LocalOK, CommandAt
  <2>. QED BY <2>1, <2>2 DEF Fits, Label
<1>3. Fits("rv_close", [mem[p] EXCEPT !.own = TRUE])
  <2>1. [mem[p] EXCEPT !.own = TRUE] \in Memory
    BY <1>1 DEF At, Memory
  <2>2. LocalOK("rv_close", [mem[p] EXCEPT !.own = TRUE])
    BY <1>1 DEF At, Memory, LocalOK, CommandAt
  <2>. QED BY <2>1, <2>2 DEF Fits, Label
<1>4. \/ Step(p, "rv_observe", [mem[p] EXCEPT !.own = TRUE, !.rows = row[Ws(p)]])
      \/ CallReconcile(p, "rv_close", [mem[p] EXCEPT !.own = TRUE])
      \/ \E o : AfterRecovery(p, o)
  BY <1>1 DEF At, TakeOver
<1>5. Moves(p)
  BY <1>1, <1>2, <1>3, <1>4, FitsMoves, CallMoves, AfterRecoveryMoves DEF At
<1>6. StoreTyped'
  <2>1. mem[p].seen.kind \in Kind
    BY <1>1 DEF At, LocalOK
  <2>. QED BY <1>1, <2>1, InsertLeaseTyped DEF At, TakeOver, StoreTyped, db,
     files, history
<1>. QED BY <1>5, <1>6, MovesTyped

LEMMA RecoverCloseTyped ==
  ASSUME Typed, NEW p \in Processes, RecoverClose(p)
  PROVE  Typed'
<1>1. At(p, "rv_close")
  BY TypedAt DEF RecoverClose
<1>2. \/ End(p)
      \/ \E o : AfterRecovery(p, o)
  BY <1>1 DEF At, RecoverClose
<1>3. Moves(p)
  BY <1>1, <1>2, EndMoves, AfterRecoveryMoves DEF At
<1>4. StoreTyped'
  BY <1>1, CloseTyped DEF At, RecoverClose, StoreTyped, db, files, history,
     Outcome
<1>. QED BY <1>3, <1>4, MovesTyped

LEMMA RecoverObserveTyped ==
  ASSUME Typed, NEW p \in Processes, RecoverObserve(p)
  PROVE  Typed'
<1>1. At(p, "rv_observe")
  BY TypedAt DEF RecoverObserve
<1>2. ASSUME NEW todo \in SUBSET Repos
      PROVE  Fits("rv_attach", [mem[p] EXCEPT !.todo = todo])
  BY <1>1, <1>2 DEF At, Fits, Label, Memory, LocalOK, CommandAt
<1>3. ASSUME NEW done \in SUBSET Repos, NEW err \in BOOLEAN
      PROVE  Fits("rv_renew", [mem[p] EXCEPT !.todo = Repos, !.done = done, !.err = err])
  <2>1. [mem[p] EXCEPT !.todo = Repos, !.done = done, !.err = err] \in Memory
    BY <1>1, <1>3 DEF At, Memory
  <2>2. LocalOK("rv_renew", [mem[p] EXCEPT !.todo = Repos, !.done = done, !.err = err])
    BY <1>1, <1>3 DEF At, Memory, LocalOK, CommandAt
  <2>. QED BY <2>1, <2>2 DEF Fits, Label
<1>4. \/ \E todo \in SUBSET Repos : Step(p, "rv_attach", [mem[p] EXCEPT !.todo = todo])
      \/ \E done \in SUBSET Repos, err \in BOOLEAN : Step(p, "rv_renew", [mem[p] EXCEPT !.todo = Repos, !.done = done, !.err = err])
  BY <1>1 DEF At, RecoverObserve, Present
<1>5. Moves(p)
  BY <1>1, <1>2, <1>3, <1>4, FitsMoves DEF At
<1>6. StoreTyped'
  BY <1>1 DEF At, RecoverObserve, StoreTyped, db, files, history
<1>. QED BY <1>5, <1>6, MovesTyped

LEMMA RecoverAbortTyped ==
  ASSUME Typed, NEW p \in Processes, RecoverAbort(p)
  PROVE  Typed'
<1>1. At(p, "rv_observe")
  BY TypedAt DEF RecoverAbort
<1>2. End(p)
  BY <1>1 DEF At, RecoverAbort
<1>3. Moves(p)
  BY <1>1, <1>2, EndMoves DEF At
<1>4. StoreTyped'
  BY <1>1 DEF At, RecoverAbort, StoreTyped, db, files, history
<1>. QED BY <1>3, <1>4, MovesTyped

LEMMA RecoverAttachTyped ==
  ASSUME Typed, NEW p \in Processes, RecoverAttach(p)
  PROVE  Typed'
<1>1. At(p, "rv_attach")
  BY TypedAt DEF RecoverAttach
<1>2. ASSUME NEW r \in mem[p].todo
      PROVE  Fits("rv_attach", [mem[p] EXCEPT !.todo = @ \ {r}])
  BY <1>1, <1>2 DEF At, Fits, Label, Memory, LocalOK, CommandAt
<1>3. \E r \in mem[p].todo : Step(p, "rv_attach", [mem[p] EXCEPT !.todo = @ \ {r}])
  BY <1>1 DEF At, RecoverAttach
<1>4. Moves(p)
  BY <1>1, <1>2, <1>3, FitsMoves DEF At
<1>5. StoreTyped'
  <2>1. PICK r \in mem[p].todo : SetRow(p, r, [mem[p].rows[r] EXCEPT !.st = "attached"])
    BY DEF RecoverAttach
  <2>2. r \in Repos /\ [mem[p].rows[r] EXCEPT !.st = "attached"] \in Row
    BY <1>1 DEF At, Memory, Row, RowState
  <2>. QED BY <1>1, <2>1, <2>2, SetRowTyped DEF At, RecoverAttach, StoreTyped,
     db, files, history
<1>. QED BY <1>4, <1>5, MovesTyped

LEMMA RecoverFinalizeTyped ==
  ASSUME Typed, NEW p \in Processes, RecoverFinalize(p)
  PROVE  Typed'
<1>1. At(p, "rv_attach")
  BY TypedAt DEF RecoverFinalize
<1>2. \/ End(p)
      \/ \E o : AfterRecovery(p, o)
  BY <1>1 DEF At, RecoverFinalize
<1>3. Moves(p)
  BY <1>1, <1>2, EndMoves, AfterRecoveryMoves DEF At
<1>4. StoreTyped'
  BY <1>1, CloseTyped, SetWorkspaceTyped DEF At, RecoverFinalize, StoreTyped,
     db, files, history, Outcome, WorkspaceState
<1>. QED BY <1>3, <1>4, MovesTyped

LEMMA RecoverRenewTyped ==
  ASSUME Typed, NEW p \in Processes, RecoverRenew(p)
  PROVE  Typed'
<1>1. At(p, "rv_renew")
  BY TypedAt DEF RecoverRenew
<1>2. ASSUME NEW r \in mem[p].todo, NEW err \in BOOLEAN
      PROVE  /\ Fits("rv_remove", [mem[p] EXCEPT !.todo = @ \ {r}, !.cur = r, !.err = err])
             /\ Fits("rv_row", [mem[p] EXCEPT !.todo = @ \ {r}, !.cur = r, !.err = err])
  <2>1. [mem[p] EXCEPT !.todo = @ \ {r}, !.cur = r, !.err = err] \in Memory
    BY <1>1, <1>2 DEF At, Memory
  <2>2. LocalOK("rv_remove", [mem[p] EXCEPT !.todo = @ \ {r}, !.cur = r, !.err = err]) /\ LocalOK("rv_row", [mem[p] EXCEPT !.todo = @ \ {r}, !.cur = r, !.err = err])
    BY <1>1, <1>2 DEF At, Memory, LocalOK, CommandAt
  <2>. QED BY <2>1, <2>2 DEF Fits, Label
<1>3. \E r \in mem[p].todo, err \in BOOLEAN : 
           \/ Step(p, "rv_remove", [mem[p] EXCEPT !.todo = @ \ {r}, !.cur = r, !.err = err])
           \/ Step(p, "rv_row", [mem[p] EXCEPT !.todo = @ \ {r}, !.cur = r, !.err = err])
  BY <1>1 DEF At, RecoverRenew
<1>4. Moves(p)
  BY <1>1, <1>2, <1>3, FitsMoves DEF At
<1>5. StoreTyped'
  BY <1>1 DEF At, RecoverRenew, StoreTyped, db, files, history
<1>. QED BY <1>4, <1>5, MovesTyped

LEMMA RecoverRemoveTyped ==
  ASSUME Typed, NEW p \in Processes, RecoverRemove(p)
  PROVE  Typed'
<1>1. At(p, "rv_remove")
  BY TypedAt DEF RecoverRemove
<1>2. Fits("rv_row", mem[p])
  BY <1>1 DEF At, Fits, Label, Memory, LocalOK, CommandAt
<1>3. Fits("rv_row", [mem[p] EXCEPT !.err = TRUE])
  <2>1. [mem[p] EXCEPT !.err = TRUE] \in Memory
    BY <1>1 DEF At, Memory
  <2>2. LocalOK("rv_row", [mem[p] EXCEPT !.err = TRUE])
    BY <1>1 DEF At, Memory, LocalOK, CommandAt
  <2>. QED BY <2>1, <2>2 DEF Fits, Label
<1>4. \/ Step(p, "rv_row", mem[p])
      \/ Step(p, "rv_row", [mem[p] EXCEPT !.err = TRUE])
  BY <1>1 DEF At, RecoverRemove
<1>5. Moves(p)
  BY <1>1, <1>2, <1>3, <1>4, FitsMoves DEF At
<1>6. StoreTyped'
  BY <1>1, GitRemoveTyped DEF At, RecoverRemove, StoreTyped, db, files, history
<1>. QED BY <1>5, <1>6, MovesTyped

LEMMA RecoverRowTyped ==
  ASSUME Typed, NEW p \in Processes, RecoverRow(p)
  PROVE  Typed'
<1>1. At(p, "rv_row")
  BY TypedAt DEF RecoverRow
<1>2. Fits("rv_dir", mem[p]) /\ Fits("rv_renew", mem[p])
  BY <1>1 DEF At, Fits, Label, Memory, LocalOK, CommandAt
<1>3. Step(p, "rv_dir", mem[p]) \/ Step(p, "rv_renew", mem[p])
  BY <1>1 DEF At, RecoverRow
<1>4. Moves(p)
  BY <1>1, <1>2, <1>3, FitsMoves DEF At
<1>5. StoreTyped'
  BY <1>1, NoRowsOK, SetRowTyped DEF At, RecoverRow, StoreTyped, db, files,
     history
<1>. QED BY <1>4, <1>5, MovesTyped

LEMMA RecoverDirectoryTyped ==
  ASSUME Typed, NEW p \in Processes, RecoverDirectory(p)
  PROVE  Typed'
<1>1. At(p, "rv_dir")
  BY TypedAt DEF RecoverDirectory
<1>2. Fits("rv_op", mem[p])
  BY <1>1 DEF At, Fits, Label, Memory, LocalOK, CommandAt
<1>3. Fits("rv_op", [mem[p] EXCEPT !.err = TRUE])
  <2>1. [mem[p] EXCEPT !.err = TRUE] \in Memory
    BY <1>1 DEF At, Memory
  <2>2. LocalOK("rv_op", [mem[p] EXCEPT !.err = TRUE])
    BY <1>1 DEF At, Memory, LocalOK, CommandAt
  <2>. QED BY <2>1, <2>2 DEF Fits, Label
<1>4. \/ Step(p, "rv_op", mem[p])
      \/ Step(p, "rv_op", [mem[p] EXCEPT !.err = TRUE])
  BY <1>1 DEF At, RecoverDirectory
<1>5. Moves(p)
  BY <1>1, <1>2, <1>3, <1>4, FitsMoves DEF At
<1>6. StoreTyped'
  BY <1>1, RemoveRootTyped DEF At, RecoverDirectory, StoreTyped, db, files,
     history
<1>. QED BY <1>5, <1>6, MovesTyped

LEMMA RecoverOperationTyped ==
  ASSUME Typed, NEW p \in Processes, RecoverOperation(p)
  PROVE  Typed'
<1>1. At(p, "rv_op")
  BY TypedAt DEF RecoverOperation
<1>2. Fits("rv_ws", mem[p])
  BY <1>1 DEF At, Fits, Label, Memory, LocalOK, CommandAt
<1>3. Step(p, "rv_ws", mem[p])
  BY <1>1 DEF At, RecoverOperation
<1>4. Moves(p)
  BY <1>1, <1>2, <1>3, FitsMoves DEF At
<1>5. StoreTyped'
  BY <1>1, CloseTyped DEF At, RecoverOperation, StoreTyped, db, files,
     history, Outcome
<1>. QED BY <1>4, <1>5, MovesTyped

LEMMA RecoverWorkspaceTyped ==
  ASSUME Typed, NEW p \in Processes, RecoverWorkspace(p)
  PROVE  Typed'
<1>1. At(p, "rv_ws")
  BY TypedAt DEF RecoverWorkspace
<1>2. \E o : AfterRecovery(p, o)
  BY <1>1 DEF At, RecoverWorkspace
<1>3. Moves(p)
  BY <1>1, <1>2, AfterRecoveryMoves DEF At
<1>4. StoreTyped'
  BY <1>1, SetWorkspaceTyped DEF At, RecoverWorkspace, StoreTyped, db, files,
     history, WorkspaceState
<1>. QED BY <1>3, <1>4, MovesTyped

LEMMA FailOperationTyped ==
  ASSUME Typed, NEW p \in Processes, FailOperation(p)
  PROVE  Typed'
<1>1. At(p, "fail_op")
  BY TypedAt DEF FailOperation
<1>2. End(p)
  BY <1>1 DEF At, FailOperation
<1>3. Moves(p)
  BY <1>1, <1>2, EndMoves DEF At
<1>4. StoreTyped'
  BY <1>1, CloseTyped DEF At, FailOperation, StoreTyped, db, files, history,
     Outcome
<1>. QED BY <1>3, <1>4, MovesTyped

-----------------------------------------------------------------------------
\* Access.

LEMMA AllocateStartTyped ==
  ASSUME Typed, NEW p \in Processes, AllocateStart(p)
  PROVE  Typed'
<1>1. At(p, "idle")
  BY TypedAt DEF AllocateStart
<1>2. ASSUME NEW w \in Workspaces, NEW c \in Claims
      PROVE  Fits("recover", [Blank EXCEPT !.cmd = "allocate", !.ws = w, !.claim = c])
  <2>1. [Blank EXCEPT !.cmd = "allocate", !.ws = w, !.claim = c] \in Memory
    BY <1>1, <1>2, BlankOK DEF At, Memory, AllCommands
  <2>2. LocalOK("recover", [Blank EXCEPT !.cmd = "allocate", !.ws = w, !.claim = c])
    BY <1>1, <1>2, BlankOK DEF At, Memory, LocalOK, CommandAt, Blank
  <2>. QED BY <2>1, <2>2 DEF Fits, Label
<1>3. \E w \in Workspaces, c \in Claims : Step(p, "recover", [Blank EXCEPT !.cmd = "allocate", !.ws = w, !.claim = c])
  BY <1>1, StoreAssumption DEF At, AllocateStart
<1>4. Moves(p)
  BY <1>1, <1>2, <1>3, FitsMoves DEF At
<1>5. StoreTyped'
  BY <1>1 DEF At, AllocateStart, StoreTyped, db, files, history
<1>. QED BY <1>4, <1>5, MovesTyped

LEMMA AllocateAdmitTyped ==
  ASSUME Typed, NEW p \in Processes, AllocateAdmit(p)
  PROVE  Typed'
<1>1. At(p, "al_admit")
  BY TypedAt DEF AllocateAdmit
<1>2. Fits("al_begin", mem[p])
  BY <1>1 DEF At, Fits, Label, Memory, LocalOK, CommandAt
<1>3. \/ Step(p, "al_begin", mem[p])
      \/ End(p)
  BY <1>1 DEF At, AllocateAdmit
<1>4. Moves(p)
  BY <1>1, <1>2, <1>3, FitsMoves, EndMoves DEF At
<1>5. StoreTyped'
  BY <1>1 DEF At, AllocateAdmit, StoreTyped, db, files, history
<1>. QED BY <1>4, <1>5, MovesTyped

LEMMA AccessBeginTyped ==
  ASSUME Typed, NEW p \in Processes, AccessBegin(p)
  PROVE  Typed'
<1>1. pc[p] \in {"al_begin", "cl_begin", "rl_begin"} /\ At(p, pc[p])
  BY TypedAt DEF AccessBegin
<1>2. ASSUME pc[p] = "al_begin"
      PROVE  Fits("al_check", [mem[p] EXCEPT !.own = TRUE])
  BY <1>1, <1>2 DEF At, Fits, Label, Memory, LocalOK, CommandAt
<1>3. ASSUME pc[p] = "cl_begin"
      PROVE  Fits("cl_inspect", [mem[p] EXCEPT !.own = TRUE])
  BY <1>1, <1>3 DEF At, Fits, Label, Memory, LocalOK, CommandAt
<1>4. ASSUME pc[p] = "rl_begin"
      PROVE  Fits("rl_check", [mem[p] EXCEPT !.own = TRUE])
  BY <1>1, <1>4 DEF At, Fits, Label, Memory, LocalOK, CommandAt
<1>5. \/ pc[p] = "al_begin" /\ CallReconcile(p, "al_check", [mem[p] EXCEPT !.own = TRUE])
      \/ pc[p] = "cl_begin" /\ Step(p, "cl_inspect", [mem[p] EXCEPT !.own = TRUE])
      \/ pc[p] = "rl_begin" /\ CallReconcile(p, "rl_check", [mem[p] EXCEPT !.own = TRUE])
      \/ End(p)
  BY <1>1 DEF At, AccessBegin, BeginOf
<1>6. Moves(p)
  BY <1>1, <1>2, <1>3, <1>4, <1>5, FitsMoves, CallMoves, EndMoves DEF At
<1>7. StoreTyped'
  <2>1. BeginOf(p) \in Kind
    BY DEF BeginOf, Kind
  <2>. QED BY <1>1, <2>1, InsertLeaseTyped DEF At, AccessBegin, StoreTyped,
     db, files, history
<1>. QED BY <1>6, <1>7, MovesTyped

LEMMA AllocateCheckTyped ==
  ASSUME Typed, NEW p \in Processes, AllocateCheck(p)
  PROVE  Typed'
<1>1. At(p, "al_check")
  BY TypedAt DEF AllocateCheck
<1>2. Fits("align_plan", mem[p]) /\ Fits("fail_op", mem[p])
  BY <1>1 DEF At, Fits, Label, Memory, LocalOK, CommandAt
<1>3. Step(p, "align_plan", mem[p]) \/ Step(p, "fail_op", mem[p])
  BY <1>1 DEF At, AllocateCheck
<1>4. Moves(p)
  BY <1>1, <1>2, <1>3, FitsMoves DEF At
<1>5. StoreTyped'
  BY <1>1 DEF At, AllocateCheck, StoreTyped, db, files, history
<1>. QED BY <1>4, <1>5, MovesTyped

LEMMA AllocateClaimTyped ==
  ASSUME Typed, NEW p \in Processes, AllocateClaim(p)
  PROVE  Typed'
<1>1. At(p, "al_claim")
  BY TypedAt DEF AllocateClaim
<1>2. Fits("al_finish", mem[p]) /\ Fits("fail_op", mem[p])
  BY <1>1 DEF At, Fits, Label, Memory, LocalOK, CommandAt
<1>3. Step(p, "al_finish", mem[p]) \/ Step(p, "fail_op", mem[p])
  BY <1>1 DEF At, AllocateClaim
<1>4. Moves(p)
  BY <1>1, <1>2, <1>3, FitsMoves DEF At
<1>5. StoreTyped'
  <2>1. mem[p].claim \in Claims
    BY <1>1 DEF At, LocalOK, CommandAt
  <2>. QED BY <1>1, <2>1 DEF At, AllocateClaim, StoreTyped, db, files, history
<1>. QED BY <1>4, <1>5, MovesTyped

LEMMA AllocateFinishTyped ==
  ASSUME Typed, NEW p \in Processes, AllocateFinish(p)
  PROVE  Typed'
<1>1. At(p, "al_finish")
  BY TypedAt DEF AllocateFinish
<1>2. Fits("fail_op", mem[p])
  BY <1>1 DEF At, Fits, Label, Memory, LocalOK, CommandAt
<1>3. \/ Step(p, "fail_op", mem[p])
      \/ End(p)
  BY <1>1 DEF At, AllocateFinish
<1>4. Moves(p)
  BY <1>1, <1>2, <1>3, FitsMoves, EndMoves DEF At
<1>5. StoreTyped'
  BY <1>1, CloseTyped DEF At, AllocateFinish, StoreTyped, db, files, history,
     Outcome
<1>. QED BY <1>4, <1>5, MovesTyped

LEMMA ClaimStartTyped ==
  ASSUME Typed, NEW p \in Processes, ClaimStart(p)
  PROVE  Typed'
<1>1. At(p, "idle")
  BY TypedAt DEF ClaimStart
<1>2. ASSUME NEW w \in Workspaces, NEW c \in Claims
      PROVE  Fits("cl_begin", [Blank EXCEPT !.cmd = "claim", !.ws = w, !.claim = c])
  <2>1. [Blank EXCEPT !.cmd = "claim", !.ws = w, !.claim = c] \in Memory
    BY <1>1, <1>2, BlankOK DEF At, Memory, AllCommands
  <2>2. LocalOK("cl_begin", [Blank EXCEPT !.cmd = "claim", !.ws = w, !.claim = c])
    BY <1>1, <1>2, BlankOK DEF At, Memory, LocalOK, CommandAt, Blank
  <2>. QED BY <2>1, <2>2 DEF Fits, Label
<1>3. \E w \in Workspaces, c \in Claims : Step(p, "cl_begin", [Blank EXCEPT !.cmd = "claim", !.ws = w, !.claim = c])
  BY <1>1 DEF At, ClaimStart
<1>4. Moves(p)
  BY <1>1, <1>2, <1>3, FitsMoves DEF At
<1>5. StoreTyped'
  BY <1>1 DEF At, ClaimStart, StoreTyped, db, files, history
<1>. QED BY <1>4, <1>5, MovesTyped

LEMMA ClaimInspectTyped ==
  ASSUME Typed, NEW p \in Processes, ClaimInspect(p)
  PROVE  Typed'
<1>1. pc[p] \in {"cl_inspect", "cl_reinspect"} /\ At(p, pc[p])
  BY TypedAt DEF ClaimInspect
<1>2. Fits("cl_reinspect", mem[p])
  BY <1>1 DEF At, Fits, Label, Memory, LocalOK, CommandAt
<1>3. Fits("cl_publish", mem[p]) /\ Fits("fail_op", mem[p])
  BY <1>1 DEF At, Fits, Label, Memory, LocalOK, CommandAt
<1>4. \/ CallReconcile(p, "cl_reinspect", mem[p])
      \/ Step(p, "cl_publish", mem[p]) \/ Step(p, "fail_op", mem[p])
  BY <1>1 DEF At, ClaimInspect
<1>5. Moves(p)
  BY <1>1, <1>2, <1>3, <1>4, FitsMoves, CallMoves DEF At
<1>6. StoreTyped'
  BY <1>1 DEF At, ClaimInspect, StoreTyped, db, files, history
<1>. QED BY <1>5, <1>6, MovesTyped

LEMMA ClaimPublishTyped ==
  ASSUME Typed, NEW p \in Processes, ClaimPublish(p)
  PROVE  Typed'
<1>1. At(p, "cl_publish")
  BY TypedAt DEF ClaimPublish
<1>2. Fits("fail_op", mem[p])
  BY <1>1 DEF At, Fits, Label, Memory, LocalOK, CommandAt
<1>3. \/ Step(p, "fail_op", mem[p])
      \/ End(p)
  BY <1>1 DEF At, ClaimPublish
<1>4. Moves(p)
  BY <1>1, <1>2, <1>3, FitsMoves, EndMoves DEF At
<1>5. StoreTyped'
  <2>1. mem[p].claim \in Claims
    BY <1>1 DEF At, LocalOK, CommandAt
  <2>. QED BY <1>1, <2>1, CloseTyped DEF At, ClaimPublish, StoreTyped, db,
     files, history, Outcome
<1>. QED BY <1>4, <1>5, MovesTyped

LEMMA ReleaseStartTyped ==
  ASSUME Typed, NEW p \in Processes, ReleaseStart(p)
  PROVE  Typed'
<1>1. At(p, "idle")
  BY TypedAt DEF ReleaseStart
<1>2. ASSUME NEW w \in Workspaces, claim[w] # None
      PROVE  Fits("rl_begin", [Blank EXCEPT !.cmd = "release", !.ws = w, !.claim = claim[w]])
  <2>1. [Blank EXCEPT !.cmd = "release", !.ws = w, !.claim = claim[w]] \in Memory
    BY <1>1, <1>2, BlankOK DEF At, Memory, AllCommands, StoreTyped
  <2>2. LocalOK("rl_begin", [Blank EXCEPT !.cmd = "release", !.ws = w, !.claim = claim[w]])
    BY <1>1, <1>2, BlankOK DEF At, Memory, LocalOK, CommandAt, Blank, StoreTyped
  <2>. QED BY <2>1, <2>2 DEF Fits, Label
<1>3. \E w \in Workspaces : claim[w] # None /\ \/ Step(p, "rl_begin", [Blank EXCEPT !.cmd = "release", !.ws = w, !.claim = claim[w]])
  BY <1>1, StoreAssumption DEF At, ReleaseStart
<1>4. Moves(p)
  BY <1>1, <1>2, <1>3, FitsMoves DEF At
<1>5. StoreTyped'
  BY <1>1 DEF At, ReleaseStart, StoreTyped, db, files, history
<1>. QED BY <1>4, <1>5, MovesTyped

LEMMA ReleaseCheckTyped ==
  ASSUME Typed, NEW p \in Processes, ReleaseCheck(p)
  PROVE  Typed'
<1>1. At(p, "rl_check")
  BY TypedAt DEF ReleaseCheck
<1>2. Fits("align_plan", mem[p]) /\ Fits("fail_op", mem[p])
  BY <1>1 DEF At, Fits, Label, Memory, LocalOK, CommandAt
<1>3. Step(p, "align_plan", mem[p]) \/ Step(p, "fail_op", mem[p])
  BY <1>1 DEF At, ReleaseCheck
<1>4. Moves(p)
  BY <1>1, <1>2, <1>3, FitsMoves DEF At
<1>5. StoreTyped'
  BY <1>1 DEF At, ReleaseCheck, StoreTyped, db, files, history
<1>. QED BY <1>4, <1>5, MovesTyped

LEMMA ReleaseRecordTyped ==
  ASSUME Typed, NEW p \in Processes, ReleaseRecord(p)
  PROVE  Typed'
<1>1. At(p, "rl_record")
  BY TypedAt DEF ReleaseRecord
<1>2. Fits("fail_op", mem[p])
  BY <1>1 DEF At, Fits, Label, Memory, LocalOK, CommandAt
<1>3. \/ Step(p, "fail_op", mem[p])
      \/ End(p)
  BY <1>1 DEF At, ReleaseRecord
<1>4. Moves(p)
  BY <1>1, <1>2, <1>3, FitsMoves, EndMoves DEF At
<1>5. StoreTyped'
  BY <1>1, CloseTyped, SetWorkspaceTyped DEF At, ReleaseRecord, StoreTyped,
     db, files, history, Outcome, WorkspaceState
<1>. QED BY <1>4, <1>5, MovesTyped

LEMMA AlignPlanTyped ==
  ASSUME Typed, NEW p \in Processes, AlignPlan(p)
  PROVE  Typed'
<1>1. At(p, "align_plan")
  BY TypedAt DEF AlignPlan
<1>2. ASSUME NEW todo \in SUBSET Repos, NEW done \in SUBSET Repos
      PROVE  Fits("align_step", [mem[p] EXCEPT !.todo = todo, !.done = done])
  BY <1>1, <1>2 DEF At, Fits, Label, Memory, LocalOK, CommandAt
<1>3. Fits("fail_op", mem[p])
  BY <1>1 DEF At, Fits, Label, Memory, LocalOK, CommandAt
<1>4. \/ \E todo \in SUBSET Repos, done \in SUBSET Repos : Step(p, "align_step", [mem[p] EXCEPT !.todo = todo, !.done = done])
      \/ Step(p, "fail_op", mem[p])
  BY <1>1 DEF At, AlignPlan
<1>5. Moves(p)
  BY <1>1, <1>2, <1>3, <1>4, FitsMoves DEF At
<1>6. StoreTyped'
  BY <1>1 DEF At, AlignPlan, StoreTyped, db, files, history
<1>. QED BY <1>5, <1>6, MovesTyped

LEMMA AlignStepTyped ==
  ASSUME Typed, NEW p \in Processes, AlignStep(p)
  PROVE  Typed'
<1>1. At(p, "align_step")
  BY TypedAt DEF AlignStep
<1>2. ASSUME NEW r \in mem[p].todo
      PROVE  /\ Fits("align_checkout", [mem[p] EXCEPT !.todo = @ \ {r}, !.cur = r])
             /\ Fits("fail_op", [mem[p] EXCEPT !.todo = @ \ {r}, !.cur = r])
             /\ Fits("align_record", [mem[p] EXCEPT !.todo = @ \ {r}, !.cur = r])
  <2>1. [mem[p] EXCEPT !.todo = @ \ {r}, !.cur = r] \in Memory
    BY <1>1, <1>2 DEF At, Memory
  <2>2. LocalOK("align_checkout", [mem[p] EXCEPT !.todo = @ \ {r}, !.cur = r]) /\ LocalOK("fail_op", [mem[p] EXCEPT !.todo = @ \ {r}, !.cur = r]) /\ LocalOK("align_record", [mem[p] EXCEPT !.todo = @ \ {r}, !.cur = r])
    BY <1>1, <1>2 DEF At, Memory, LocalOK, CommandAt
  <2>. QED BY <2>1, <2>2 DEF Fits, Label
<1>3. \E r \in mem[p].todo : 
           \/ Step(p, "align_checkout", [mem[p] EXCEPT !.todo = @ \ {r}, !.cur = r])
           \/ Step(p, "fail_op", [mem[p] EXCEPT !.todo = @ \ {r}, !.cur = r])
           \/ Step(p, "align_record", [mem[p] EXCEPT !.todo = @ \ {r}, !.cur = r])
  BY <1>1 DEF At, AlignStep
<1>4. Moves(p)
  BY <1>1, <1>2, <1>3, FitsMoves DEF At
<1>5. StoreTyped'
  BY <1>1 DEF At, AlignStep, StoreTyped, db, files, history
<1>. QED BY <1>4, <1>5, MovesTyped

LEMMA AlignCheckoutTyped ==
  ASSUME Typed, NEW p \in Processes, AlignCheckout(p)
  PROVE  Typed'
<1>1. At(p, "align_checkout")
  BY TypedAt DEF AlignCheckout
<1>2. Fits("align_record", mem[p]) /\ Fits("fail_op", mem[p])
  BY <1>1 DEF At, Fits, Label, Memory, LocalOK, CommandAt
<1>3. \/ Step(p, "align_record", mem[p])
           \/ Step(p, "fail_op", mem[p])
  BY <1>1 DEF At, AlignCheckout
<1>4. Moves(p)
  BY <1>1, <1>2, <1>3, FitsMoves DEF At
<1>5. StoreTyped'
  BY <1>1, SetDiskTyped DEF At, AlignCheckout, StoreTyped, db, files, history,
     Contents
<1>. QED BY <1>4, <1>5, MovesTyped

LEMMA AlignRecordTyped ==
  ASSUME Typed, NEW p \in Processes, AlignRecord(p)
  PROVE  Typed'
<1>1. At(p, "align_record")
  BY TypedAt DEF AlignRecord
<1>2. Fits("align_step", [mem[p] EXCEPT !.cur = None])
  BY <1>1 DEF At, Fits, Label, Memory, LocalOK, CommandAt
<1>3. Fits("fail_op", mem[p])
  BY <1>1 DEF At, Fits, Label, Memory, LocalOK, CommandAt
<1>4. \/ Step(p, "align_step", [mem[p] EXCEPT !.cur = None])
      \/ Step(p, "fail_op", mem[p])
  BY <1>1 DEF At, AlignRecord
<1>5. Moves(p)
  BY <1>1, <1>2, <1>3, <1>4, FitsMoves DEF At
<1>6. StoreTyped'
  <2>1. [st |-> "attached", head |-> "base"] \in Row
    BY DEF Row, RowState, Head
  <2>. QED BY <1>1, <2>1, SetRowTyped DEF At, AlignRecord, StoreTyped, db,
     files, history
<1>. QED BY <1>5, <1>6, MovesTyped

LEMMA AlignDoneTyped ==
  ASSUME Typed, NEW p \in Processes, AlignDone(p)
  PROVE  Typed'
<1>1. At(p, "align_step")
  BY TypedAt DEF AlignDone
<1>2. ASSUME mem[p].cmd = "allocate"
      PROVE  Fits("al_claim", [mem[p] EXCEPT !.done = {}])
  BY <1>1, <1>2 DEF At, Fits, Label, Memory, LocalOK, CommandAt
<1>3. ASSUME mem[p].cmd # "allocate"
      PROVE  Fits("rl_record", [mem[p] EXCEPT !.done = {}])
  BY <1>1, <1>3 DEF At, Fits, Label, Memory, LocalOK, CommandAt
<1>4. \/ mem[p].cmd = "allocate" /\ Step(p, "al_claim", [mem[p] EXCEPT !.done = {}])
      \/ mem[p].cmd # "allocate" /\ Step(p, "rl_record", [mem[p] EXCEPT !.done = {}])
  BY <1>1 DEF At, AlignDone
<1>5. Moves(p)
  BY <1>1, <1>2, <1>3, <1>4, FitsMoves DEF At
<1>6. StoreTyped'
  BY <1>1 DEF At, AlignDone, StoreTyped, db, files, history
<1>. QED BY <1>5, <1>6, MovesTyped

LEMMA ExplicitReconcileStartTyped ==
  ASSUME Typed, NEW p \in Processes, ExplicitReconcileStart(p)
  PROVE  Typed'
<1>1. At(p, "idle")
  BY TypedAt DEF ExplicitReconcileStart
<1>2. ASSUME NEW w \in Workspaces
      PROVE  Fits("recover", [Blank EXCEPT !.cmd = "reconcile", !.ws = w])
  <2>1. [Blank EXCEPT !.cmd = "reconcile", !.ws = w] \in Memory
    BY <1>1, <1>2, BlankOK DEF At, Memory, AllCommands
  <2>2. LocalOK("recover", [Blank EXCEPT !.cmd = "reconcile", !.ws = w])
    BY <1>1, <1>2, BlankOK DEF At, Memory, LocalOK, CommandAt, Blank
  <2>. QED BY <2>1, <2>2 DEF Fits, Label
<1>3. \E w \in Workspaces : Step(p, "recover", [Blank EXCEPT !.cmd = "reconcile", !.ws = w])
  BY <1>1 DEF At, ExplicitReconcileStart
<1>4. Moves(p)
  BY <1>1, <1>2, <1>3, FitsMoves DEF At
<1>5. StoreTyped'
  BY <1>1 DEF At, ExplicitReconcileStart, StoreTyped, db, files, history
<1>. QED BY <1>4, <1>5, MovesTyped

LEMMA ExplicitReconcileBeginTyped ==
  ASSUME Typed, NEW p \in Processes, ExplicitReconcileBegin(p)
  PROVE  Typed'
<1>1. At(p, "rec_begin")
  BY TypedAt DEF ExplicitReconcileBegin
<1>2. Fits("rec_close", [mem[p] EXCEPT !.own = TRUE])
  BY <1>1 DEF At, Fits, Label, Memory, LocalOK, CommandAt
<1>3. \/ CallReconcile(p, "rec_close", [mem[p] EXCEPT !.own = TRUE])
      \/ End(p)
  BY <1>1 DEF At, ExplicitReconcileBegin
<1>4. Moves(p)
  BY <1>1, <1>2, <1>3, CallMoves, EndMoves DEF At
<1>5. StoreTyped'
  BY <1>1, InsertLeaseTyped DEF At, ExplicitReconcileBegin, StoreTyped, db,
     files, history, Kind
<1>. QED BY <1>4, <1>5, MovesTyped

LEMMA ExplicitReconcileCloseTyped ==
  ASSUME Typed, NEW p \in Processes, ExplicitReconcileClose(p)
  PROVE  Typed'
<1>1. At(p, "rec_close")
  BY TypedAt DEF ExplicitReconcileClose
<1>2. End(p)
  BY <1>1 DEF At, ExplicitReconcileClose
<1>3. Moves(p)
  BY <1>1, <1>2, EndMoves DEF At
<1>4. StoreTyped'
  BY <1>1, CloseTyped DEF At, ExplicitReconcileClose, StoreTyped, db, files,
     history, Outcome
<1>. QED BY <1>3, <1>4, MovesTyped

-----------------------------------------------------------------------------
\* Creation.

LEMMA ProvisionStartTyped ==
  ASSUME Typed, NEW p \in Processes, ProvisionStart(p)
  PROVE  Typed'
<1>1. At(p, "idle")
  BY TypedAt DEF ProvisionStart
<1>2. ASSUME NEW w \in Workspaces, NEW c \in Claims
      PROVE  Fits("cr_begin", [Blank EXCEPT !.cmd = "provision", !.ws = w, !.claim = c])
  <2>1. [Blank EXCEPT !.cmd = "provision", !.ws = w, !.claim = c] \in Memory
    BY <1>1, <1>2, BlankOK DEF At, Memory, AllCommands
  <2>2. LocalOK("cr_begin", [Blank EXCEPT !.cmd = "provision", !.ws = w, !.claim = c])
    BY <1>1, <1>2, BlankOK DEF At, Memory, LocalOK, CommandAt, Blank
  <2>. QED BY <2>1, <2>2 DEF Fits, Label
<1>3. \E w \in Workspaces, c \in Claims : Step(p, "cr_begin", [Blank EXCEPT !.cmd = "provision", !.ws = w, !.claim = c])
  BY <1>1, StoreAssumption DEF At, ProvisionStart
<1>4. Moves(p)
  BY <1>1, <1>2, <1>3, FitsMoves DEF At
<1>5. StoreTyped'
  BY <1>1 DEF At, ProvisionStart, StoreTyped, db, files, history
<1>. QED BY <1>4, <1>5, MovesTyped

LEMMA CreateStartTyped ==
  ASSUME Typed, NEW p \in Processes, CreateStart(p)
  PROVE  Typed'
<1>1. At(p, "idle")
  BY TypedAt DEF CreateStart
<1>2. ASSUME NEW w \in Workspaces
      PROVE  Fits("recover", [Blank EXCEPT !.cmd = "create", !.ws = w])
  <2>1. [Blank EXCEPT !.cmd = "create", !.ws = w] \in Memory
    BY <1>1, <1>2, BlankOK DEF At, Memory, AllCommands
  <2>2. LocalOK("recover", [Blank EXCEPT !.cmd = "create", !.ws = w])
    BY <1>1, <1>2, BlankOK DEF At, Memory, LocalOK, CommandAt, Blank
  <2>. QED BY <2>1, <2>2 DEF Fits, Label
<1>3. \E w \in Workspaces : Step(p, "recover", [Blank EXCEPT !.cmd = "create", !.ws = w])
  BY <1>1 DEF At, CreateStart
<1>4. Moves(p)
  BY <1>1, <1>2, <1>3, FitsMoves DEF At
<1>5. StoreTyped'
  BY <1>1 DEF At, CreateStart, StoreTyped, db, files, history
<1>. QED BY <1>4, <1>5, MovesTyped

LEMMA CreateBeginTyped ==
  ASSUME Typed, NEW p \in Processes, CreateBegin(p)
  PROVE  Typed'
<1>1. At(p, "cr_begin")
  BY TypedAt DEF CreateBegin
<1>2. Fits("cr_mkdir", [mem[p] EXCEPT !.own = TRUE])
  BY <1>1 DEF At, Fits, Label, Memory, LocalOK, CommandAt
<1>3. \/ CallReconcile(p, "cr_mkdir", [mem[p] EXCEPT !.own = TRUE])
      \/ End(p)
  BY <1>1 DEF At, CreateBegin
<1>4. Moves(p)
  BY <1>1, <1>2, <1>3, CallMoves, EndMoves DEF At
<1>5. StoreTyped'
  <2>1. [r \in Repos |-> [st |-> "pending", head |-> "base"]] \in [Repos -> Row]
    BY DEF Row, RowState, Head
  <2>2. mem[p].claim \in Claims \cup {None} /\ "create" \in Kind /\ "creating" \in WorkspaceState /\ "running" \in Outcome
    BY <1>1 DEF At, Memory, Kind, WorkspaceState, Outcome
  <2>. QED BY <1>1, <2>1, <2>2, InsertLeaseTyped, SetWorkspaceTyped DEF At,
     CreateBegin, StoreTyped, db, files, history
<1>. QED BY <1>4, <1>5, MovesTyped

LEMMA CreateMkdirTyped ==
  ASSUME Typed, NEW p \in Processes, CreateMkdir(p)
  PROVE  Typed'
<1>1. At(p, "cr_mkdir")
  BY TypedAt DEF CreateMkdir
<1>2. Fits("rb_dir", mem[p])
  BY <1>1 DEF At, Fits, Label, Memory, LocalOK, CommandAt
<1>3. Fits("cr_intent", mem[p])
  BY <1>1 DEF At, Fits, Label, Memory, LocalOK, CommandAt
<1>4. \/ \E failed \in SUBSET Repos, keep \in BOOLEAN :
             Rollback(p, mem[p], failed, keep)
      \/ Step(p, "cr_intent", mem[p])
      \/ End(p)
  BY <1>1 DEF At, CreateMkdir
<1>5. Moves(p)
  BY <1>1, <1>2, <1>3, <1>4, FitsMoves, RollbackMoves, EndMoves DEF At
<1>6. StoreTyped'
  BY <1>1 DEF At, CreateMkdir, StoreTyped, db, files, history, RootIsWorktree
<1>. QED BY <1>5, <1>6, MovesTyped

LEMMA CreateIntentTyped ==
  ASSUME Typed, NEW p \in Processes, CreateIntent(p)
  PROVE  Typed'
<1>1. At(p, "cr_intent")
  BY TypedAt DEF CreateIntent
<1>2. ASSUME NEW r \in Repos
      PROVE  /\ Fits("cr_add", [mem[p] EXCEPT !.cur = r])
             /\ Fits("rb_dir", [mem[p] EXCEPT !.cur = r])
  BY <1>1, <1>2 DEF At, Fits, Label, Memory, LocalOK, CommandAt
<1>3. \E r \in Repos : 
           \/ Step(p, "cr_add", [mem[p] EXCEPT !.cur = r])
           \/ (\E failed \in SUBSET Repos, keep \in BOOLEAN :
               Rollback(p, [mem[p] EXCEPT !.cur = r], failed, keep))
  BY <1>1 DEF At, CreateIntent
<1>4. Moves(p)
  BY <1>1, <1>2, <1>3, FitsMoves, RollbackMoves DEF At
<1>5. StoreTyped'
  BY <1>1 DEF At, CreateIntent, StoreTyped, db, files, history
<1>. QED BY <1>4, <1>5, MovesTyped

LEMMA CreateAddTyped ==
  ASSUME Typed, NEW p \in Processes, CreateAdd(p)
  PROVE  Typed'
<1>1. At(p, "cr_add")
  BY TypedAt DEF CreateAdd
<1>2. Fits("cr_attach", mem[p])
  BY <1>1 DEF At, Fits, Label, Memory, LocalOK, CommandAt
<1>3. Fits("rb_dir", mem[p])
  BY <1>1 DEF At, Fits, Label, Memory, LocalOK, CommandAt
<1>4. \/ Step(p, "cr_attach", mem[p])
      \/ \E failed \in SUBSET Repos, keep \in BOOLEAN :
             Rollback(p, mem[p], failed, keep)
  BY <1>1 DEF At, CreateAdd
<1>5. Moves(p)
  BY <1>1, <1>2, <1>3, <1>4, FitsMoves, RollbackMoves DEF At
<1>6. StoreTyped'
  BY <1>1, SetDiskTyped DEF At, CreateAdd, StoreTyped, db, files, history,
     Contents
<1>. QED BY <1>5, <1>6, MovesTyped

LEMMA CreateAttachTyped ==
  ASSUME Typed, NEW p \in Processes, CreateAttach(p)
  PROVE  Typed'
<1>1. At(p, "cr_attach")
  BY TypedAt DEF CreateAttach
<1>2. Fits("cr_next", mem[p])
  BY <1>1 DEF At, Fits, Label, Memory, LocalOK, CommandAt
<1>3. Fits("rb_dir", mem[p])
  BY <1>1 DEF At, Fits, Label, Memory, LocalOK, CommandAt
<1>4. \/ CallReconcile(p, "cr_next", mem[p])
      \/ \E failed \in SUBSET Repos, keep \in BOOLEAN :
             Rollback(p, mem[p], failed, keep)
  BY <1>1 DEF At, CreateAttach
<1>5. Moves(p)
  BY <1>1, <1>2, <1>3, <1>4, RollbackMoves, CallMoves DEF At
<1>6. StoreTyped'
  <2>1. \A c : [st |-> "attached", head |-> HeadOf(c)] \in Row
    BY DEF HeadOf, Row, RowState, Head
  <2>. QED BY <1>1, <2>1, SetRowTyped DEF At, CreateAttach, StoreTyped, db,
     files, history
<1>. QED BY <1>5, <1>6, MovesTyped

LEMMA CreateNextTyped ==
  ASSUME Typed, NEW p \in Processes, CreateNext(p)
  PROVE  Typed'
<1>1. At(p, "cr_next")
  BY TypedAt DEF CreateNext
<1>2. Fits("rb_dir", mem[p])
  BY <1>1 DEF At, Fits, Label, Memory, LocalOK, CommandAt
<1>. DEFINE next == [mem[p] EXCEPT !.done = mem[p].done \cup {mem[p].cur},
                               !.cur = None]
<1>3. /\ next \in Memory
      /\ next.cmd = mem[p].cmd /\ next.claim = mem[p].claim
      /\ next.ret = mem[p].ret /\ next.ws = mem[p].ws
  BY <1>1 DEF At, Memory
<1>4. Fits("cr_final", next)
  BY <1>1, <1>3 DEF At, Fits, Label, LocalOK, CommandAt
<1>5. Fits("cr_intent", next)
  BY <1>1, <1>3 DEF At, Fits, Label, LocalOK, CommandAt
<1>6. \/ \E failed \in SUBSET Repos, keep \in BOOLEAN :
             Rollback(p, mem[p], failed, keep)
      \/ CallReconcile(p, "cr_final", next)
      \/ Step(p, "cr_intent", next)
  BY <1>1 DEF At, CreateNext
<1>7. Moves(p)
  BY <1>1, <1>2, <1>4, <1>5, <1>6, FitsMoves, RollbackMoves, CallMoves DEF At
<1>8. StoreTyped'
  BY <1>1 DEF At, CreateNext, StoreTyped, db, files, history
<1>. QED BY <1>7, <1>8, MovesTyped

LEMMA CreateFinalizeTyped ==
  ASSUME Typed, NEW p \in Processes, CreateFinalize(p)
  PROVE  Typed'
<1>1. At(p, "cr_final")
  BY TypedAt DEF CreateFinalize
<1>2. Fits("rb_dir", mem[p])
  BY <1>1 DEF At, Fits, Label, Memory, LocalOK, CommandAt
<1>3. \/ \E failed \in SUBSET Repos, keep \in BOOLEAN :
             Rollback(p, mem[p], failed, keep)
      \/ End(p)
  BY <1>1 DEF At, CreateFinalize
<1>4. Moves(p)
  BY <1>1, <1>2, <1>3, RollbackMoves, EndMoves DEF At
<1>5. StoreTyped'
  <2>1. mem[p].claim \in Claims \cup {None}
    BY <1>1 DEF At, Memory
  <2>. QED BY <1>1, <2>1, CloseTyped, SetWorkspaceTyped DEF At,
     CreateFinalize, StoreTyped, db, files, history, Outcome, WorkspaceState
<1>. QED BY <1>4, <1>5, MovesTyped

LEMMA RollbackRemoveTyped ==
  ASSUME Typed, NEW p \in Processes, RollbackRemove(p)
  PROVE  Typed'
<1>1. At(p, "rb_remove")
  BY TypedAt DEF RollbackRemove
<1>2. ASSUME NEW r \in mem[p].todo, NEW err \in BOOLEAN
      PROVE  Fits("rb_row", [mem[p] EXCEPT !.todo = @ \ {r}, !.cur = r, !.err = @ \/ err])
  <2>1. [mem[p] EXCEPT !.todo = @ \ {r}, !.cur = r, !.err = @ \/ err] \in Memory
    BY <1>1, <1>2 DEF At, Memory
  <2>2. LocalOK("rb_row", [mem[p] EXCEPT !.todo = @ \ {r}, !.cur = r, !.err = @ \/ err])
    BY <1>1, <1>2 DEF At, Memory, LocalOK, CommandAt
  <2>. QED BY <2>1, <2>2 DEF Fits, Label
<1>3. \E r \in mem[p].todo, err \in BOOLEAN : Step(p, "rb_row", [mem[p] EXCEPT !.todo = @ \ {r}, !.cur = r, !.err = @ \/ err])
  BY <1>1 DEF At, RollbackRemove
<1>4. Moves(p)
  BY <1>1, <1>2, <1>3, FitsMoves DEF At
<1>5. StoreTyped'
  <2>1. mem[p].todo \subseteq Repos
    BY <1>1 DEF At, Memory
  <2>. QED BY <1>1, <2>1, GitRemoveTyped DEF At, RollbackRemove, StoreTyped,
     db, files, history
<1>. QED BY <1>4, <1>5, MovesTyped

LEMMA RollbackRowTyped ==
  ASSUME Typed, NEW p \in Processes, RollbackRow(p)
  PROVE  Typed'
<1>1. At(p, "rb_row")
  BY TypedAt DEF RollbackRow
<1>2. Fits("rb_dir", mem[p]) /\ Fits("rb_remove", mem[p])
  BY <1>1 DEF At, Fits, Label, Memory, LocalOK, CommandAt
<1>3. Step(p, "rb_dir", mem[p]) \/ Step(p, "rb_remove", mem[p])
  BY <1>1 DEF At, RollbackRow
<1>4. Moves(p)
  BY <1>1, <1>2, <1>3, FitsMoves DEF At
<1>5. StoreTyped'
  BY <1>1, NoRowsOK, SetRowTyped DEF At, RollbackRow, StoreTyped, db, files,
     history
<1>. QED BY <1>4, <1>5, MovesTyped

LEMMA RollbackDirectoryTyped ==
  ASSUME Typed, NEW p \in Processes, RollbackDirectory(p)
  PROVE  Typed'
<1>1. At(p, "rb_dir")
  BY TypedAt DEF RollbackDirectory
<1>2. Fits("rb_claim", mem[p])
  BY <1>1 DEF At, Fits, Label, Memory, LocalOK, CommandAt
<1>3. Fits("rb_claim", [mem[p] EXCEPT !.err = TRUE])
  BY <1>1 DEF At, Fits, Label, Memory, LocalOK, CommandAt
<1>4. \/ Step(p, "rb_claim", mem[p])
      \/ Step(p, "rb_claim", [mem[p] EXCEPT !.err = TRUE])
  BY <1>1 DEF At, RollbackDirectory
<1>5. Moves(p)
  BY <1>1, <1>2, <1>3, <1>4, FitsMoves DEF At
<1>6. StoreTyped'
  BY <1>1, RemoveRootTyped DEF At, RollbackDirectory, StoreTyped, db, files,
     history
<1>. QED BY <1>5, <1>6, MovesTyped

LEMMA RollbackClaimTyped ==
  ASSUME Typed, NEW p \in Processes, RollbackClaim(p)
  PROVE  Typed'
<1>1. At(p, "rb_claim")
  BY TypedAt DEF RollbackClaim
<1>2. Fits("rb_op", mem[p])
  BY <1>1 DEF At, Fits, Label, Memory, LocalOK, CommandAt
<1>3. ASSUME NEW err \in BOOLEAN
      PROVE  Fits("rb_op", [mem[p] EXCEPT !.err = err])
  BY <1>1, <1>3 DEF At, Fits, Label, Memory, LocalOK, CommandAt
<1>4. \/ Step(p, "rb_op", mem[p])
      \/ \E err \in BOOLEAN : Step(p, "rb_op", [mem[p] EXCEPT !.err = err])
  BY <1>1 DEF At, RollbackClaim
<1>5. Moves(p)
  BY <1>1, <1>2, <1>3, <1>4, FitsMoves DEF At
<1>6. StoreTyped'
  BY <1>1 DEF At, RollbackClaim, StoreTyped, db, files, history
<1>. QED BY <1>5, <1>6, MovesTyped

LEMMA RollbackOperationTyped ==
  ASSUME Typed, NEW p \in Processes, RollbackOperation(p)
  PROVE  Typed'
<1>1. At(p, "rb_op")
  BY TypedAt DEF RollbackOperation
<1>2. Fits("rb_ws", mem[p])
  BY <1>1 DEF At, Fits, Label, Memory, LocalOK, CommandAt
<1>3. Step(p, "rb_ws", mem[p])
  BY <1>1 DEF At, RollbackOperation
<1>4. Moves(p)
  BY <1>1, <1>2, <1>3, FitsMoves DEF At
<1>5. StoreTyped'
  BY <1>1, CloseTyped DEF At, RollbackOperation, StoreTyped, db, files,
     history, Outcome
<1>. QED BY <1>4, <1>5, MovesTyped

LEMMA RollbackWorkspaceTyped ==
  ASSUME Typed, NEW p \in Processes, RollbackWorkspace(p)
  PROVE  Typed'
<1>1. At(p, "rb_ws")
  BY TypedAt DEF RollbackWorkspace
<1>2. End(p)
  BY <1>1 DEF At, RollbackWorkspace
<1>3. Moves(p)
  BY <1>1, <1>2, EndMoves DEF At
<1>4. StoreTyped'
  BY <1>1, SetWorkspaceTyped DEF At, RollbackWorkspace, StoreTyped, db, files,
     history, WorkspaceState
<1>. QED BY <1>3, <1>4, MovesTyped

-----------------------------------------------------------------------------
\* Removal.

LEMMA GcStartTyped ==
  ASSUME Typed, NEW p \in Processes, GcStart(p)
  PROVE  Typed'
<1>1. At(p, "idle")
  BY TypedAt DEF GcStart
<1>2. ASSUME NEW w \in Workspaces, NEW force \in Forces
      PROVE  /\ Fits("recover", [Blank EXCEPT !.cmd = "gc", !.ws = w, !.force = force])
             /\ Fits("gc_scan", [Blank EXCEPT !.cmd = "gc", !.ws = w, !.force = force])
  <2>1. [Blank EXCEPT !.cmd = "gc", !.ws = w, !.force = force] \in Memory
    BY <1>1, <1>2, BlankOK, StoreAssumption DEF At, Memory, AllCommands
  <2>2. LocalOK("recover", [Blank EXCEPT !.cmd = "gc", !.ws = w, !.force = force]) /\ LocalOK("gc_scan", [Blank EXCEPT !.cmd = "gc", !.ws = w, !.force = force])
    BY <1>1, <1>2, BlankOK, StoreAssumption DEF At, Memory, LocalOK,
       CommandAt, Blank
  <2>. QED BY <2>1, <2>2 DEF Fits, Label
<1>3. \E w \in Workspaces, force \in Forces : 
           \/ Step(p, "recover", [Blank EXCEPT !.cmd = "gc", !.ws = w, !.force = force])
           \/ Step(p, "gc_scan", [Blank EXCEPT !.cmd = "gc", !.ws = w, !.force = force])
  BY <1>1, StoreAssumption DEF At, GcStart
<1>4. Moves(p)
  BY <1>1, <1>2, <1>3, FitsMoves DEF At
<1>5. StoreTyped'
  BY <1>1 DEF At, GcStart, StoreTyped, db, files, history
<1>. QED BY <1>4, <1>5, MovesTyped

LEMMA GcScanTyped ==
  ASSUME Typed, NEW p \in Processes, GcScan(p)
  PROVE  Typed'
<1>1. At(p, "gc_scan")
  BY TypedAt DEF GcScan
<1>2. Fits("rm_begin", mem[p])
  BY <1>1 DEF At, Fits, Label, Memory, LocalOK, CommandAt
<1>3. \/ Step(p, "rm_begin", mem[p])
      \/ End(p)
  BY <1>1 DEF At, GcScan
<1>4. Moves(p)
  BY <1>1, <1>2, <1>3, FitsMoves, EndMoves DEF At
<1>5. StoreTyped'
  BY <1>1 DEF At, GcScan, StoreTyped, db, files, history
<1>. QED BY <1>4, <1>5, MovesTyped

LEMMA RemoveStartTyped ==
  ASSUME Typed, NEW p \in Processes, RemoveStart(p)
  PROVE  Typed'
<1>1. At(p, "idle")
  BY TypedAt DEF RemoveStart
<1>2. ASSUME NEW w \in Workspaces, NEW force \in Forces
      PROVE  /\ Fits("recover", [Blank EXCEPT !.cmd = "remove", !.ws = w, !.force = force])
             /\ Fits("rm_refresh", [Blank EXCEPT !.cmd = "remove", !.ws = w, !.force = force])
  <2>1. [Blank EXCEPT !.cmd = "remove", !.ws = w, !.force = force] \in Memory
    BY <1>1, <1>2, BlankOK, StoreAssumption DEF At, Memory, AllCommands
  <2>2. LocalOK("recover", [Blank EXCEPT !.cmd = "remove", !.ws = w, !.force = force]) /\ LocalOK("rm_refresh", [Blank EXCEPT !.cmd = "remove", !.ws = w, !.force = force])
    BY <1>1, <1>2, BlankOK, StoreAssumption DEF At, Memory, LocalOK,
       CommandAt, Blank
  <2>. QED BY <2>1, <2>2 DEF Fits, Label
<1>3. \E w \in Workspaces, force \in Forces : 
           \/ Step(p, "recover", [Blank EXCEPT !.cmd = "remove", !.ws = w, !.force = force])
           \/ Step(p, "rm_refresh", [Blank EXCEPT !.cmd = "remove", !.ws = w, !.force = force])
  BY <1>1, StoreAssumption DEF At, RemoveStart
<1>4. Moves(p)
  BY <1>1, <1>2, <1>3, FitsMoves DEF At
<1>5. StoreTyped'
  BY <1>1 DEF At, RemoveStart, StoreTyped, db, files, history
<1>. QED BY <1>4, <1>5, MovesTyped

LEMMA RemoveRefreshTyped ==
  ASSUME Typed, NEW p \in Processes, RemoveRefresh(p)
  PROVE  Typed'
<1>1. At(p, "rm_refresh")
  BY TypedAt DEF RemoveRefresh
<1>2. Fits("rm_begin", mem[p])
  BY <1>1 DEF At, Fits, Label, Memory, LocalOK, CommandAt
<1>3. \/ Step(p, "rm_begin", mem[p])
      \/ End(p)
  BY <1>1 DEF At, RemoveRefresh
<1>4. Moves(p)
  BY <1>1, <1>2, <1>3, FitsMoves, EndMoves DEF At
<1>5. StoreTyped'
  BY <1>1 DEF At, RemoveRefresh, StoreTyped, db, files, history
<1>. QED BY <1>4, <1>5, MovesTyped

LEMMA RemovalBeginTyped ==
  ASSUME Typed, NEW p \in Processes, RemovalBegin(p)
  PROVE  Typed'
<1>1. At(p, "rm_begin")
  BY TypedAt DEF RemovalBegin
<1>2. Fits("rm_check", [mem[p] EXCEPT !.own = TRUE])
  <2>1. [mem[p] EXCEPT !.own = TRUE] \in Memory
    BY <1>1 DEF At, Memory
  <2>2. LocalOK("rm_check", [mem[p] EXCEPT !.own = TRUE])
    BY <1>1 DEF At, Memory, LocalOK, CommandAt
  <2>. QED BY <2>1, <2>2 DEF Fits, Label
<1>3. \/ CallReconcile(p, "rm_check", [mem[p] EXCEPT !.own = TRUE])
      \/ End(p)
  BY <1>1 DEF At, RemovalBegin
<1>4. Moves(p)
  BY <1>1, <1>2, <1>3, CallMoves, EndMoves DEF At
<1>5. StoreTyped'
  <2>1. mem[p].cmd \in Kind
    BY <1>1 DEF At, LocalOK, CommandAt, Kind
  <2>. QED BY <1>1, <2>1, InsertLeaseTyped DEF At, RemovalBegin, StoreTyped,
     db, files, history
<1>. QED BY <1>4, <1>5, MovesTyped

LEMMA RemovalCheckTyped ==
  ASSUME Typed, NEW p \in Processes, RemovalCheck(p)
  PROVE  Typed'
<1>1. At(p, "rm_check")
  BY TypedAt DEF RemovalCheck
<1>2. Fits("rm_renew", [mem[p] EXCEPT !.todo = Present(Ws(p))])
  BY <1>1 DEF At, Fits, Label, Memory, LocalOK, CommandAt, Present
<1>3. Fits("rm_fail", mem[p]) /\ Fits("fail_op", mem[p])
  BY <1>1 DEF At, Fits, Label, Memory, LocalOK, CommandAt
<1>4. \/ Step(p, "rm_renew", [mem[p] EXCEPT !.todo = Present(Ws(p))])
      \/ Step(p, "rm_fail", mem[p]) \/ Step(p, "fail_op", mem[p])
  BY <1>1 DEF At, RemovalCheck
<1>5. Moves(p)
  BY <1>1, <1>2, <1>3, <1>4, FitsMoves DEF At
<1>6. StoreTyped'
  BY <1>1 DEF At, RemovalCheck, StoreTyped, db, files, history
<1>. QED BY <1>5, <1>6, MovesTyped

LEMMA RemovalRenewTyped ==
  ASSUME Typed, NEW p \in Processes, RemovalRenew(p)
  PROVE  Typed'
<1>1. At(p, "rm_renew")
  BY TypedAt DEF RemovalRenew
<1>2. ASSUME NEW r \in mem[p].todo
      PROVE  Fits("rm_remove", [mem[p] EXCEPT !.todo = @ \ {r}, !.cur = r])
  <2>1. [mem[p] EXCEPT !.todo = @ \ {r}, !.cur = r] \in Memory
    BY <1>1, <1>2 DEF At, Memory
  <2>2. LocalOK("rm_remove", [mem[p] EXCEPT !.todo = @ \ {r}, !.cur = r])
    BY <1>1, <1>2 DEF At, Memory, LocalOK, CommandAt
  <2>. QED BY <2>1, <2>2 DEF Fits, Label
<1>3. Fits("rm_fail", [mem[p] EXCEPT !.todo = {}])
  BY <1>1 DEF At, Fits, Label, Memory, LocalOK, CommandAt
<1>4. \/ \E r \in mem[p].todo : Step(p, "rm_remove", [mem[p] EXCEPT !.todo = @ \ {r}, !.cur = r])
      \/ CallReconcile(p, "rm_fail", [mem[p] EXCEPT !.todo = {}])
  BY <1>1 DEF At, RemovalRenew, GiveUp
<1>5. Moves(p)
  BY <1>1, <1>2, <1>3, <1>4, FitsMoves, CallMoves DEF At
<1>6. StoreTyped'
  BY <1>1 DEF At, RemovalRenew, StoreTyped, db, files, history
<1>. QED BY <1>5, <1>6, MovesTyped

LEMMA RemovalRemoveTyped ==
  ASSUME Typed, NEW p \in Processes, RemovalRemove(p)
  PROVE  Typed'
<1>1. At(p, "rm_remove")
  BY TypedAt DEF RemovalRemove
<1>2. Fits("rm_renew", mem[p])
  BY <1>1 DEF At, Fits, Label, Memory, LocalOK, CommandAt
<1>3. Fits("rm_fail", [mem[p] EXCEPT !.todo = {}])
  BY <1>1 DEF At, Fits, Label, Memory, LocalOK, CommandAt
<1>4. \/ Step(p, "rm_renew", mem[p])
      \/ CallReconcile(p, "rm_fail", [mem[p] EXCEPT !.todo = {}])
  BY <1>1 DEF At, RemovalRemove, GiveUp
<1>5. Moves(p)
  BY <1>1, <1>2, <1>3, <1>4, FitsMoves, CallMoves DEF At
<1>6. StoreTyped'
  BY <1>1, GitRemoveTyped DEF At, RemovalRemove, StoreTyped, db, files, history
<1>. QED BY <1>5, <1>6, MovesTyped

LEMMA RemovalDirectoryTyped ==
  ASSUME Typed, NEW p \in Processes, RemovalDirectory(p)
  PROVE  Typed'
<1>1. At(p, "rm_renew")
  BY TypedAt DEF RemovalDirectory
<1>2. Fits("rm_record", mem[p])
  BY <1>1 DEF At, Fits, Label, Memory, LocalOK, CommandAt
<1>3. Fits("rm_fail", [mem[p] EXCEPT !.todo = {}])
  BY <1>1 DEF At, Fits, Label, Memory, LocalOK, CommandAt
<1>4. \/ Step(p, "rm_record", mem[p])
      \/ CallReconcile(p, "rm_fail", [mem[p] EXCEPT !.todo = {}])
  BY <1>1 DEF At, RemovalDirectory, GiveUp
<1>5. Moves(p)
  BY <1>1, <1>2, <1>3, <1>4, FitsMoves, CallMoves DEF At
<1>6. StoreTyped'
  BY <1>1, RemoveRootTyped DEF At, RemovalDirectory, StoreTyped, db, files,
     history
<1>. QED BY <1>5, <1>6, MovesTyped

LEMMA RemovalRecordTyped ==
  ASSUME Typed, NEW p \in Processes, RemovalRecord(p)
  PROVE  Typed'
<1>1. At(p, "rm_record")
  BY TypedAt DEF RemovalRecord
<1>2. Fits("rm_fail", mem[p])
  BY <1>1 DEF At, Fits, Label, Memory, LocalOK, CommandAt
<1>3. \/ Step(p, "rm_fail", mem[p])
      \/ End(p)
  BY <1>1 DEF At, RemovalRecord
<1>4. Moves(p)
  BY <1>1, <1>2, <1>3, FitsMoves, EndMoves DEF At
<1>5. StoreTyped'
  <2>1. ASSUME NEW r \in Repos
        PROVE  [row[Ws(p)][r] EXCEPT !.st = "removed"] \in Row
    <3>1. row[Ws(p)][r] \in Row
      BY <1>1 DEF At, StoreTyped
    <3>. QED BY <3>1 DEF Row, RowState
  <2>2. row' \in [Workspaces -> [Repos -> Row]]
    <3>. DEFINE tombs == [r \in Repos |-> [row[Ws(p)][r] EXCEPT !.st = "removed"]]
    <3>1. tombs \in [Repos -> Row]
      BY <2>1
    <3>2. row' = [row EXCEPT ![Ws(p)] = tombs] \/ row' = row
      BY DEF RemovalRecord, db
    <3>. HIDE DEF tombs
    <3>. QED BY <1>1, <3>1, <3>2 DEF At, StoreTyped
  <2>3. held' \in [Claims -> Workspaces \cup {None}]
    BY <1>1 DEF At, RemovalRecord, StoreTyped
  <2>4. claim' \in [Workspaces -> Claims \cup {None}]
    BY <1>1 DEF At, RemovalRecord, StoreTyped, db
  <2>5. wsState' \in [Workspaces -> WorkspaceState]
    BY <1>1, SetWorkspaceTyped DEF At, RemovalRecord, StoreTyped, db,
       WorkspaceState
  <2>6. lease' \in [Workspaces -> Lease] /\ createOp' \in [Workspaces -> Outcome]
    BY <1>1, CloseTyped DEF At, RemovalRecord, StoreTyped, db, Outcome
  <2>. QED BY <1>1, <2>2, <2>3, <2>4, <2>5, <2>6 DEF At, RemovalRecord,
     StoreTyped, files
<1>. QED BY <1>4, <1>5, MovesTyped

LEMMA RemovalFailTyped ==
  ASSUME Typed, NEW p \in Processes, RemovalFail(p)
  PROVE  Typed'
<1>1. At(p, "rm_fail")
  BY TypedAt DEF RemovalFail
<1>2. End(p)
  BY <1>1 DEF At, RemovalFail
<1>3. Moves(p)
  BY <1>1, <1>2, EndMoves DEF At
<1>4. StoreTyped'
  BY <1>1, CloseTyped, SetWorkspaceTyped DEF At, RemovalFail, StoreTyped, db,
     files, history, Outcome, WorkspaceState
<1>. QED BY <1>3, <1>4, MovesTyped


-----------------------------------------------------------------------------
\* The steps of a process, and of everything else.

LEMMA ReconcileNextTyped ==
  ASSUME Typed, NEW p \in Processes, ReconcileNext(p)
  PROVE  Typed'
  BY ReconcileReadTyped, ReconcileObserveTyped, ReconcileAbortTyped,
     ReconcileWriteTyped, ReconcileFinishTyped DEF ReconcileNext

LEMMA RecoverNextTyped ==
  ASSUME Typed, NEW p \in Processes, RecoverNext(p)
  PROVE  Typed'
  BY RecoverReadTyped, TakeOverTyped, RecoverCloseTyped, RecoverObserveTyped,
     RecoverAbortTyped, RecoverAttachTyped, RecoverFinalizeTyped,
     RecoverRenewTyped, RecoverRemoveTyped, RecoverRowTyped,
     RecoverDirectoryTyped, RecoverOperationTyped, RecoverWorkspaceTyped DEF
     RecoverNext

LEMMA AccessNextTyped ==
  ASSUME Typed, NEW p \in Processes, AccessNext(p)
  PROVE  Typed'
  BY AllocateStartTyped, AllocateAdmitTyped, AllocateCheckTyped,
     AllocateClaimTyped, AllocateFinishTyped, AccessBeginTyped,
     ClaimStartTyped, ClaimInspectTyped, ClaimPublishTyped, ReleaseStartTyped,
     ReleaseCheckTyped, ReleaseRecordTyped, AlignPlanTyped, AlignStepTyped,
     AlignCheckoutTyped, AlignRecordTyped, AlignDoneTyped,
     ExplicitReconcileStartTyped, ExplicitReconcileBeginTyped,
     ExplicitReconcileCloseTyped DEF AccessNext

LEMMA CreationNextTyped ==
  ASSUME Typed, NEW p \in Processes, CreationNext(p)
  PROVE  Typed'
  BY ProvisionStartTyped, CreateStartTyped, CreateBeginTyped,
     CreateMkdirTyped, CreateIntentTyped, CreateAddTyped, CreateAttachTyped,
     CreateNextTyped, CreateFinalizeTyped, RollbackRemoveTyped,
     RollbackRowTyped, RollbackDirectoryTyped, RollbackClaimTyped,
     RollbackOperationTyped, RollbackWorkspaceTyped DEF CreationNext

LEMMA RemovalNextTyped ==
  ASSUME Typed, NEW p \in Processes, RemovalNext(p)
  PROVE  Typed'
  BY GcStartTyped, GcScanTyped, RemoveStartTyped, RemoveRefreshTyped,
     RemovalBeginTyped, RemovalCheckTyped, RemovalRenewTyped,
     RemovalRemoveTyped, RemovalDirectoryTyped, RemovalRecordTyped,
     RemovalFailTyped DEF RemovalNext

LEMMA WorkTyped ==
  ASSUME Typed, NEW p \in Processes, Work(p)
  PROVE  Typed'
  BY ReconcileNextTyped, RecoverNextTyped, AccessNextTyped, CreationNextTyped,
     RemovalNextTyped, FailOperationTyped DEF Work

\* A death, and whatever leaves the processes alone.
LEMMA CrashTyped ==
  ASSUME Typed, NEW p \in Processes, Crash(p)
  PROVE  Typed'
<1>1. StoreTyped'
  BY DEF Typed, TypeOK, Crash, StoreTyped, db, files, history
<1>. QED BY <1>1, EndMoves, MovesTyped DEF Crash

LEMMA OutsideTyped ==
  ASSUME Typed, StoreTyped', UNCHANGED control
  PROVE  Typed'
  BY DEF Typed, TypeOK, StoreTyped, control

LEMMA ExpireTyped ==
  ASSUME Typed, NEW w \in Workspaces, Expire(w)
  PROVE  Typed'
<1>1. lease[w] \in [kind : Kind, by : Processes, live : BOOLEAN]
  BY DEF Typed, TypeOK, Expire, Lease, NoLease
<1>2. [lease[w] EXCEPT !.live = FALSE] \in Lease
  BY <1>1 DEF Lease
<1>3. StoreTyped'
  BY <1>2 DEF Typed, TypeOK, StoreTyped, Expire, files, history
<1>. QED BY <1>3, OutsideTyped DEF Expire

LEMMA UserEditTyped ==
  ASSUME Typed, NEW w \in Workspaces, NEW r \in Repos, UserEdit(w, r)
  PROVE  Typed'
<1>1. StoreTyped'
  BY StoreAssumption DEF Typed, TypeOK, StoreTyped, UserEdit, db, history
<1>. QED BY <1>1, OutsideTyped DEF UserEdit

LEMMA StutterTyped ==
  ASSUME Typed, UNCHANGED vars
  PROVE  Typed'
  BY DEF Typed, TypeOK, vars

LEMMA NextTyped ==
  ASSUME Typed, [Next]_vars
  PROVE  Typed'
  BY WorkTyped, CrashTyped, ExpireTyped, UserEditTyped, StutterTyped DEF Next

LEMMA InitTyped == Init => Typed
<1>. SUFFICES ASSUME Init PROVE Typed
  OBVIOUS
<1>1. TypeOK
  BY BlankOK, NoRowsOK DEF Init, TypeOK, WorkspaceState, Lease, Outcome, Contents, Label
<1>. QED BY <1>1, BlankOK DEF Init, Typed

THEOREM SpecTyped == Spec => []Typed
  BY InitTyped, NextTyped, PTL DEF Spec

\* Every table row, file and local variable keeps its type (the schema of
\* src/storage/schema.rs and the local variables of the commands), for any
\* number of processes, workspaces, repositories and claims.
THEOREM SpecTypeOK == Spec => []TypeOK
<1>1. Typed => TypeOK
  BY DEF Typed
<1>. QED BY <1>1, SpecTyped, PTL
=============================================================================
