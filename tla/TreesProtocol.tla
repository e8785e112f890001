---------------------------- MODULE TreesProtocol ---------------------------
(***************************************************************************)
(* What the steps of a process do to leases and claims.  The actions of    *)
(* Trees are many, but seen through the tables operation_leases and        *)
(* workspace_claims each is one of eleven kinds of step: the lemma            *)
(* WorkProtocol says so, and the invariants of TreesInvariants are proved  *)
(* against the kinds.                                                      *)
(***************************************************************************)
EXTENDS TreesTypes

\* The steps a process takes only after it was given a lease, and before it
\* gave it back.
OwnedLabel == Label \ {"idle", "recover", "takeover", "al_admit", "al_begin",
                       "cl_begin", "rl_begin", "rec_begin", "cr_begin", "gc_scan",
                       "rm_refresh", "rm_begin", "rv_ws", "rb_ws"}

\* The steps of a removal that has passed its guards.
Removing == {"rm_renew", "rm_remove", "rm_record"}

\* The commands that insert a claim of their own.
Claiming == {"allocate", "provision", "claim"}

\* A process may be there before its workspace has a row.
Unrecorded(l, m) == l \in {"idle", "cr_begin"} \/ (l = "recover" /\ m.cmd = "create")

\* A process has yet to insert its claim.
Pending(l, m) ==
    \/ m.cmd = "allocate" /\ l \notin {"al_finish", "fail_op"}
    \/ m.cmd = "provision" /\ l = "cr_begin"
    \/ m.cmd = "claim"

SameCommand(p, m) ==
    /\ m.ws = mem[p].ws /\ m.cmd = mem[p].cmd
    /\ m.claim = mem[p].claim /\ m.force = mem[p].force

\* A process goes on with its command.
CanContinue(p, l, m) ==
    /\ SameCommand(p, m)
    /\ m.own => mem[p].own
    /\ l \in OwnedLabel => pc[p] \in OwnedLabel /\ m.own = mem[p].own
    /\ l \in {"idle", "recover", "al_finish"} => l = pc[p]
    /\ pc[p] # "idle"
    /\ ~Unrecorded(l, m) => ~Unrecorded(pc[p], mem[p]) \/ Running(Ws(p))
    /\ Pending(l, m) => Pending(pc[p], mem[p])
    /\ l \in Removing =>
           pc[p] \in Removing \/ ClaimGuard(Ws(p), mem[p].cmd, mem[p].force)

Continues(p) == \E l, m : Step(p, l, m) /\ CanContinue(p, l, m)

StateKept == \A w \in Workspaces : wsState[w] # "none" => wsState'[w] # "none"

-----------------------------------------------------------------------------
(* The kinds. *)

Plain(p) ==
    /\ pc[p] # "idle"
    /\ StateKept
    /\ UNCHANGED <<lease, createOp, claim, history>>
    /\ End(p) \/ Continues(p)

CanStart(l, m) ==
    /\ l \in {"recover", "cl_begin", "rl_begin", "cr_begin", "gc_scan", "rm_refresh"}
    /\ m.ws \in Workspaces /\ m.own = FALSE
    /\ Unrecorded(l, m) \/ wsState[m.ws] # "none" \/ claim[m.ws] # None
    /\ m.cmd \in Claiming => FreshClaim(m.claim)

Starts(p) ==
    /\ pc[p] = "idle"
    /\ UNCHANGED <<db, history>>
    /\ \E l, m : Step(p, l, m) /\ CanStart(l, m)

GoesOnOwning(p) ==
    \E l, m : /\ Step(p, l, m)
              /\ SameCommand(p, m) /\ m.own = TRUE
              /\ l \in OwnedLabel \ (Removing \cup {"al_finish"})

\* A lease is inserted where there is none, or replaces an expired one of the
\* same operation.
Admits(p) ==
    /\ StateKept
    /\ UNCHANGED <<createOp, claim, history>>
    /\ ~Unrecorded(pc[p], mem[p]) /\ pc[p] \notin OwnedLabel
    /\ \E k \in Kind :
        /\ InsertLease(p, k)
        /\ \/ lease[Ws(p)] = NoLease /\ k # "create"
           \/ Running(Ws(p)) /\ ~lease[Ws(p)].live /\ lease[Ws(p)].kind = k
    /\ GoesOnOwning(p)

Closes(p) ==
    /\ pc[p] # "idle" /\ Holds(p)
    /\ StateKept
    /\ UNCHANGED <<claim, history>>
    /\ \E outcome \in Outcome : CloseOperation(p, outcome)
    /\ End(p) \/ \E l, m : /\ Step(p, l, m)
                           /\ CanContinue(p, l, m) /\ l \notin OwnedLabel

\* CreateBegin
Creates(p) ==
    /\ pc[p] = "cr_begin"
    /\ mem[p].cmd \in {"provision", "create"}
    /\ wsState[Ws(p)] = "none"
    /\ SetWorkspace(p, "creating")
    /\ InsertLease(p, "create")
    /\ createOp' = [createOp EXCEPT ![Ws(p)] = "running"]
    /\ claim' = [claim EXCEPT ![Ws(p)] = mem[p].claim]
    /\ issued' = issued \cup ({mem[p].claim} \ {None})
    /\ UNCHANGED held
    /\ \E m : Step(p, "rc_read", m) /\ SameCommand(p, m) /\ m.own = TRUE

\* AllocateClaim
Inserts(p) ==
    /\ pc[p] = "al_claim" /\ mem[p].cmd = "allocate"
    /\ Holds(p) /\ claim[Ws(p)] = None
    /\ claim'  = [claim EXCEPT ![Ws(p)] = mem[p].claim]
    /\ issued' = issued \cup {mem[p].claim}
    /\ UNCHANGED <<wsState, lease, createOp, held>>
    /\ Step(p, "al_finish", mem[p])

\* AllocateFinish, CreateFinalize of a provisioning
Confirms(p) ==
    /\ \/ pc[p] = "al_finish" /\ mem[p].cmd = "allocate"
       \/ pc[p] = "cr_final" /\ mem[p].cmd = "provision" /\ claim[Ws(p)] = mem[p].claim
    /\ Holds(p)
    /\ StateKept
    /\ CloseOperation(p, "succeeded")
    /\ held' = [held EXCEPT ![mem[p].claim] = Ws(p)]
    /\ UNCHANGED <<claim, issued>>
    /\ End(p)

\* ClaimPublish
Publishes(p) ==
    /\ pc[p] = "cl_publish" /\ mem[p].cmd = "claim"
    /\ Holds(p) /\ claim[Ws(p)] = None
    /\ claim'  = [claim EXCEPT ![Ws(p)] = mem[p].claim]
    /\ issued' = issued \cup {mem[p].claim}
    /\ held'   = [held EXCEPT ![mem[p].claim] = Ws(p)]
    /\ CloseOperation(p, "succeeded")
    /\ UNCHANGED wsState
    /\ End(p)

\* ReleaseRecord
Releases(p) ==
    /\ pc[p] = "rl_record" /\ mem[p].cmd = "release"
    /\ Holds(p) /\ claim[Ws(p)] = mem[p].claim
    /\ claim' = [claim EXCEPT ![Ws(p)] = None]
    /\ held'  = [held EXCEPT ![mem[p].claim] = None]
    /\ StateKept
    /\ CloseOperation(p, "succeeded")
    /\ UNCHANGED issued
    /\ End(p)

\* RollbackClaim
Withdraws(p) ==
    /\ pc[p] = "rb_claim" /\ mem[p].cmd = "provision"
    /\ claim[Ws(p)] = mem[p].claim
    /\ claim' = [claim EXCEPT ![Ws(p)] = None]
    /\ UNCHANGED <<wsState, lease, createOp, history>>
    /\ Step(p, "rb_op", mem[p])

\* RemovalRecord
Buries(p) ==
    /\ pc[p] = "rm_record"
    /\ Holds(p)
    /\ claim' = [claim EXCEPT ![Ws(p)] = None]
    /\ held' = IF mem[p].cmd = "remove" /\ mem[p].force
               THEN [c \in Claims |-> IF held[c] = Ws(p) THEN None ELSE held[c]]
               ELSE held
    /\ StateKept
    /\ CloseOperation(p, "succeeded")
    /\ UNCHANGED issued
    /\ End(p)

ProtocolStep(p) ==
    \/ Plain(p) \/ Starts(p) \/ Admits(p) \/ Closes(p)
    \/ Creates(p) \/ Inserts(p) \/ Confirms(p) \/ Publishes(p) \/ Releases(p)
    \/ Withdraws(p) \/ Buries(p)

-----------------------------------------------------------------------------
(* One lemma per action. *)

USE DEF Reconciling, Recovering, ReturnLabel, AtRepository, Removing, Claiming

LEMMA TypedHere ==
  ASSUME Typed, NEW p \in Processes
  PROVE  /\ StoreTyped /\ mem[p] \in Memory /\ LocalOK(pc[p], mem[p])
         /\ pc[p] # "idle" => Ws(p) \in Workspaces
  BY DEF Typed, TypeOK, StoreTyped, LocalOK, Ws

LEMMA KeptOK ==
  ASSUME UNCHANGED wsState
  PROVE  StateKept
  BY DEF StateKept

LEMMA SetKeptOK ==
  ASSUME StoreTyped, NEW p, Ws(p) \in Workspaces, NEW s, s # "none", SetWorkspace(p, s)
  PROVE  StateKept
  BY DEF StateKept, StoreTyped, SetWorkspace

LEMMA HealthRecorded ==
  ASSUME NEW rows, NEW tidy
  PROVE  Health(rows, tidy) # "none"
  BY DEF Health

LEMMA ReturnContinues ==
  ASSUME Typed, NEW p \in Processes, pc[p] \in Reconciling, NEW s, Return(p, s)
  PROVE  Continues(p)
<1>. DEFINE m == [mem[p] EXCEPT !.rows = NoRows, !.todo = {}, !.at = None,
                                !.ret = "idle", !.sum = s]
<1>1. mem[p] \in Memory /\ mem[p].ret \in ReturnLabel
  BY TypedHere DEF LocalOK
<1>2. CanContinue(p, mem[p].ret, m)
  BY <1>1 DEF CanContinue, SameCommand, Memory, OwnedLabel, Label, Unrecorded, Pending
<1>. QED BY <1>2 DEF Return, Continues

LEMMA AfterRecoveryContinues ==
  ASSUME Typed, NEW p \in Processes, pc[p] \in Recovering, NEW o, AfterRecovery(p, o)
  PROVE  \/ End(p)
         \/ \E l, m : Step(p, l, m) /\ CanContinue(p, l, m) /\ l \notin OwnedLabel
<1>. DEFINE m == [mem[p] EXCEPT !.own = FALSE, !.seen = NoLease, !.rows = NoRows,
                                !.todo = {}, !.done = {}, !.cur = None,
                                !.sum = "none", !.err = FALSE]
<1>1. /\ mem[p] \in Memory
      /\ mem[p].cmd \in {"allocate", "create", "reconcile", "gc", "remove"}
  BY TypedHere DEF LocalOK, CommandAt
<1>2. \/ End(p)
      \/ mem[p].cmd = "create" /\ Step(p, "cr_begin", m)
      \/ \E l \in {"al_admit", "rec_begin", "gc_scan", "rm_refresh"} :
            mem[p].cmd # "create" /\ Step(p, l, m)
  BY <1>1 DEF AfterRecovery, GoOn, Memory
<1>3. SameCommand(p, m) /\ m.own = FALSE
  BY <1>1 DEF SameCommand, Memory
<1>4. \A l \in {"al_admit", "rec_begin", "gc_scan", "rm_refresh"} :
        mem[p].cmd # "create" => CanContinue(p, l, m)
  BY <1>3 DEF CanContinue, SameCommand, OwnedLabel, Unrecorded, Pending
<1>5. mem[p].cmd = "create" => CanContinue(p, "cr_begin", m)
  BY <1>3 DEF CanContinue, SameCommand, OwnedLabel, Unrecorded, Pending
<1>. HIDE DEF m
<1>. QED BY <1>2, <1>4, <1>5 DEF OwnedLabel

LEMMA RollbackContinues ==
  ASSUME Typed, NEW p \in Processes, NEW m \in Memory, CanContinue(p, "rb_dir", m),
         NEW failed, NEW keep, Rollback(p, m, failed, keep)
  PROVE  Continues(p)
<1>. DEFINE n == [m EXCEPT !.todo = m.done \cup failed, !.done = failed,
                           !.keep = keep, !.err = FALSE]
<1>1. n.ws = m.ws /\ n.cmd = m.cmd /\ n.claim = m.claim /\ n.force = m.force /\ n.own = m.own
  BY DEF Memory
<1>2. CanContinue(p, "rb_dir", n) /\ CanContinue(p, "rb_remove", n)
  BY <1>1 DEF CanContinue, SameCommand, OwnedLabel, Label, Unrecorded, Pending
<1>3. Step(p, "rb_dir", n) \/ Step(p, "rb_remove", n)
  BY DEF Rollback
<1>. QED BY <1>2, <1>3 DEF Continues

-----------------------------------------------------------------------------
\* Reconciliation.

LEMMA ReconcileReadKind ==
  ASSUME Typed, NEW p \in Processes, ReconcileRead(p)
  PROVE  Plain(p)
<1>1. pc[p] = "rc_read" /\ mem[p] \in Memory /\ StoreTyped /\ Ws(p) \in Workspaces
  BY TypedHere DEF ReconcileRead
<1>2. CanContinue(p, "rc_observe", [mem[p] EXCEPT !.rows = row[Ws(p)], !.todo = Repos])
  BY <1>1 DEF CanContinue, SameCommand, Memory, OwnedLabel, Label, Unrecorded,
     Pending
<1>3. \/ Step(p, "rc_observe", [mem[p] EXCEPT !.rows = row[Ws(p)], !.todo = Repos])
      \/ \E s : Return(p, s)
  BY <1>1 DEF ReconcileRead
<1>4. End(p) \/ Continues(p)
  BY <1>1, <1>2, <1>3, ReturnContinues DEF Continues
<1>. QED BY <1>4, KeptOK DEF Plain, ReconcileRead, db

LEMMA ReconcileObserveKind ==
  ASSUME Typed, NEW p \in Processes, ReconcileObserve(p)
  PROVE  Plain(p)
<1>1. pc[p] = "rc_observe" /\ mem[p] \in Memory /\ StoreTyped /\ Ws(p) \in Workspaces
  BY TypedHere DEF ReconcileObserve
<1>2. ASSUME NEW r \in mem[p].todo, NEW seen \in Row
      PROVE  /\ CanContinue(p, "rc_observe", [mem[p] EXCEPT !.rows[r] = seen, !.todo = @ \ {r}, !.at = r])
             /\ CanContinue(p, "rc_write", [mem[p] EXCEPT !.rows[r] = seen, !.todo = @ \ {r}, !.at = r])
  BY <1>1, <1>2 DEF CanContinue, SameCommand, Memory, OwnedLabel, Label,
     Unrecorded, Pending
<1>3. \E r \in mem[p].todo, seen \in Row : 
           \/ Step(p, "rc_observe", [mem[p] EXCEPT !.rows[r] = seen, !.todo = @ \ {r}, !.at = r])
           \/ Step(p, "rc_write", [mem[p] EXCEPT !.rows[r] = seen, !.todo = @ \ {r}, !.at = r])
  BY <1>1 DEF ReconcileObserve
<1>4. End(p) \/ Continues(p)
  BY <1>1, <1>2, <1>3 DEF Continues
<1>. QED BY <1>4, KeptOK DEF Plain, ReconcileObserve, db

LEMMA ReconcileAbortKind ==
  ASSUME Typed, NEW p \in Processes, ReconcileAbort(p)
  PROVE  Plain(p)
<1>1. pc[p] = "rc_observe" /\ mem[p] \in Memory /\ StoreTyped /\ Ws(p) \in Workspaces
  BY TypedHere DEF ReconcileAbort
<1>2. \E s : Return(p, s)
  BY <1>1 DEF ReconcileAbort
<1>3. End(p) \/ Continues(p)
  BY <1>1, <1>2, ReturnContinues DEF Continues
<1>. QED BY <1>3, KeptOK DEF Plain, ReconcileAbort, db

LEMMA ReconcileWriteKind ==
  ASSUME Typed, NEW p \in Processes, ReconcileWrite(p)
  PROVE  Plain(p)
<1>1. pc[p] = "rc_write" /\ mem[p] \in Memory /\ StoreTyped /\ Ws(p) \in Workspaces
  BY TypedHere DEF ReconcileWrite
<1>2. CanContinue(p, "rc_observe", mem[p])
  BY <1>1 DEF CanContinue, SameCommand, Memory, OwnedLabel, Label, Unrecorded,
     Pending
<1>3. Step(p, "rc_observe", mem[p])
  BY <1>1 DEF ReconcileWrite
<1>4. End(p) \/ Continues(p)
  BY <1>1, <1>2, <1>3 DEF Continues
<1>. QED BY <1>4, KeptOK DEF Plain, ReconcileWrite, db

LEMMA ReconcileFinishKind ==
  ASSUME Typed, NEW p \in Processes, ReconcileFinish(p)
  PROVE  Plain(p)
<1>1. pc[p] = "rc_observe" /\ mem[p] \in Memory /\ StoreTyped /\ Ws(p) \in Workspaces
  BY TypedHere DEF ReconcileFinish
<1>2. \E s : Return(p, s)
  BY <1>1 DEF ReconcileFinish
<1>3. End(p) \/ Continues(p)
  BY <1>1, <1>2, ReturnContinues DEF Continues
<1>4. StateKept
  BY <1>1, SetKeptOK, HealthRecorded DEF ReconcileFinish
<1>. QED BY <1>3, <1>4 DEF Plain, ReconcileFinish, history

-----------------------------------------------------------------------------
\* Recovery.

LEMMA RecoverReadKind ==
  ASSUME Typed, NEW p \in Processes, RecoverRead(p)
  PROVE  Plain(p)
<1>1. pc[p] = "recover" /\ mem[p] \in Memory /\ StoreTyped /\ Ws(p) \in Workspaces
  BY TypedHere DEF RecoverRead
<1>2. ASSUME Running(Ws(p))
      PROVE  CanContinue(p, "takeover", [mem[p] EXCEPT !.seen = lease[Ws(p)]])
  BY <1>1, <1>2 DEF CanContinue, SameCommand, Memory, OwnedLabel, Label,
     Unrecorded, Pending
<1>3. \/ Running(Ws(p)) /\ Step(p, "takeover", [mem[p] EXCEPT !.seen = lease[Ws(p)]])
      \/ End(p)
      \/ \E o : AfterRecovery(p, o)
  BY <1>1 DEF RecoverRead
<1>4. End(p) \/ Continues(p)
  BY <1>1, <1>2, <1>3, AfterRecoveryContinues DEF Continues
<1>. QED BY <1>4, KeptOK DEF Plain, RecoverRead, db

LEMMA RecoverObserveKind ==
  ASSUME Typed, NEW p \in Processes, RecoverObserve(p)
  PROVE  Plain(p)
<1>1. pc[p] = "rv_observe" /\ mem[p] \in Memory /\ StoreTyped /\ Ws(p) \in Workspaces
  BY TypedHere DEF RecoverObserve
<1>2. ASSUME NEW todo \in SUBSET Repos
      PROVE  CanContinue(p, "rv_attach", [mem[p] EXCEPT !.todo = todo])
  BY <1>1, <1>2 DEF CanContinue, SameCommand, Memory, OwnedLabel, Label,
     Unrecorded, Pending
<1>3. ASSUME NEW done \in SUBSET Repos, NEW err \in BOOLEAN
      PROVE  CanContinue(p, "rv_renew", [mem[p] EXCEPT !.todo = Repos, !.done = done, !.err = err])
  BY <1>1, <1>3 DEF CanContinue, SameCommand, Memory, OwnedLabel, Label,
     Unrecorded, Pending
<1>4. \/ \E todo \in SUBSET Repos : Step(p, "rv_attach", [mem[p] EXCEPT !.todo = todo])
      \/ \E done \in SUBSET Repos, err \in BOOLEAN : Step(p, "rv_renew", [mem[p] EXCEPT !.todo = Repos, !.done = done, !.err = err])
  BY <1>1 DEF RecoverObserve, Present
<1>5. End(p) \/ Continues(p)
  BY <1>1, <1>2, <1>3, <1>4 DEF Continues
<1>. QED BY <1>5, KeptOK DEF Plain, RecoverObserve, db

LEMMA RecoverAbortKind ==
  ASSUME Typed, NEW p \in Processes, RecoverAbort(p)
  PROVE  Plain(p)
<1>1. pc[p] = "rv_observe" /\ mem[p] \in Memory /\ StoreTyped /\ Ws(p) \in Workspaces
  BY TypedHere DEF RecoverAbort
<1>2. End(p)
  BY <1>1 DEF RecoverAbort
<1>3. End(p) \/ Continues(p)
  BY <1>1, <1>2 DEF Continues
<1>. QED BY <1>3, KeptOK DEF Plain, RecoverAbort, db

LEMMA RecoverAttachKind ==
  ASSUME Typed, NEW p \in Processes, RecoverAttach(p)
  PROVE  Plain(p)
<1>1. pc[p] = "rv_attach" /\ mem[p] \in Memory /\ StoreTyped /\ Ws(p) \in Workspaces
  BY TypedHere DEF RecoverAttach
<1>2. ASSUME NEW r \in mem[p].todo
      PROVE  CanContinue(p, "rv_attach", [mem[p] EXCEPT !.todo = @ \ {r}])
  BY <1>1, <1>2 DEF CanContinue, SameCommand, Memory, OwnedLabel, Label,
     Unrecorded, Pending
<1>3. \E r \in mem[p].todo : Step(p, "rv_attach", [mem[p] EXCEPT !.todo = @ \ {r}])
  BY <1>1 DEF RecoverAttach
<1>4. End(p) \/ Continues(p)
  BY <1>1, <1>2, <1>3 DEF Continues
<1>. QED BY <1>4, KeptOK DEF Plain, RecoverAttach, db

LEMMA RecoverRenewKind ==
  ASSUME Typed, NEW p \in Processes, RecoverRenew(p)
  PROVE  Plain(p)
<1>1. pc[p] = "rv_renew" /\ mem[p] \in Memory /\ StoreTyped /\ Ws(p) \in Workspaces
  BY TypedHere DEF RecoverRenew
<1>2. ASSUME NEW r \in mem[p].todo, NEW err \in BOOLEAN
      PROVE  /\ CanContinue(p, "rv_remove", [mem[p] EXCEPT !.todo = @ \ {r}, !.cur = r, !.err = err])
             /\ CanContinue(p, "rv_row", [mem[p] EXCEPT !.todo = @ \ {r}, !.cur = r, !.err = err])
  BY <1>1, <1>2 DEF CanContinue, SameCommand, Memory, OwnedLabel, Label,
     Unrecorded, Pending
<1>3. \E r \in mem[p].todo, err \in BOOLEAN : 
           \/ Step(p, "rv_remove", [mem[p] EXCEPT !.todo = @ \ {r}, !.cur = r, !.err = err])
           \/ Step(p, "rv_row", [mem[p] EXCEPT !.todo = @ \ {r}, !.cur = r, !.err = err])
  BY <1>1 DEF RecoverRenew
<1>4. End(p) \/ Continues(p)
  BY <1>1, <1>2, <1>3 DEF Continues
<1>. QED BY <1>4, KeptOK DEF Plain, RecoverRenew, db

LEMMA RecoverRemoveKind ==
  ASSUME Typed, NEW p \in Processes, RecoverRemove(p)
  PROVE  Plain(p)
<1>1. pc[p] = "rv_remove" /\ mem[p] \in Memory /\ StoreTyped /\ Ws(p) \in Workspaces
  BY TypedHere DEF RecoverRemove
<1>2. CanContinue(p, "rv_row", mem[p])
  BY <1>1 DEF CanContinue, SameCommand, Memory, OwnedLabel, Label, Unrecorded,
     Pending
<1>3. CanContinue(p, "rv_row", [mem[p] EXCEPT !.err = TRUE])
  BY <1>1 DEF CanContinue, SameCommand, Memory, OwnedLabel, Label, Unrecorded,
     Pending
<1>4. \/ Step(p, "rv_row", mem[p])
      \/ Step(p, "rv_row", [mem[p] EXCEPT !.err = TRUE])
  BY <1>1 DEF RecoverRemove
<1>5. End(p) \/ Continues(p)
  BY <1>1, <1>2, <1>3, <1>4 DEF Continues
<1>. QED BY <1>5, KeptOK DEF Plain, RecoverRemove, db

LEMMA RecoverRowKind ==
  ASSUME Typed, NEW p \in Processes, RecoverRow(p)
  PROVE  Plain(p)
<1>1. pc[p] = "rv_row" /\ mem[p] \in Memory /\ StoreTyped /\ Ws(p) \in Workspaces
  BY TypedHere DEF RecoverRow
<1>2. /\ CanContinue(p, "rv_dir", mem[p])
      /\ CanContinue(p, "rv_renew", mem[p])
  BY <1>1 DEF CanContinue, SameCommand, Memory, OwnedLabel, Label, Unrecorded,
     Pending
<1>3. Step(p, "rv_dir", mem[p]) \/ Step(p, "rv_renew", mem[p])
  BY <1>1 DEF RecoverRow
<1>4. End(p) \/ Continues(p)
  BY <1>1, <1>2, <1>3 DEF Continues
<1>. QED BY <1>4, KeptOK DEF Plain, RecoverRow, db

LEMMA RecoverDirectoryKind ==
  ASSUME Typed, NEW p \in Processes, RecoverDirectory(p)
  PROVE  Plain(p)
<1>1. pc[p] = "rv_dir" /\ mem[p] \in Memory /\ StoreTyped /\ Ws(p) \in Workspaces
  BY TypedHere DEF RecoverDirectory
<1>2. CanContinue(p, "rv_op", mem[p])
  BY <1>1 DEF CanContinue, SameCommand, Memory, OwnedLabel, Label, Unrecorded,
     Pending
<1>3. CanContinue(p, "rv_op", [mem[p] EXCEPT !.err = TRUE])
  BY <1>1 DEF CanContinue, SameCommand, Memory, OwnedLabel, Label, Unrecorded,
     Pending
<1>4. \/ Step(p, "rv_op", mem[p])
      \/ Step(p, "rv_op", [mem[p] EXCEPT !.err = TRUE])
  BY <1>1 DEF RecoverDirectory
<1>5. End(p) \/ Continues(p)
  BY <1>1, <1>2, <1>3, <1>4 DEF Continues
<1>. QED BY <1>5, KeptOK DEF Plain, RecoverDirectory, db

LEMMA RecoverWorkspaceKind ==
  ASSUME Typed, NEW p \in Processes, RecoverWorkspace(p)
  PROVE  Plain(p)
<1>1. pc[p] = "rv_ws" /\ mem[p] \in Memory /\ StoreTyped /\ Ws(p) \in Workspaces
  BY TypedHere DEF RecoverWorkspace
<1>2. \E o : AfterRecovery(p, o)
  BY <1>1 DEF RecoverWorkspace
<1>3. End(p) \/ Continues(p)
  BY <1>1, <1>2, AfterRecoveryContinues DEF Continues
<1>4. StateKept
  BY <1>1, SetKeptOK, HealthRecorded DEF RecoverWorkspace
<1>. QED BY <1>3, <1>4 DEF Plain, RecoverWorkspace, history

-----------------------------------------------------------------------------
\* Access.

LEMMA AllocateStartKind ==
  ASSUME Typed, NEW p \in Processes, AllocateStart(p)
  PROVE  Starts(p)
<1>1. pc[p] = "idle" /\ mem[p] \in Memory /\ StoreTyped
  BY TypedHere DEF AllocateStart
<1>2. ASSUME NEW w \in Workspaces, NEW c \in Claims, wsState[w] = "ready", FreshClaim(c)
      PROVE  CanStart("recover", [Blank EXCEPT !.cmd = "allocate", !.ws = w, !.claim = c])
  BY <1>1, <1>2, BlankOK DEF CanStart, Unrecorded, Memory, Blank
<1>3. \E w \in Workspaces, c \in Claims : 
           wsState[w] = "ready" /\ FreshClaim(c) /\ Step(p, "recover", [Blank EXCEPT !.cmd = "allocate", !.ws = w, !.claim = c])
  BY <1>1, StoreAssumption DEF AllocateStart
<1>. QED BY <1>1, <1>2, <1>3 DEF Starts, AllocateStart

LEMMA AllocateAdmitKind ==
  ASSUME Typed, NEW p \in Processes, AllocateAdmit(p)
  PROVE  Plain(p)
<1>1. pc[p] = "al_admit" /\ mem[p] \in Memory /\ StoreTyped /\ Ws(p) \in Workspaces
  BY TypedHere DEF AllocateAdmit
<1>2. CanContinue(p, "al_begin", mem[p])
  BY <1>1 DEF CanContinue, SameCommand, Memory, OwnedLabel, Label, Unrecorded,
     Pending
<1>3. \/ Step(p, "al_begin", mem[p])
      \/ End(p)
  BY <1>1 DEF AllocateAdmit
<1>4. End(p) \/ Continues(p)
  BY <1>1, <1>2, <1>3 DEF Continues
<1>. QED BY <1>4, KeptOK DEF Plain, AllocateAdmit, db

LEMMA AllocateCheckKind ==
  ASSUME Typed, NEW p \in Processes, AllocateCheck(p)
  PROVE  Plain(p)
<1>1. pc[p] = "al_check" /\ mem[p] \in Memory /\ StoreTyped /\ Ws(p) \in Workspaces
  BY TypedHere DEF AllocateCheck
<1>2. /\ CanContinue(p, "align_plan", mem[p])
      /\ CanContinue(p, "fail_op", mem[p])
  BY <1>1 DEF CanContinue, SameCommand, Memory, OwnedLabel, Label, Unrecorded,
     Pending
<1>3. Step(p, "align_plan", mem[p]) \/ Step(p, "fail_op", mem[p])
  BY <1>1 DEF AllocateCheck
<1>4. End(p) \/ Continues(p)
  BY <1>1, <1>2, <1>3 DEF Continues
<1>. QED BY <1>4, KeptOK DEF Plain, AllocateCheck, db

LEMMA ClaimStartKind ==
  ASSUME Typed, NEW p \in Processes, ClaimStart(p)
  PROVE  Starts(p)
<1>1. pc[p] = "idle" /\ mem[p] \in Memory /\ StoreTyped
  BY TypedHere DEF ClaimStart
<1>2. ASSUME NEW w \in Workspaces, NEW c \in Claims, wsState[w] # "none", FreshClaim(c)
      PROVE  CanStart("cl_begin", [Blank EXCEPT !.cmd = "claim", !.ws = w, !.claim = c])
  BY <1>1, <1>2, BlankOK DEF CanStart, Unrecorded, Memory, Blank
<1>3. \E w \in Workspaces, c \in Claims : 
           wsState[w] # "none" /\ FreshClaim(c) /\ Step(p, "cl_begin", [Blank EXCEPT !.cmd = "claim", !.ws = w, !.claim = c])
  BY <1>1 DEF ClaimStart, ClaimableMetadata
<1>. QED BY <1>1, <1>2, <1>3 DEF Starts, ClaimStart

LEMMA ClaimInspectKind ==
  ASSUME Typed, NEW p \in Processes, ClaimInspect(p)
  PROVE  Plain(p)
<1>1. pc[p] \in {"cl_inspect", "cl_reinspect"} /\ mem[p] \in Memory /\ StoreTyped /\ Ws(p) \in Workspaces
  BY TypedHere DEF ClaimInspect
<1>2. CanContinue(p, "rc_read", [mem[p] EXCEPT !.ret = "cl_reinspect"])
  BY <1>1 DEF CanContinue, SameCommand, Memory, OwnedLabel, Label, Unrecorded,
     Pending
<1>3. /\ CanContinue(p, "cl_publish", mem[p])
      /\ CanContinue(p, "fail_op", mem[p])
  BY <1>1 DEF CanContinue, SameCommand, Memory, OwnedLabel, Label, Unrecorded,
     Pending
<1>4. \/ Step(p, "rc_read", [mem[p] EXCEPT !.ret = "cl_reinspect"])
      \/ Step(p, "cl_publish", mem[p]) \/ Step(p, "fail_op", mem[p])
  BY <1>1 DEF ClaimInspect, CallReconcile
<1>5. End(p) \/ Continues(p)
  BY <1>1, <1>2, <1>3, <1>4 DEF Continues
<1>. QED BY <1>5, KeptOK DEF Plain, ClaimInspect, db

LEMMA ReleaseStartKind ==
  ASSUME Typed, NEW p \in Processes, ReleaseStart(p)
  PROVE  Starts(p)
<1>1. pc[p] = "idle" /\ mem[p] \in Memory /\ StoreTyped
  BY TypedHere DEF ReleaseStart
<1>2. ASSUME NEW w \in Workspaces, claim[w] # None
      PROVE  CanStart("rl_begin", [Blank EXCEPT !.cmd = "release", !.ws = w, !.claim = claim[w]])
  BY <1>1, <1>2, BlankOK DEF CanStart, Unrecorded, Memory, Blank
<1>3. \E w \in Workspaces : 
           claim[w] # None /\ Step(p, "rl_begin", [Blank EXCEPT !.cmd = "release", !.ws = w, !.claim = claim[w]])
  BY <1>1, StoreAssumption DEF ReleaseStart, ClaimableMetadata
<1>. QED BY <1>1, <1>2, <1>3 DEF Starts, ReleaseStart

LEMMA ReleaseCheckKind ==
  ASSUME Typed, NEW p \in Processes, ReleaseCheck(p)
  PROVE  Plain(p)
<1>1. pc[p] = "rl_check" /\ mem[p] \in Memory /\ StoreTyped /\ Ws(p) \in Workspaces
  BY TypedHere DEF ReleaseCheck
<1>2. /\ CanContinue(p, "align_plan", mem[p])
      /\ CanContinue(p, "fail_op", mem[p])
  BY <1>1 DEF CanContinue, SameCommand, Memory, OwnedLabel, Label, Unrecorded,
     Pending
<1>3. Step(p, "align_plan", mem[p]) \/ Step(p, "fail_op", mem[p])
  BY <1>1 DEF ReleaseCheck
<1>4. End(p) \/ Continues(p)
  BY <1>1, <1>2, <1>3 DEF Continues
<1>. QED BY <1>4, KeptOK DEF Plain, ReleaseCheck, db

LEMMA AlignPlanKind ==
  ASSUME Typed, NEW p \in Processes, AlignPlan(p)
  PROVE  Plain(p)
<1>1. pc[p] = "align_plan" /\ mem[p] \in Memory /\ StoreTyped /\ Ws(p) \in Workspaces
  BY TypedHere DEF AlignPlan
<1>2. ASSUME NEW todo \in SUBSET Repos, NEW done \in SUBSET Repos
      PROVE  CanContinue(p, "align_step", [mem[p] EXCEPT !.todo = todo, !.done = done])
  BY <1>1, <1>2 DEF CanContinue, SameCommand, Memory, OwnedLabel, Label,
     Unrecorded, Pending
<1>3. CanContinue(p, "fail_op", mem[p])
  BY <1>1 DEF CanContinue, SameCommand, Memory, OwnedLabel, Label, Unrecorded,
     Pending
<1>4. \/ \E todo \in SUBSET Repos, done \in SUBSET Repos : Step(p, "align_step", [mem[p] EXCEPT !.todo = todo, !.done = done])
      \/ Step(p, "fail_op", mem[p])
  BY <1>1 DEF AlignPlan
<1>5. End(p) \/ Continues(p)
  BY <1>1, <1>2, <1>3, <1>4 DEF Continues
<1>. QED BY <1>5, KeptOK DEF Plain, AlignPlan, db

LEMMA AlignStepKind ==
  ASSUME Typed, NEW p \in Processes, AlignStep(p)
  PROVE  Plain(p)
<1>1. pc[p] = "align_step" /\ mem[p] \in Memory /\ StoreTyped /\ Ws(p) \in Workspaces
  BY TypedHere DEF AlignStep
<1>2. ASSUME NEW r \in mem[p].todo
      PROVE  /\ CanContinue(p, "align_checkout", [mem[p] EXCEPT !.todo = @ \ {r}, !.cur = r])
             /\ CanContinue(p, "fail_op", [mem[p] EXCEPT !.todo = @ \ {r}, !.cur = r])
             /\ CanContinue(p, "align_record", [mem[p] EXCEPT !.todo = @ \ {r}, !.cur = r])
  BY <1>1, <1>2 DEF CanContinue, SameCommand, Memory, OwnedLabel, Label,
     Unrecorded, Pending
<1>3. \E r \in mem[p].todo : 
           \/ Step(p, "align_checkout", [mem[p] EXCEPT !.todo = @ \ {r}, !.cur = r])
           \/ Step(p, "fail_op", [mem[p] EXCEPT !.todo = @ \ {r}, !.cur = r])
           \/ Step(p, "align_record", [mem[p] EXCEPT !.todo = @ \ {r}, !.cur = r])
  BY <1>1 DEF AlignStep
<1>4. End(p) \/ Continues(p)
  BY <1>1, <1>2, <1>3 DEF Continues
<1>. QED BY <1>4, KeptOK DEF Plain, AlignStep, db

LEMMA AlignCheckoutKind ==
  ASSUME Typed, NEW p \in Processes, AlignCheckout(p)
  PROVE  Plain(p)
<1>1. pc[p] = "align_checkout" /\ mem[p] \in Memory /\ StoreTyped /\ Ws(p) \in Workspaces
  BY TypedHere DEF AlignCheckout
<1>2. /\ CanContinue(p, "align_record", mem[p])
      /\ CanContinue(p, "fail_op", mem[p])
  BY <1>1 DEF CanContinue, SameCommand, Memory, OwnedLabel, Label, Unrecorded,
     Pending
<1>3. \/ Step(p, "align_record", mem[p])
           \/ Step(p, "fail_op", mem[p])
  BY <1>1 DEF AlignCheckout
<1>4. End(p) \/ Continues(p)
  BY <1>1, <1>2, <1>3 DEF Continues
<1>. QED BY <1>4, KeptOK DEF Plain, AlignCheckout, db

LEMMA AlignRecordKind ==
  ASSUME Typed, NEW p \in Processes, AlignRecord(p)
  PROVE  Plain(p)
<1>1. pc[p] = "align_record" /\ mem[p] \in Memory /\ StoreTyped /\ Ws(p) \in Workspaces
  BY TypedHere DEF AlignRecord
<1>2. CanContinue(p, "align_step", [mem[p] EXCEPT !.cur = None])
  BY <1>1 DEF CanContinue, SameCommand, Memory, OwnedLabel, Label, Unrecorded,
     Pending
<1>3. CanContinue(p, "fail_op", mem[p])
  BY <1>1 DEF CanContinue, SameCommand, Memory, OwnedLabel, Label, Unrecorded,
     Pending
<1>4. \/ Step(p, "align_step", [mem[p] EXCEPT !.cur = None])
      \/ Step(p, "fail_op", mem[p])
  BY <1>1 DEF AlignRecord
<1>5. End(p) \/ Continues(p)
  BY <1>1, <1>2, <1>3, <1>4 DEF Continues
<1>. QED BY <1>5, KeptOK DEF Plain, AlignRecord, db

LEMMA AlignDoneKind ==
  ASSUME Typed, NEW p \in Processes, AlignDone(p)
  PROVE  Plain(p)
<1>1. pc[p] = "align_step" /\ mem[p] \in Memory /\ StoreTyped /\ Ws(p) \in Workspaces
  BY TypedHere DEF AlignDone
<1>2. ASSUME mem[p].cmd = "allocate"
      PROVE  CanContinue(p, "al_claim", [mem[p] EXCEPT !.done = {}])
  BY <1>1, <1>2 DEF CanContinue, SameCommand, Memory, OwnedLabel, Label,
     Unrecorded, Pending
<1>3. ASSUME mem[p].cmd # "allocate"
      PROVE  CanContinue(p, "rl_record", [mem[p] EXCEPT !.done = {}])
  BY <1>1, <1>3 DEF CanContinue, SameCommand, Memory, OwnedLabel, Label,
     Unrecorded, Pending
<1>4. \/ mem[p].cmd = "allocate" /\ Step(p, "al_claim", [mem[p] EXCEPT !.done = {}])
      \/ mem[p].cmd # "allocate" /\ Step(p, "rl_record", [mem[p] EXCEPT !.done = {}])
  BY <1>1 DEF AlignDone
<1>5. End(p) \/ Continues(p)
  BY <1>1, <1>2, <1>3, <1>4 DEF Continues
<1>. QED BY <1>5, KeptOK DEF Plain, AlignDone, db

LEMMA ExplicitReconcileStartKind ==
  ASSUME Typed, NEW p \in Processes, ExplicitReconcileStart(p)
  PROVE  Starts(p)
<1>1. pc[p] = "idle" /\ mem[p] \in Memory /\ StoreTyped
  BY TypedHere DEF ExplicitReconcileStart
<1>2. ASSUME NEW w \in Workspaces, wsState[w] # "none"
      PROVE  CanStart("recover", [Blank EXCEPT !.cmd = "reconcile", !.ws = w])
  BY <1>1, <1>2, BlankOK DEF CanStart, Unrecorded, Memory, Blank
<1>3. \E w \in Workspaces : 
           wsState[w] # "none" /\ Step(p, "recover", [Blank EXCEPT !.cmd = "reconcile", !.ws = w])
  BY <1>1 DEF ExplicitReconcileStart
<1>. QED BY <1>1, <1>2, <1>3 DEF Starts, ExplicitReconcileStart

-----------------------------------------------------------------------------
\* Creation.

LEMMA ProvisionStartKind ==
  ASSUME Typed, NEW p \in Processes, ProvisionStart(p)
  PROVE  Starts(p)
<1>1. pc[p] = "idle" /\ mem[p] \in Memory /\ StoreTyped
  BY TypedHere DEF ProvisionStart
<1>2. ASSUME NEW w \in Workspaces, NEW c \in Claims, FreshClaim(c)
      PROVE  CanStart("cr_begin", [Blank EXCEPT !.cmd = "provision", !.ws = w, !.claim = c])
  BY <1>1, <1>2, BlankOK DEF CanStart, Unrecorded, Memory, Blank
<1>3. \E w \in Workspaces, c \in Claims : 
           FreshClaim(c) /\ Step(p, "cr_begin", [Blank EXCEPT !.cmd = "provision", !.ws = w, !.claim = c])
  BY <1>1, StoreAssumption DEF ProvisionStart
<1>. QED BY <1>1, <1>2, <1>3 DEF Starts, ProvisionStart

LEMMA CreateStartKind ==
  ASSUME Typed, NEW p \in Processes, CreateStart(p)
  PROVE  Starts(p)
<1>1. pc[p] = "idle" /\ mem[p] \in Memory /\ StoreTyped
  BY TypedHere DEF CreateStart
<1>2. ASSUME NEW w \in Workspaces
      PROVE  CanStart("recover", [Blank EXCEPT !.cmd = "create", !.ws = w])
  BY <1>1, <1>2, BlankOK DEF CanStart, Unrecorded, Memory, Blank
<1>3. \E w \in Workspaces : Step(p, "recover", [Blank EXCEPT !.cmd = "create", !.ws = w])
  BY <1>1 DEF CreateStart
<1>. QED BY <1>1, <1>2, <1>3 DEF Starts, CreateStart

LEMMA CreateMkdirKind ==
  ASSUME Typed, NEW p \in Processes, CreateMkdir(p)
  PROVE  Plain(p)
<1>1. pc[p] = "cr_mkdir" /\ mem[p] \in Memory /\ StoreTyped /\ Ws(p) \in Workspaces
  BY TypedHere DEF CreateMkdir
<1>2. mem[p] \in Memory /\ CanContinue(p, "rb_dir", mem[p])
  BY <1>1 DEF CanContinue, SameCommand, Memory, OwnedLabel, Label, Unrecorded,
     Pending
<1>3. CanContinue(p, "cr_intent", mem[p])
  BY <1>1 DEF CanContinue, SameCommand, Memory, OwnedLabel, Label, Unrecorded,
     Pending
<1>4. \/ \E failed, keep : Rollback(p, mem[p], failed, keep)
      \/ Step(p, "cr_intent", mem[p])
      \/ End(p)
  BY <1>1 DEF CreateMkdir, CallReconcile
<1>5. End(p) \/ Continues(p)
  BY <1>1, <1>2, <1>3, <1>4, RollbackContinues DEF Continues
<1>. QED BY <1>5, KeptOK DEF Plain, CreateMkdir, db

LEMMA CreateIntentKind ==
  ASSUME Typed, NEW p \in Processes, CreateIntent(p)
  PROVE  Plain(p)
<1>1. pc[p] = "cr_intent" /\ mem[p] \in Memory /\ StoreTyped /\ Ws(p) \in Workspaces
  BY TypedHere DEF CreateIntent
<1>2. ASSUME NEW r \in Repos
      PROVE  /\ [mem[p] EXCEPT !.cur = r] \in Memory
             /\ CanContinue(p, "cr_add", [mem[p] EXCEPT !.cur = r])
             /\ CanContinue(p, "rb_dir", [mem[p] EXCEPT !.cur = r])
  BY <1>1, <1>2 DEF CanContinue, SameCommand, Memory, OwnedLabel, Label,
     Unrecorded, Pending
<1>3. \E r \in Repos : 
           \/ Step(p, "cr_add", [mem[p] EXCEPT !.cur = r])
           \/ (\E failed, keep : Rollback(p, [mem[p] EXCEPT !.cur = r], failed, keep))
  BY <1>1 DEF CreateIntent, CallReconcile
<1>4. End(p) \/ Continues(p)
  BY <1>1, <1>2, <1>3, RollbackContinues DEF Continues
<1>. QED BY <1>4, KeptOK DEF Plain, CreateIntent, db

LEMMA CreateAddKind ==
  ASSUME Typed, NEW p \in Processes, CreateAdd(p)
  PROVE  Plain(p)
<1>1. pc[p] = "cr_add" /\ mem[p] \in Memory /\ StoreTyped /\ Ws(p) \in Workspaces
  BY TypedHere DEF CreateAdd
<1>2. CanContinue(p, "cr_attach", mem[p])
  BY <1>1 DEF CanContinue, SameCommand, Memory, OwnedLabel, Label, Unrecorded,
     Pending
<1>3. mem[p] \in Memory /\ CanContinue(p, "rb_dir", mem[p])
  BY <1>1 DEF CanContinue, SameCommand, Memory, OwnedLabel, Label, Unrecorded,
     Pending
<1>4. \/ Step(p, "cr_attach", mem[p])
      \/ \E failed, keep : Rollback(p, mem[p], failed, keep)
  BY <1>1 DEF CreateAdd, CallReconcile
<1>5. End(p) \/ Continues(p)
  BY <1>1, <1>2, <1>3, <1>4, RollbackContinues DEF Continues
<1>. QED BY <1>5, KeptOK DEF Plain, CreateAdd, db

LEMMA CreateAttachKind ==
  ASSUME Typed, NEW p \in Processes, CreateAttach(p)
  PROVE  Plain(p)
<1>1. pc[p] = "cr_attach" /\ mem[p] \in Memory /\ StoreTyped /\ Ws(p) \in Workspaces
  BY TypedHere DEF CreateAttach
<1>2. CanContinue(p, "rc_read", [mem[p] EXCEPT !.ret = "cr_next"])
  BY <1>1 DEF CanContinue, SameCommand, Memory, OwnedLabel, Label, Unrecorded,
     Pending
<1>3. mem[p] \in Memory /\ CanContinue(p, "rb_dir", mem[p])
  BY <1>1 DEF CanContinue, SameCommand, Memory, OwnedLabel, Label, Unrecorded,
     Pending
<1>4. \/ Step(p, "rc_read", [mem[p] EXCEPT !.ret = "cr_next"])
      \/ \E failed, keep : Rollback(p, mem[p], failed, keep)
  BY <1>1 DEF CreateAttach, CallReconcile
<1>5. End(p) \/ Continues(p)
  BY <1>1, <1>2, <1>3, <1>4, RollbackContinues DEF Continues
<1>. QED BY <1>5, KeptOK DEF Plain, CreateAttach, db

LEMMA CreateNextKind ==
  ASSUME Typed, NEW p \in Processes, CreateNext(p)
  PROVE  Plain(p)
<1>1. pc[p] = "cr_next" /\ mem[p] \in Memory /\ StoreTyped /\ Ws(p) \in Workspaces
  BY TypedHere DEF CreateNext
<1>2. mem[p] \in Memory /\ CanContinue(p, "rb_dir", mem[p])
  BY <1>1 DEF CanContinue, SameCommand, Memory, OwnedLabel, Label, Unrecorded,
     Pending
<1>3. CanContinue(p, "rc_read", [[mem[p] EXCEPT !.done = mem[p].done \cup {mem[p].cur}, !.cur = None] EXCEPT !.ret = "cr_final"])
  BY <1>1 DEF CanContinue, SameCommand, Memory, OwnedLabel, Label, Unrecorded,
     Pending
<1>4. CanContinue(p, "cr_intent", [mem[p] EXCEPT !.done = mem[p].done \cup {mem[p].cur}, !.cur = None])
  BY <1>1 DEF CanContinue, SameCommand, Memory, OwnedLabel, Label, Unrecorded,
     Pending
<1>5. \/ \E failed, keep : Rollback(p, mem[p], failed, keep)
      \/ Step(p, "rc_read", [[mem[p] EXCEPT !.done = mem[p].done \cup {mem[p].cur}, !.cur = None] EXCEPT !.ret = "cr_final"])
      \/ Step(p, "cr_intent", [mem[p] EXCEPT !.done = mem[p].done \cup {mem[p].cur}, !.cur = None])
  BY <1>1 DEF CreateNext, CallReconcile
<1>6. End(p) \/ Continues(p)
  BY <1>1, <1>2, <1>3, <1>4, <1>5, RollbackContinues DEF Continues
<1>. QED BY <1>6, KeptOK DEF Plain, CreateNext, db

LEMMA RollbackRemoveKind ==
  ASSUME Typed, NEW p \in Processes, RollbackRemove(p)
  PROVE  Plain(p)
<1>1. pc[p] = "rb_remove" /\ mem[p] \in Memory /\ StoreTyped /\ Ws(p) \in Workspaces
  BY TypedHere DEF RollbackRemove
<1>2. ASSUME NEW r \in mem[p].todo, NEW err \in BOOLEAN
      PROVE  CanContinue(p, "rb_row", [mem[p] EXCEPT !.todo = @ \ {r}, !.cur = r, !.err = @ \/ err])
  BY <1>1, <1>2 DEF CanContinue, SameCommand, Memory, OwnedLabel, Label,
     Unrecorded, Pending
<1>3. \E r \in mem[p].todo, err \in BOOLEAN : Step(p, "rb_row", [mem[p] EXCEPT !.todo = @ \ {r}, !.cur = r, !.err = @ \/ err])
  BY <1>1 DEF RollbackRemove
<1>4. End(p) \/ Continues(p)
  BY <1>1, <1>2, <1>3 DEF Continues
<1>. QED BY <1>4, KeptOK DEF Plain, RollbackRemove, db

LEMMA RollbackRowKind ==
  ASSUME Typed, NEW p \in Processes, RollbackRow(p)
  PROVE  Plain(p)
<1>1. pc[p] = "rb_row" /\ mem[p] \in Memory /\ StoreTyped /\ Ws(p) \in Workspaces
  BY TypedHere DEF RollbackRow
<1>2. /\ CanContinue(p, "rb_dir", mem[p])
      /\ CanContinue(p, "rb_remove", mem[p])
  BY <1>1 DEF CanContinue, SameCommand, Memory, OwnedLabel, Label, Unrecorded,
     Pending
<1>3. Step(p, "rb_dir", mem[p]) \/ Step(p, "rb_remove", mem[p])
  BY <1>1 DEF RollbackRow
<1>4. End(p) \/ Continues(p)
  BY <1>1, <1>2, <1>3 DEF Continues
<1>. QED BY <1>4, KeptOK DEF Plain, RollbackRow, db

LEMMA RollbackDirectoryKind ==
  ASSUME Typed, NEW p \in Processes, RollbackDirectory(p)
  PROVE  Plain(p)
<1>1. pc[p] = "rb_dir" /\ mem[p] \in Memory /\ StoreTyped /\ Ws(p) \in Workspaces
  BY TypedHere DEF RollbackDirectory
<1>2. CanContinue(p, "rb_claim", mem[p])
  BY <1>1 DEF CanContinue, SameCommand, Memory, OwnedLabel, Label, Unrecorded,
     Pending
<1>3. CanContinue(p, "rb_claim", [mem[p] EXCEPT !.err = TRUE])
  BY <1>1 DEF CanContinue, SameCommand, Memory, OwnedLabel, Label, Unrecorded,
     Pending
<1>4. \/ Step(p, "rb_claim", mem[p])
      \/ Step(p, "rb_claim", [mem[p] EXCEPT !.err = TRUE])
  BY <1>1 DEF RollbackDirectory
<1>5. End(p) \/ Continues(p)
  BY <1>1, <1>2, <1>3, <1>4 DEF Continues
<1>. QED BY <1>5, KeptOK DEF Plain, RollbackDirectory, db

LEMMA RollbackWorkspaceKind ==
  ASSUME Typed, NEW p \in Processes, RollbackWorkspace(p)
  PROVE  Plain(p)
<1>1. pc[p] = "rb_ws" /\ mem[p] \in Memory /\ StoreTyped /\ Ws(p) \in Workspaces
  BY TypedHere DEF RollbackWorkspace
<1>2. End(p)
  BY <1>1 DEF RollbackWorkspace
<1>3. End(p) \/ Continues(p)
  BY <1>1, <1>2 DEF Continues
<1>4. StateKept
  BY <1>1, SetKeptOK, HealthRecorded DEF RollbackWorkspace
<1>. QED BY <1>3, <1>4 DEF Plain, RollbackWorkspace, history

-----------------------------------------------------------------------------
\* Removal.

LEMMA GcStartKind ==
  ASSUME Typed, NEW p \in Processes, GcStart(p)
  PROVE  Starts(p)
<1>1. pc[p] = "idle" /\ mem[p] \in Memory /\ StoreTyped
  BY TypedHere DEF GcStart
<1>2. ASSUME NEW w \in Workspaces, NEW force \in Forces, wsState[w] # "none"
      PROVE  /\ CanStart("recover", [Blank EXCEPT !.cmd = "gc", !.ws = w, !.force = force])
             /\ CanStart("gc_scan", [Blank EXCEPT !.cmd = "gc", !.ws = w, !.force = force])
  BY <1>1, <1>2, BlankOK DEF CanStart, Unrecorded, Memory, Blank
<1>3. \E w \in Workspaces, force \in Forces : 
           wsState[w] # "none" /\ (Step(p, "recover", [Blank EXCEPT !.cmd = "gc", !.ws = w, !.force = force]) \/ Step(p, "gc_scan", [Blank EXCEPT !.cmd = "gc", !.ws = w, !.force = force]))
  BY <1>1, StoreAssumption DEF GcStart, Unhealthy
<1>. QED BY <1>1, <1>2, <1>3 DEF Starts, GcStart

LEMMA GcScanKind ==
  ASSUME Typed, NEW p \in Processes, GcScan(p)
  PROVE  Plain(p)
<1>1. pc[p] = "gc_scan" /\ mem[p] \in Memory /\ StoreTyped /\ Ws(p) \in Workspaces
  BY TypedHere DEF GcScan
<1>2. CanContinue(p, "rm_begin", mem[p])
  BY <1>1 DEF CanContinue, SameCommand, Memory, OwnedLabel, Label, Unrecorded,
     Pending
<1>3. \/ Step(p, "rm_begin", mem[p])
      \/ End(p)
  BY <1>1 DEF GcScan
<1>4. End(p) \/ Continues(p)
  BY <1>1, <1>2, <1>3 DEF Continues
<1>. QED BY <1>4, KeptOK DEF Plain, GcScan, db

LEMMA RemoveStartKind ==
  ASSUME Typed, NEW p \in Processes, RemoveStart(p)
  PROVE  Starts(p)
<1>1. pc[p] = "idle" /\ mem[p] \in Memory /\ StoreTyped
  BY TypedHere DEF RemoveStart
<1>2. ASSUME NEW w \in Workspaces, NEW force \in Forces, wsState[w] # "none"
      PROVE  /\ CanStart("recover", [Blank EXCEPT !.cmd = "remove", !.ws = w, !.force = force])
             /\ CanStart("rm_refresh", [Blank EXCEPT !.cmd = "remove", !.ws = w, !.force = force])
  BY <1>1, <1>2, BlankOK DEF CanStart, Unrecorded, Memory, Blank
<1>3. \E w \in Workspaces, force \in Forces : 
           wsState[w] # "none" /\ (Step(p, "recover", [Blank EXCEPT !.cmd = "remove", !.ws = w, !.force = force]) \/ Step(p, "rm_refresh", [Blank EXCEPT !.cmd = "remove", !.ws = w, !.force = force]))
  BY <1>1, StoreAssumption DEF RemoveStart
<1>. QED BY <1>1, <1>2, <1>3 DEF Starts, RemoveStart

LEMMA RemoveRefreshKind ==
  ASSUME Typed, NEW p \in Processes, RemoveRefresh(p)
  PROVE  Plain(p)
<1>1. pc[p] = "rm_refresh" /\ mem[p] \in Memory /\ StoreTyped /\ Ws(p) \in Workspaces
  BY TypedHere DEF RemoveRefresh
<1>2. CanContinue(p, "rm_begin", mem[p])
  BY <1>1 DEF CanContinue, SameCommand, Memory, OwnedLabel, Label, Unrecorded,
     Pending
<1>3. \/ Step(p, "rm_begin", mem[p])
      \/ End(p)
  BY <1>1 DEF RemoveRefresh
<1>4. End(p) \/ Continues(p)
  BY <1>1, <1>2, <1>3 DEF Continues
<1>. QED BY <1>4, KeptOK DEF Plain, RemoveRefresh, db

LEMMA RemovalCheckKind ==
  ASSUME Typed, NEW p \in Processes, RemovalCheck(p)
  PROVE  Plain(p)
<1>1. pc[p] = "rm_check" /\ mem[p] \in Memory /\ StoreTyped /\ Ws(p) \in Workspaces
  BY TypedHere DEF RemovalCheck
<1>2. ASSUME ClaimGuard(Ws(p), mem[p].cmd, mem[p].force)
      PROVE  CanContinue(p, "rm_renew", [mem[p] EXCEPT !.todo = Present(Ws(p))])
  BY <1>1, <1>2 DEF CanContinue, SameCommand, Memory, OwnedLabel, Label,
     Unrecorded, Pending
<1>3. /\ CanContinue(p, "rm_fail", mem[p])
      /\ CanContinue(p, "fail_op", mem[p])
  BY <1>1 DEF CanContinue, SameCommand, Memory, OwnedLabel, Label, Unrecorded,
     Pending
<1>4. \/ ClaimGuard(Ws(p), mem[p].cmd, mem[p].force) /\ Step(p, "rm_renew", [mem[p] EXCEPT !.todo = Present(Ws(p))])
      \/ Step(p, "rm_fail", mem[p]) \/ Step(p, "fail_op", mem[p])
  BY <1>1 DEF RemovalCheck, RemovalEligible, Forced
<1>5. End(p) \/ Continues(p)
  BY <1>1, <1>2, <1>3, <1>4 DEF Continues
<1>. QED BY <1>5, KeptOK DEF Plain, RemovalCheck, db

LEMMA RemovalRenewKind ==
  ASSUME Typed, NEW p \in Processes, RemovalRenew(p)
  PROVE  Plain(p)
<1>1. pc[p] = "rm_renew" /\ mem[p] \in Memory /\ StoreTyped /\ Ws(p) \in Workspaces
  BY TypedHere DEF RemovalRenew
<1>2. ASSUME NEW r \in mem[p].todo
      PROVE  CanContinue(p, "rm_remove", [mem[p] EXCEPT !.todo = @ \ {r}, !.cur = r])
  BY <1>1, <1>2 DEF CanContinue, SameCommand, Memory, OwnedLabel, Label,
     Unrecorded, Pending
<1>3. CanContinue(p, "rc_read", [[mem[p] EXCEPT !.todo = {}] EXCEPT !.ret = "rm_fail"])
  BY <1>1 DEF CanContinue, SameCommand, Memory, OwnedLabel, Label, Unrecorded,
     Pending
<1>4. \/ \E r \in mem[p].todo : Step(p, "rm_remove", [mem[p] EXCEPT !.todo = @ \ {r}, !.cur = r])
      \/ Step(p, "rc_read", [[mem[p] EXCEPT !.todo = {}] EXCEPT !.ret = "rm_fail"])
  BY <1>1 DEF RemovalRenew, GiveUp, CallReconcile
<1>5. End(p) \/ Continues(p)
  BY <1>1, <1>2, <1>3, <1>4 DEF Continues
<1>. QED BY <1>5, KeptOK DEF Plain, RemovalRenew, db

LEMMA RemovalRemoveKind ==
  ASSUME Typed, NEW p \in Processes, RemovalRemove(p)
  PROVE  Plain(p)
<1>1. pc[p] = "rm_remove" /\ mem[p] \in Memory /\ StoreTyped /\ Ws(p) \in Workspaces
  BY TypedHere DEF RemovalRemove
<1>2. CanContinue(p, "rm_renew", mem[p])
  BY <1>1 DEF CanContinue, SameCommand, Memory, OwnedLabel, Label, Unrecorded,
     Pending
<1>3. CanContinue(p, "rc_read", [[mem[p] EXCEPT !.todo = {}] EXCEPT !.ret = "rm_fail"])
  BY <1>1 DEF CanContinue, SameCommand, Memory, OwnedLabel, Label, Unrecorded,
     Pending
<1>4. \/ Step(p, "rm_renew", mem[p])
      \/ Step(p, "rc_read", [[mem[p] EXCEPT !.todo = {}] EXCEPT !.ret = "rm_fail"])
  BY <1>1 DEF RemovalRemove, GiveUp, CallReconcile
<1>5. End(p) \/ Continues(p)
  BY <1>1, <1>2, <1>3, <1>4 DEF Continues
<1>. QED BY <1>5, KeptOK DEF Plain, RemovalRemove, db

LEMMA RemovalDirectoryKind ==
  ASSUME Typed, NEW p \in Processes, RemovalDirectory(p)
  PROVE  Plain(p)
<1>1. pc[p] = "rm_renew" /\ mem[p] \in Memory /\ StoreTyped /\ Ws(p) \in Workspaces
  BY TypedHere DEF RemovalDirectory
<1>2. CanContinue(p, "rm_record", mem[p])
  BY <1>1 DEF CanContinue, SameCommand, Memory, OwnedLabel, Label, Unrecorded,
     Pending
<1>3. CanContinue(p, "rc_read", [[mem[p] EXCEPT !.todo = {}] EXCEPT !.ret = "rm_fail"])
  BY <1>1 DEF CanContinue, SameCommand, Memory, OwnedLabel, Label, Unrecorded,
     Pending
<1>4. \/ Step(p, "rm_record", mem[p])
      \/ Step(p, "rc_read", [[mem[p] EXCEPT !.todo = {}] EXCEPT !.ret = "rm_fail"])
  BY <1>1 DEF RemovalDirectory, GiveUp, CallReconcile
<1>5. End(p) \/ Continues(p)
  BY <1>1, <1>2, <1>3, <1>4 DEF Continues
<1>. QED BY <1>5, KeptOK DEF Plain, RemovalDirectory, db

-----------------------------------------------------------------------------
\* The admissions.

LEMMA OwningOK ==
  ASSUME NEW p \in Processes, mem[p] \in Memory,
         NEW l \in {"cl_inspect", "rv_observe"}, NEW m, Step(p, l, m),
         m = [mem[p] EXCEPT !.own = TRUE, !.rows = m.rows]
  PROVE  GoesOnOwning(p)
<1>1. SameCommand(p, m) /\ m.own = TRUE
  BY DEF SameCommand, Memory
<1>. QED BY <1>1 DEF GoesOnOwning, OwnedLabel, Label

LEMMA CallOwningOK ==
  ASSUME NEW p \in Processes, mem[p] \in Memory, NEW ret,
         CallReconcile(p, ret, [mem[p] EXCEPT !.own = TRUE])
  PROVE  GoesOnOwning(p)
<1>. DEFINE m == [[mem[p] EXCEPT !.own = TRUE] EXCEPT !.ret = ret]
<1>1. SameCommand(p, m) /\ m.own = TRUE
  BY DEF SameCommand, Memory
<1>2. Step(p, "rc_read", m)
  BY DEF CallReconcile
<1>. HIDE DEF m
<1>. QED BY <1>1, <1>2 DEF GoesOnOwning, OwnedLabel, Label

LEMMA TakeOverKind ==
  ASSUME Typed, NEW p \in Processes, TakeOver(p)
  PROVE  Plain(p) \/ Admits(p)
<1>1. /\ pc[p] = "takeover" /\ mem[p] \in Memory /\ StoreTyped
      /\ mem[p].seen \in [kind: Kind, by: Processes, live: {FALSE}]
  BY TypedHere DEF TakeOver, LocalOK
<1>2. CASE CanTakeOver(p)
  <2>1. /\ lease[Ws(p)] = mem[p].seen /\ InsertLease(p, mem[p].seen.kind)
        /\ mem[p].seen.kind \in Kind /\ ~mem[p].seen.live
    BY <1>1, <1>2 DEF TakeOver, CanTakeOver
  <2>2. Running(Ws(p))
    BY <1>1, <2>1 DEF Running, NoLease, Kind
  <2>3. \/ Step(p, "rv_observe", [mem[p] EXCEPT !.own = TRUE, !.rows = row[Ws(p)]])
        \/ CallReconcile(p, "rv_close", [mem[p] EXCEPT !.own = TRUE])
    BY <1>2 DEF TakeOver
  <2>4. GoesOnOwning(p)
    BY <1>1, <2>3, OwningOK, CallOwningOK
  <2>. QED BY <1>1, <2>1, <2>2, <2>4, KeptOK DEF Admits, TakeOver, Unrecorded, OwnedLabel
<1>3. CASE ~CanTakeOver(p)
  BY <1>1, <1>3, AfterRecoveryContinues, KeptOK DEF Plain, Continues, TakeOver
<1>. QED BY <1>2, <1>3

LEMMA AccessBeginKind ==
  ASSUME Typed, NEW p \in Processes, AccessBegin(p)
  PROVE  Plain(p) \/ Admits(p)
<1>1. pc[p] \in {"al_begin", "cl_begin", "rl_begin"} /\ mem[p] \in Memory
  BY TypedHere DEF AccessBegin
<1>2. CASE ~Running(Ws(p))
  <2>1. BeginOf(p) \in Kind /\ BeginOf(p) # "create" /\ InsertLease(p, BeginOf(p))
    BY <1>2 DEF AccessBegin, BeginOf, Kind
  <2>2. \/ CallReconcile(p, "al_check", [mem[p] EXCEPT !.own = TRUE])
        \/ Step(p, "cl_inspect", [mem[p] EXCEPT !.own = TRUE])
        \/ CallReconcile(p, "rl_check", [mem[p] EXCEPT !.own = TRUE])
    BY <1>1, <1>2 DEF AccessBegin, BeginOf
  <2>3. GoesOnOwning(p)
    BY <1>1, <2>2, OwningOK, CallOwningOK
  <2>. QED BY <1>1, <1>2, <2>1, <2>3, KeptOK DEF Admits, AccessBegin, Running, Unrecorded, OwnedLabel
<1>3. CASE Running(Ws(p))
  BY <1>3, KeptOK DEF Plain, AccessBegin
<1>. QED BY <1>2, <1>3

LEMMA ExplicitReconcileBeginKind ==
  ASSUME Typed, NEW p \in Processes, ExplicitReconcileBegin(p)
  PROVE  Plain(p) \/ Admits(p)
<1>1. pc[p] = "rec_begin" /\ mem[p] \in Memory
  BY TypedHere DEF ExplicitReconcileBegin
<1>2. CASE ~(Running(Ws(p)) \/ wsState[Ws(p)] = "removed")
  <2>1. /\ InsertLease(p, "reconcile")
        /\ CallReconcile(p, "rec_close", [mem[p] EXCEPT !.own = TRUE])
    BY <1>2 DEF ExplicitReconcileBegin
  <2>2. GoesOnOwning(p)
    BY <1>1, <2>1, OwningOK, CallOwningOK
  <2>. QED BY <1>1, <1>2, <2>1, <2>2, KeptOK
           DEF Admits, ExplicitReconcileBegin, Running, Unrecorded, Kind, OwnedLabel
<1>3. CASE Running(Ws(p)) \/ wsState[Ws(p)] = "removed"
  BY <1>3, KeptOK DEF Plain, ExplicitReconcileBegin
<1>. QED BY <1>2, <1>3

LEMMA RemovalBeginKind ==
  ASSUME Typed, NEW p \in Processes, RemovalBegin(p)
  PROVE  Plain(p) \/ Admits(p)
<1>1. pc[p] = "rm_begin" /\ mem[p] \in Memory /\ mem[p].cmd \in {"gc", "remove"}
  BY TypedHere DEF RemovalBegin, LocalOK, CommandAt
<1>2. CASE ~Running(Ws(p))
  <2>1. /\ InsertLease(p, mem[p].cmd)
        /\ CallReconcile(p, "rm_check", [mem[p] EXCEPT !.own = TRUE])
    BY <1>2 DEF RemovalBegin
  <2>2. GoesOnOwning(p)
    BY <1>1, <2>1, OwningOK, CallOwningOK
  <2>3. mem[p].cmd \in Kind /\ mem[p].cmd # "create"
    BY <1>1 DEF Kind
  <2>. QED BY <1>1, <1>2, <2>1, <2>2, <2>3, KeptOK
           DEF Admits, RemovalBegin, Running, Unrecorded, OwnedLabel
<1>3. CASE Running(Ws(p))
  BY <1>3, KeptOK DEF Plain, RemovalBegin
<1>. QED BY <1>2, <1>3

-----------------------------------------------------------------------------
\* The ends of operations.

LEMMA RecoverCloseKind ==
  ASSUME Typed, NEW p \in Processes, RecoverClose(p)
  PROVE  Plain(p) \/ Closes(p)
<1>1. pc[p] = "rv_close" /\ StateKept /\ UNCHANGED <<claim, history>>
  BY KeptOK DEF RecoverClose
<1>2. CASE mem[p].sum # "error" /\ Holds(p)
  BY <1>1, <1>2, AfterRecoveryContinues DEF Closes, RecoverClose, Outcome
<1>3. CASE ~(mem[p].sum # "error" /\ Holds(p))
  BY <1>1, <1>3 DEF Plain, RecoverClose
<1>. QED BY <1>2, <1>3

LEMMA RecoverFinalizeKind ==
  ASSUME Typed, NEW p \in Processes, RecoverFinalize(p)
  PROVE  Plain(p) \/ Closes(p)
<1>1. pc[p] = "rv_attach" /\ UNCHANGED <<claim, history>> /\ Ws(p) \in Workspaces
  BY TypedHere DEF RecoverFinalize
<1>2. CASE Holds(p)
  <2>1. StateKept
    BY <1>1, <1>2, TypedHere, SetKeptOK DEF RecoverFinalize
  <2>. QED BY <1>1, <1>2, <2>1, AfterRecoveryContinues DEF Closes, RecoverFinalize, Outcome
<1>3. CASE ~Holds(p)
  BY <1>1, <1>3, KeptOK DEF Plain, RecoverFinalize
<1>. QED BY <1>2, <1>3

\* A command that tries to close its operation and goes on.
LEMMA TriesKind ==
  ASSUME NEW p \in Processes, pc[p] # "idle", NEW outcome \in Outcome,
         TryCloseOperation(p, outcome), StateKept, UNCHANGED <<claim, history>>,
         End(p) \/ \E l, m : Step(p, l, m) /\ CanContinue(p, l, m) /\ l \notin OwnedLabel
  PROVE  Plain(p) \/ Closes(p)
<1>1. CASE Holds(p)
  BY <1>1 DEF Closes, TryCloseOperation
<1>2. CASE ~Holds(p)
  BY <1>2 DEF Plain, Continues, TryCloseOperation
<1>. QED BY <1>1, <1>2

LEMMA RecoverOperationKind ==
  ASSUME Typed, NEW p \in Processes, RecoverOperation(p)
  PROVE  Plain(p) \/ Closes(p)
<1>1. pc[p] = "rv_op" /\ StateKept
  BY KeptOK DEF RecoverOperation
<1>2. CanContinue(p, "rv_ws", mem[p]) /\ "rv_ws" \notin OwnedLabel
  BY <1>1 DEF CanContinue, SameCommand, OwnedLabel, Unrecorded, Pending
<1>. QED BY <1>1, <1>2, TriesKind DEF RecoverOperation, Outcome

LEMMA RollbackOperationKind ==
  ASSUME Typed, NEW p \in Processes, RollbackOperation(p)
  PROVE  Plain(p) \/ Closes(p)
<1>1. pc[p] = "rb_op" /\ StateKept
  BY KeptOK DEF RollbackOperation
<1>2. CanContinue(p, "rb_ws", mem[p]) /\ "rb_ws" \notin OwnedLabel
  BY <1>1 DEF CanContinue, SameCommand, OwnedLabel, Unrecorded, Pending
<1>. QED BY <1>1, <1>2, TriesKind DEF RollbackOperation, Outcome

LEMMA FailOperationKind ==
  ASSUME Typed, NEW p \in Processes, FailOperation(p)
  PROVE  Plain(p) \/ Closes(p)
  BY TriesKind, KeptOK DEF FailOperation, Outcome

LEMMA ExplicitReconcileCloseKind ==
  ASSUME Typed, NEW p \in Processes, ExplicitReconcileClose(p)
  PROVE  Plain(p) \/ Closes(p)
  BY TriesKind, KeptOK DEF ExplicitReconcileClose, Outcome

LEMMA RemovalFailKind ==
  ASSUME Typed, NEW p \in Processes, RemovalFail(p)
  PROVE  Plain(p) \/ Closes(p)
<1>1. pc[p] = "rm_fail" /\ UNCHANGED <<claim, history>> /\ End(p) /\ Ws(p) \in Workspaces
  BY TypedHere DEF RemovalFail
<1>2. CASE Holds(p)
  <2>1. StateKept
    BY <1>1, <1>2, TypedHere, SetKeptOK DEF RemovalFail
  <2>. QED BY <1>1, <1>2, <2>1 DEF Closes, RemovalFail, Outcome
<1>3. CASE ~Holds(p)
  BY <1>1, <1>3, KeptOK DEF Plain, RemovalFail
<1>. QED BY <1>2, <1>3

-----------------------------------------------------------------------------
\* The steps about claims.

\* The other outcome of such a step: the command fails, its lease unasked.
LEMMA FailsKind ==
  ASSUME Typed, NEW p \in Processes, NEW l \in {"fail_op", "rm_fail", "rb_op"},
         pc[p] \in {"al_claim", "al_finish", "cl_publish", "rl_record", "rm_record",
                    "rb_claim"},
         l = "fail_op" \/ pc[p] # "al_finish",
         NEW m, Step(p, l, m), SameCommand(p, m), m.own = mem[p].own,
         UNCHANGED <<wsState, lease, createOp, claim, history>>
  PROVE  Plain(p)
<1>1. CanContinue(p, l, m)
  BY DEF CanContinue, SameCommand, OwnedLabel, Label, Unrecorded, Pending
<1>. QED BY <1>1, KeptOK DEF Plain, Continues

LEMMA CreateBeginKind ==
  ASSUME Typed, NEW p \in Processes, CreateBegin(p)
  PROVE  Plain(p) \/ Creates(p)
<1>1. /\ pc[p] = "cr_begin" /\ mem[p] \in Memory
      /\ mem[p].cmd \in {"provision", "create"}
  BY TypedHere DEF CreateBegin, LocalOK, CommandAt
<1>2. CASE wsState[Ws(p)] = "none"
  <2>. DEFINE m == [[mem[p] EXCEPT !.own = TRUE] EXCEPT !.ret = "cr_mkdir"]
  <2>1. Step(p, "rc_read", m)
    BY <1>2 DEF CreateBegin, CallReconcile
  <2>2. SameCommand(p, m) /\ m.own = TRUE
    BY <1>1 DEF SameCommand, Memory
  <2>. HIDE DEF m
  <2>. QED BY <1>1, <1>2, <2>1, <2>2 DEF Creates, CreateBegin
<1>3. CASE wsState[Ws(p)] # "none"
  BY <1>3, KeptOK DEF Plain, CreateBegin, history
<1>. QED BY <1>2, <1>3

LEMMA AllocateClaimKind ==
  ASSUME Typed, NEW p \in Processes, AllocateClaim(p)
  PROVE  Plain(p) \/ Inserts(p)
<1>1. pc[p] = "al_claim" /\ mem[p].cmd = "allocate"
  BY TypedHere DEF AllocateClaim, LocalOK, CommandAt
<1>2. Step(p, "fail_op", mem[p]) /\ UNCHANGED <<claim, issued>> => Plain(p)
  BY <1>1, FailsKind DEF AllocateClaim, SameCommand, history
<1>. QED BY <1>1, <1>2 DEF Inserts, AllocateClaim

LEMMA AllocateFinishKind ==
  ASSUME Typed, NEW p \in Processes, AllocateFinish(p)
  PROVE  Plain(p) \/ Confirms(p)
<1>1. pc[p] = "al_finish" /\ mem[p].cmd = "allocate" /\ StateKept
  BY TypedHere, KeptOK DEF AllocateFinish, LocalOK, CommandAt
<1>2. CASE Holds(p)
  BY <1>1, <1>2 DEF Confirms, AllocateFinish
<1>3. CASE ~Holds(p)
  BY <1>1, <1>3, FailsKind DEF AllocateFinish, SameCommand, history
<1>. QED BY <1>2, <1>3

LEMMA CreateFinalizeKind ==
  ASSUME Typed, NEW p \in Processes, CreateFinalize(p)
  PROVE  Plain(p) \/ Closes(p) \/ Confirms(p)
<1>1. /\ pc[p] = "cr_final" /\ mem[p] \in Memory /\ Ws(p) \in Workspaces /\ StoreTyped
      /\ mem[p].cmd \in {"provision", "create"}
      /\ UNCHANGED <<claim, issued>>
  BY TypedHere DEF CreateFinalize, LocalOK, CommandAt
<1>2. CASE CanFinalize(p)
  <2>1. StateKept /\ Holds(p) /\ CloseOperation(p, "succeeded") /\ End(p)
    BY <1>1, <1>2, SetKeptOK DEF CreateFinalize, CanFinalize
  <2>2. CASE Provisioning(p)
    BY <1>1, <1>2, <2>1, <2>2 DEF Confirms, CreateFinalize, CanFinalize, Provisioning
  <2>3. CASE ~Provisioning(p)
    BY <1>1, <1>2, <2>1, <2>3 DEF Closes, CreateFinalize, history, Outcome
  <2>. QED BY <2>2, <2>3
<1>3. CASE ~CanFinalize(p)
  <2>1. CanContinue(p, "rb_dir", mem[p])
    BY <1>1 DEF CanContinue, SameCommand, OwnedLabel, Label, Unrecorded, Pending
  <2>2. End(p) \/ Continues(p)
    BY <1>1, <1>3, <2>1, RollbackContinues DEF CreateFinalize
  <2>. QED BY <1>1, <1>3, <2>2, KeptOK DEF Plain, CreateFinalize, history
<1>. QED BY <1>2, <1>3

LEMMA ClaimPublishKind ==
  ASSUME Typed, NEW p \in Processes, ClaimPublish(p)
  PROVE  Plain(p) \/ Publishes(p)
<1>1. pc[p] = "cl_publish" /\ mem[p].cmd = "claim"
  BY TypedHere DEF ClaimPublish, LocalOK, CommandAt
<1>2. CASE Holds(p) /\ ClaimableMetadata(Ws(p))
  BY <1>1, <1>2 DEF Publishes, ClaimPublish, ClaimableMetadata
<1>3. CASE ~(Holds(p) /\ ClaimableMetadata(Ws(p)))
  BY <1>1, <1>3, FailsKind DEF ClaimPublish, SameCommand
<1>. QED BY <1>2, <1>3

LEMMA ReleaseRecordKind ==
  ASSUME Typed, NEW p \in Processes, ReleaseRecord(p)
  PROVE  Plain(p) \/ Releases(p)
<1>1. pc[p] = "rl_record" /\ mem[p].cmd = "release" /\ Ws(p) \in Workspaces /\ StoreTyped
  BY TypedHere DEF ReleaseRecord, LocalOK, CommandAt
<1>2. CASE ReleaseAllowed(p)
  <2>1. StateKept
    BY <1>1, <1>2, SetKeptOK DEF ReleaseRecord
  <2>. QED BY <1>1, <1>2, <2>1 DEF Releases, ReleaseRecord, ReleaseAllowed
<1>3. CASE ~ReleaseAllowed(p)
  BY <1>1, <1>3, FailsKind DEF ReleaseRecord, SameCommand, history
<1>. QED BY <1>2, <1>3

LEMMA RollbackClaimKind ==
  ASSUME Typed, NEW p \in Processes, RollbackClaim(p)
  PROVE  Plain(p) \/ Withdraws(p)
<1>1. pc[p] = "rb_claim" /\ mem[p] \in Memory
  BY TypedHere DEF RollbackClaim
<1>2. CASE Provisioning(p) /\ OwnClaim(p)
  BY <1>1, <1>2 DEF Withdraws, RollbackClaim, Provisioning, OwnClaim
<1>3. CASE ~(Provisioning(p) /\ OwnClaim(p))
  <2>. DEFINE m == [mem[p] EXCEPT !.err = @ \/ Provisioning(p)]
  <2>1. SameCommand(p, m) /\ m.own = mem[p].own
    BY <1>1 DEF SameCommand, Memory
  <2>2. Step(p, "rb_op", m)
    BY <1>3 DEF RollbackClaim
  <2>. HIDE DEF m
  <2>. QED BY <1>1, <1>3, <2>1, <2>2, FailsKind DEF RollbackClaim
<1>. QED BY <1>2, <1>3

LEMMA RemovalRecordKind ==
  ASSUME Typed, NEW p \in Processes, RemovalRecord(p)
  PROVE  Plain(p) \/ Buries(p)
<1>1. pc[p] = "rm_record" /\ Ws(p) \in Workspaces /\ StoreTyped
  BY TypedHere DEF RemovalRecord
<1>2. CASE Holds(p)
  <2>1. StateKept
    BY <1>1, <1>2, SetKeptOK DEF RemovalRecord
  <2>. QED BY <1>1, <1>2, <2>1 DEF Buries, RemovalRecord, Forced
<1>3. CASE ~Holds(p)
  BY <1>1, <1>3, FailsKind DEF RemovalRecord, SameCommand, db, history
<1>. QED BY <1>2, <1>3

-----------------------------------------------------------------------------
LEMMA ReconcileNextKind ==
  ASSUME Typed, NEW p \in Processes, ReconcileNext(p)
  PROVE  ProtocolStep(p)
  BY ReconcileReadKind, ReconcileObserveKind, ReconcileAbortKind,
     ReconcileWriteKind, ReconcileFinishKind DEF ReconcileNext, ProtocolStep

LEMMA RecoverNextKind ==
  ASSUME Typed, NEW p \in Processes, RecoverNext(p)
  PROVE  ProtocolStep(p)
  BY RecoverReadKind, TakeOverKind, RecoverCloseKind, RecoverObserveKind,
     RecoverAbortKind, RecoverAttachKind, RecoverFinalizeKind,
     RecoverRenewKind, RecoverRemoveKind, RecoverRowKind,
     RecoverDirectoryKind, RecoverOperationKind, RecoverWorkspaceKind DEF
     RecoverNext, ProtocolStep

LEMMA AccessNextKind ==
  ASSUME Typed, NEW p \in Processes, AccessNext(p)
  PROVE  ProtocolStep(p)
  BY AllocateStartKind, AllocateAdmitKind, AllocateCheckKind,
     AllocateClaimKind, AllocateFinishKind, AccessBeginKind, ClaimStartKind,
     ClaimInspectKind, ClaimPublishKind, ReleaseStartKind, ReleaseCheckKind,
     ReleaseRecordKind, AlignPlanKind, AlignStepKind, AlignCheckoutKind,
     AlignRecordKind, AlignDoneKind, ExplicitReconcileStartKind,
     ExplicitReconcileBeginKind, ExplicitReconcileCloseKind DEF AccessNext,
     ProtocolStep

LEMMA CreationNextKind ==
  ASSUME Typed, NEW p \in Processes, CreationNext(p)
  PROVE  ProtocolStep(p)
  BY ProvisionStartKind, CreateStartKind, CreateBeginKind, CreateMkdirKind,
     CreateIntentKind, CreateAddKind, CreateAttachKind, CreateNextKind,
     CreateFinalizeKind, RollbackRemoveKind, RollbackRowKind,
     RollbackDirectoryKind, RollbackClaimKind, RollbackOperationKind,
     RollbackWorkspaceKind DEF CreationNext, ProtocolStep

LEMMA RemovalNextKind ==
  ASSUME Typed, NEW p \in Processes, RemovalNext(p)
  PROVE  ProtocolStep(p)
  BY GcStartKind, GcScanKind, RemoveStartKind, RemoveRefreshKind,
     RemovalBeginKind, RemovalCheckKind, RemovalRenewKind, RemovalRemoveKind,
     RemovalDirectoryKind, RemovalRecordKind, RemovalFailKind DEF RemovalNext,
     ProtocolStep

\* Every step of a process is of one of the kinds.
THEOREM WorkProtocol ==
  ASSUME Typed, NEW p \in Processes, Work(p)
  PROVE  ProtocolStep(p)
  BY ReconcileNextKind, RecoverNextKind, AccessNextKind, CreationNextKind,
     RemovalNextKind, FailOperationKind DEF Work, ProtocolStep
=============================================================================
