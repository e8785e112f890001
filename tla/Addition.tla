------------------------------- MODULE Addition -------------------------------
(***************************************************************************)
(* `trees add`: repositories join a workspace that exists, and the one     *)
(* worktree that occupied its root moves into it.                          *)
(*                                                                         *)
(* The files cannot change in one step, so an addition writes a plan and   *)
(* the evidence of what it made to the journal of its operation, changes   *)
(* the files, and publishes the new membership in one transaction.  What   *)
(* it cannot publish it undoes, and what it cannot undo it retains: the    *)
(* addition stays unresolved until a later `trees add` undoes it.  The     *)
(* origin repositories belong to the model too, since a row of theirs may  *)
(* be removed while an addition that needs it is on its way.               *)
(*                                                                         *)
(* Abstractions.  One workspace, with one recorded repository when it      *)
(* starts.  An operation is a number, the directory that it created is     *)
(* known by it (device, inode and birth time in the code).  The revision   *)
(* and the repository identity of a worktree are what was planned, and     *)
(* whether a worktree that is a member is attached, dirty or diverged is   *)
(* not told apart: it is recorded, and nothing depends on it.  The pool of *)
(* an automatic workspace is its members, in the same transactions.  A     *)
(* running process keeps its lease, which every step and every heartbeat   *)
(* of git renews.  An error that a command cannot even record ends it as a *)
(* crash does, with its lease left behind.                                 *)
(***************************************************************************)
EXTENDS Naturals, FiniteSets

CONSTANTS
    Processes,     \* the concurrent trees processes
    New,           \* the repositories that may be added
    None,          \* no operation, no process
    Automatic,     \* is the workspace automatic (claimed) or manual?
    Layouts,       \* where the recorded worktree is: "root" or "inside" it
    Contents,      \* what a user may turn a worktree into
    MaxOperations, \* bound: operations admitted
    MaxClaims,     \* bound: claims of the workspace
    MaxRemovals,   \* bound: removals of the row of an origin repository
    MaxTroubles    \* bound: commands that fail, processes that die, changes
                   \* of a user, claims and removed origin rows, all together

Operations == 1..MaxOperations
AllContents == {"clean", "dirty", "branch", "ignored"}

ASSUME AdditionAssumption ==
    /\ IsFiniteSet(New)
    /\ None \notin Nat /\ None \notin New \cup Processes
    /\ Layouts \subseteq {"root", "inside"}
    /\ Contents \subseteq AllContents
    /\ Automatic \in BOOLEAN
    /\ {MaxOperations, MaxClaims, MaxRemovals, MaxTroubles} \subseteq Nat
    /\ Automatic => MaxClaims # 0

VARIABLES
    rows,       \* repo_worktrees of the repositories in New
    rowId,      \* the id of such a row: the operation whose plan drew it
    place,      \* repo_worktrees.worktree_path of the recorded worktree
    claim,      \* workspace_claims: the active claim, 0 for none
    claims,     \* claims ever issued
    origins,    \* origin_repositories: the row of each repository in New
    lease,      \* operation_leases
    journal,    \* operations and lifecycle_events of each operation
    unresolved, \* the latest addition that is retained, if not resolved
    original,   \* the recorded worktree: where it is, where git lists it,
                \* and the operation whose staging path either of them is
    container,  \* the directory at the workspace path: who created it
    notes,      \* AGENTS.md in it
    tree,       \* what is at the path of each new worktree
    pc,         \* the next step of each process
    mem,        \* the local variables of each process
    troubles    \* how many of those are left

membership == <<rows, rowId, place>>
claiming   == <<claim, claims>>
store      == <<rows, rowId, place, claim, claims, origins, lease, journal,
                unresolved>>
files      == <<original, container, notes, tree>>
control    == <<pc, mem>>
vars       == <<rows, rowId, place, claim, claims, origins, lease, journal,
                unresolved, original, container, notes, tree, pc, mem,
                troubles>>

NoLease == [op |-> None, by |-> None, live |-> FALSE]
NoPlan  == [adds |-> {}, moves |-> FALSE, claim |-> 0, ids |-> [r \in New |-> 0]]
NoTree  == [dir |-> None, listed |-> FALSE, content |-> "clean"]

\* The journal of an operation: the operation whose work it undoes, its plan
\* once recorded, the evidence of its steps, its decision and its state.
NoJournal == [st |-> "none", of |-> None, planned |-> FALSE, plan |-> NoPlan,
              intended |-> {}, made |-> {}, moved |-> FALSE, boxed |-> FALSE,
              rollback |-> FALSE]

\* asked, members: the claim and the pool of the workspace as the command
\* read them; chose: its claim when the command was started.
Blank == [adds |-> FALSE, chose |-> 0, asked |-> 0, members |-> {}, op |-> None,
          source |-> None, mode |-> "execute", todo |-> {}, cur |-> None,
          leg |-> "none", plan |-> NoPlan, mutated |-> FALSE]

Init ==
    /\ rows = [r \in New |-> "none"]
    /\ rowId = [r \in New |-> None]
    /\ place \in Layouts
    /\ claim = (IF Automatic THEN 1 ELSE 0)
    /\ claims = claim
    /\ origins = [r \in New |-> [id |-> 0, exists |-> FALSE]]
    /\ lease = NoLease
    /\ journal = [o \in Operations |-> NoJournal]
    /\ unresolved = None
    /\ original = [at |-> place, listed |-> place, staging |-> None]
    /\ container = (IF place = "inside" THEN 0 ELSE None)
    /\ notes = "none"
    /\ tree = [r \in New |-> NoTree]
    /\ pc = [p \in Processes |-> "idle"]
    /\ mem = [p \in Processes |-> Blank]
    /\ troubles = MaxTroubles

-----------------------------------------------------------------------------
(* Control of one process, and what it reads. *)

Step(p, label, m) ==
    /\ pc'  = [pc EXCEPT ![p] = label]
    /\ mem' = [mem EXCEPT ![p] = m]

End(p) == Step(p, "idle", Blank)

\* The rest of what a process was to do is dropped.
GiveUp(p, label) ==
    Step(p, label, [mem[p] EXCEPT !.todo = {}, !.cur = None, !.leg = "none"])

\* A command of git, of the filesystem or of the database fails.
Fault   == troubles > 0 /\ troubles' = troubles - 1
NoFault == UNCHANGED troubles

Op(p)   == mem[p].op
Plan(p) == journal[Op(p)].plan

\* evidence_operation: the operation that took the steps a recovery undoes.
Evidence[o \in Operations] ==
    IF journal[o].of = None THEN o ELSE Evidence[journal[o].of]

\* Mutant of Source: a recovery looks for evidence in its own journal.
OwnJournal(p) == Op(p)

Source(p) == Evidence[Op(p)]

Record(p, entry) == journal' = [journal EXCEPT ![Op(p)] = entry]

\* finish_operation_in_transaction: the terminal event and the lease row.
Close(p, entry, outcome) ==
    /\ Record(p, [entry EXCEPT !.st = outcome])
    /\ lease' = NoLease

\* observe: the worktree is at the path and git lists it there.
OriginalAt(path) == original.at = path /\ original.listed = path

\* The same of the staging path, which is that of an operation.
StagedBy(o) == OriginalAt("staging") /\ original.staging = o

\* owns_directory: the directory has the identity that the journal recorded.
Owns(o, r) == r \in journal[o].made /\ tree[r].dir = o

FinalPlace(plan) == IF plan.moves THEN "inside" ELSE place

\* final_observations: every worktree of the plan is where it should be.
FinallyThere(o, plan) ==
    /\ OriginalAt(FinalPlace(plan))
    /\ \A r \in plan.adds :
        Owns(o, r) /\ tree[r].listed /\ tree[r].content \in {"clean", "ignored"}

Members == {r \in New : rows[r] = "attached"}

\* The row of r that the plan names is still there.
HasOrigin(plan, r) == origins[r].exists /\ origins[r].id = plan.ids[r]

-----------------------------------------------------------------------------
(* Selection, recovery and admission. *)

\* A user runs `trees add`, or another command that changes the workspace:
\* locate_target and recover_expired_operation, which replaces the token of
\* an expired lease.  A lease that is not over ends the command.
Start(p) ==
    /\ pc[p] = "idle"
    /\ \/ /\ lease = NoLease
          /\ Automatic => claim # 0
          /\ Step(p, "locate", [Blank EXCEPT !.adds = TRUE, !.chose = claim,
                                            !.asked = claim])
          /\ UNCHANGED lease
       \/ /\ lease # NoLease /\ ~lease.live
          /\ \E adds \in (IF Automatic /\ claim = 0 THEN {FALSE} ELSE BOOLEAN) :
                Step(p, "decide",
                     [Blank EXCEPT !.adds = adds, !.chose = claim, !.asked = claim,
                                   !.op = lease.op, !.mode = "recover"])
          /\ lease' = [lease EXCEPT !.by = p, !.live = TRUE]
    /\ UNCHANGED <<membership, claiming, origins, journal, unresolved, files,
                   troubles>>

\* Mutant of Locate: the claim is selected anew after the recovery.
LocateAnew(p) ==
    /\ pc[p] = "locate"
    /\ IF ~Automatic \/ claim # 0
       THEN Step(p, "admit", [mem[p] EXCEPT !.asked = claim, !.members = Members,
                                            !.source = unresolved])
       ELSE End(p)
    /\ UNCHANGED <<store, files, troubles>>

\* The second half of recover_target: the claim that the command selected is
\* still there; an addition that is unresolved comes first.
Locate(p) ==
    /\ pc[p] = "locate"
    /\ IF claim = mem[p].asked
       THEN Step(p, "admit", [mem[p] EXCEPT !.members = Members,
                                            !.source = unresolved])
       ELSE End(p)
    /\ UNCHANGED <<store, files, troubles>>

NextOperation == CHOOSE o \in Operations :
    /\ journal[o].st = "none"
    /\ \A q \in Operations : journal[q].st = "none" => o <= q

\* admit: the claim and the pool are compared again in the transaction that
\* inserts the operation and its lease; a manual workspace has neither.
SameTarget(p) ==
    /\ claim = mem[p].asked
    /\ Automatic => Members = mem[p].members

Admit(p) ==
    /\ pc[p] = "admit"
    /\ IF /\ lease = NoLease /\ SameTarget(p)
          /\ \E o \in Operations : journal[o].st = "none"
       THEN LET o == NextOperation
            IN  /\ lease' = [op |-> o, by |-> p, live |-> TRUE]
                /\ journal' = [journal EXCEPT ![o].st = "running",
                                              ![o].of = mem[p].source]
                /\ Step(p, IF mem[p].source = None THEN "prepare" ELSE "source",
                        [mem[p] EXCEPT !.op = o,
                             !.mode = IF mem[p].source = None THEN "execute"
                                                              ELSE "residual"])
       ELSE End(p) /\ UNCHANGED <<lease, journal>>
    /\ UNCHANGED <<membership, claiming, origins, unresolved, files, troubles>>


\* recover_residual: the recovery has the plan of the addition it undoes.
LoadSource(p) ==
    /\ pc[p] = "source"
    /\ Record(p, [journal[Op(p)] EXCEPT !.planned = TRUE,
                                        !.plan = journal[mem[p].source].plan])
    /\ Step(p, "compensate", mem[p])
    /\ UNCHANGED <<membership, claiming, origins, lease, unresolved,
                   files, troubles>>

-----------------------------------------------------------------------------
(* Planning: a failure here is terminal and has changed nothing. *)

\* Mutant of MayPlan: without ensure_resolved.
PlansUnresolved ==
    /\ OriginalAt(place)
    /\ \A r \in New : rows[r] # "failed"

\* ensure_resolved and inspect_existing.
MayPlan ==
    /\ unresolved = None
    /\ OriginalAt(place)
    /\ \A r \in New : rows[r] # "failed"

\* select_additions: what the workspace has is not added again.
Prepare(p) ==
    /\ pc[p] = "prepare"
    /\ MayPlan
    /\ \E requested \in SUBSET New \ {{}} :
        Step(p, "origins", [mem[p] EXCEPT !.todo = requested \ Members])
    /\ UNCHANGED <<store, files, troubles>>

\* ensure_origin_repository, a transaction for each addition.
OriginAvailable(p) ==
    /\ pc[p] = "origins"
    /\ \E r \in mem[p].todo :
        /\ origins' = [origins EXCEPT ![r].exists = TRUE]
        /\ Step(p, "origins", [mem[p] EXCEPT !.todo = @ \ {r},
                                              !.plan.adds = @ \cup {r},
                                              !.plan.ids[r] = origins[r].id])
    /\ UNCHANGED <<membership, claim, claims, lease, journal, unresolved,
                   files, troubles>>

PathsAreFree(plan) ==
    place = "inside" => \A r \in plan.adds : tree[r].dir = None

\* plan_relocation and the event that records the plan.
RecordPlan(p) ==
    /\ pc[p] = "origins"
    /\ mem[p].todo = {}
    /\ PathsAreFree(mem[p].plan)
    /\ LET adds == mem[p].plan.adds
           plan == [mem[p].plan EXCEPT !.claim = mem[p].asked,
                                       !.moves = place = "root" /\ adds # {}]
       IN  /\ Record(p, [journal[Op(p)] EXCEPT !.planned = TRUE, !.plan = plan])
           /\ Step(p, IF plan.moves THEN "move" ELSE "additions",
                   [mem[p] EXCEPT !.leg = IF plan.moves THEN "out" ELSE "none",
                                  !.todo = adds, !.plan = NoPlan])
    /\ UNCHANGED <<membership, claiming, origins, lease, unresolved,
                   files, troubles>>

\* prepare_operation: the terminal state of an addition without a plan.
PrepareFails(p) ==
    /\ \/ pc[p] = "prepare" /\ ~MayPlan /\ NoFault
       \/ /\ pc[p] = "origins" /\ mem[p].todo = {} /\ ~PathsAreFree(mem[p].plan)
          /\ NoFault
       \/ pc[p] \in {"prepare", "origins"} /\ Fault
    /\ Close(p, journal[Op(p)], "failed")
    /\ End(p)
    /\ UNCHANGED <<membership, claiming, origins, unresolved, files>>

-----------------------------------------------------------------------------
(* Moving the recorded worktree, when adding and when undoing. *)

Legs == [out  |-> [from |-> "root",    to |-> "staging", then |-> "box"],
         in   |-> [from |-> "staging", to |-> "inside",  then |-> "additions"],
         home |-> [from |-> "inside",  to |-> "staging", then |-> "unbox"],
         back |-> [from |-> "staging", to |-> "root",    then |-> "restored"]]

Leg(p) == Legs[mem[p].leg]

OnFailure(p) == IF mem[p].leg \in {"out", "in"} THEN "fail" ELSE "retain"

CanMove(p) ==
    /\ IF Leg(p).from = "staging" THEN StagedBy(Source(p)) ELSE OriginalAt(Leg(p).from)
    /\ Leg(p).to = "root" => container = None
    /\ Leg(p).to = "inside" => container # None

MovedTo(p, listed) ==
    [at |-> Leg(p).to, listed |-> listed,
     staging |-> IF "staging" \in {Leg(p).to, listed} THEN Source(p) ELSE None]

\* move_original.  A git that fails or is killed may have moved the files
\* and not its record of them.
MoveOriginal(p) ==
    /\ pc[p] = "move"
    /\ \/ /\ CanMove(p)
          /\ original' = MovedTo(p, Leg(p).to)
          /\ Step(p, "moved", mem[p])
          /\ NoFault
       \/ /\ CanMove(p) /\ Fault
          /\ \E listed \in {Leg(p).from, Leg(p).to} :
                original' = MovedTo(p, listed)
          /\ GiveUp(p, OnFailure(p))
       \/ /\ ~CanMove(p)
          /\ GiveUp(p, OnFailure(p))
          /\ UNCHANGED <<original, troubles>>
    /\ UNCHANGED <<store, container, notes, tree>>

\* The event worktree_relocated.
RecordMove(p) ==
    /\ pc[p] = "moved"
    /\ Record(p, [journal[Op(p)] EXCEPT !.moved = TRUE])
    /\ Step(p, Leg(p).then, mem[p])
    /\ UNCHANGED <<membership, claiming, origins, lease, unresolved,
                   files, troubles>>

-----------------------------------------------------------------------------
(* apply: provision and publish. *)

CreateContainer(p) ==
    /\ pc[p] = "box"
    /\ IF container = None
       THEN container' = Op(p) /\ Step(p, "boxed", mem[p])
       ELSE UNCHANGED container /\ GiveUp(p, "fail")
    /\ UNCHANGED <<store, original, notes, tree, troubles>>

RecordContainer(p) ==
    /\ pc[p] = "boxed"
    /\ Record(p, [journal[Op(p)] EXCEPT !.boxed = TRUE])
    /\ Step(p, "move", [mem[p] EXCEPT !.leg = "in"])
    /\ UNCHANGED <<membership, claiming, origins, lease, unresolved,
                   files, troubles>>

\* The event worktree_add_intended comes before the directory.
IntendAddition(p) ==
    /\ pc[p] = "additions"
    /\ \E r \in mem[p].todo :
        IF tree[r].dir = None
        THEN /\ Record(p, [journal[Op(p)] EXCEPT !.intended = @ \cup {r}])
             /\ Step(p, "mkdir", [mem[p] EXCEPT !.cur = r, !.todo = @ \ {r}])
        ELSE UNCHANGED journal /\ GiveUp(p, "fail")
    /\ UNCHANGED <<membership, claiming, origins, lease, unresolved,
                   files, troubles>>

CreateDirectory(p) ==
    /\ pc[p] = "mkdir"
    /\ IF tree[mem[p].cur].dir = None
       THEN /\ tree' = [tree EXCEPT ![mem[p].cur].dir = Op(p)]
            /\ Step(p, "identity", mem[p])
       ELSE UNCHANGED tree /\ GiveUp(p, "fail")
    /\ UNCHANGED <<store, original, container, notes, troubles>>

\* The event worktree_directory_created, with the identity of the directory.
RecordDirectory(p) ==
    /\ pc[p] = "identity"
    /\ Record(p, [journal[Op(p)] EXCEPT !.made = @ \cup {mem[p].cur}])
    /\ Step(p, "attach", mem[p])
    /\ UNCHANGED <<membership, claiming, origins, lease, unresolved,
                   files, troubles>>

\* git worktree add, which wants an empty directory; one that is killed may
\* leave part of a worktree.
AttachWorktree(p) ==
    /\ pc[p] = "attach"
    /\ \/ /\ tree[mem[p].cur].content = "clean"
          /\ tree' = [tree EXCEPT ![mem[p].cur].listed = TRUE]
          /\ Step(p, "additions", [mem[p] EXCEPT !.cur = None])
          /\ NoFault
       \/ /\ tree[mem[p].cur].content # "clean"
          /\ GiveUp(p, "fail")
          /\ UNCHANGED <<tree, troubles>>
       \/ /\ tree[mem[p].cur].content = "clean" /\ Fault
          /\ \E left \in {NoTree, [tree[mem[p].cur] EXCEPT !.listed = TRUE,
                                                           !.content = "dirty"]} :
                tree' = [tree EXCEPT ![mem[p].cur] = left]
          /\ GiveUp(p, "fail")
    /\ UNCHANGED <<store, original, container, notes>>

\* prepare_shared_instructions: a workspace of several repositories has them.
WithNotes(plan) ==
    IF Members \cup plan.adds # {} /\ notes = "none" THEN "managed" ELSE notes

CreateNotes(p) ==
    /\ pc[p] = "additions"
    /\ mem[p].todo = {}
    /\ notes' = WithNotes(Plan(p))
    /\ Step(p, "observe", mem[p])
    /\ UNCHANGED <<store, original, container, tree, troubles>>

FinalObservations(p) ==
    /\ pc[p] = "observe"
    /\ IF FinallyThere(Op(p), Plan(p))
       THEN Step(p, "finish", mem[p])
       ELSE GiveUp(p, "fail")
    /\ UNCHANGED <<store, files, troubles>>

\* The new rows need the origins of the plan: a foreign key.
CanPublish(p) ==
    /\ claim = Plan(p).claim
    /\ \A r \in Plan(p).adds : HasOrigin(Plan(p), r)

\* finish: rows, path and terminal event in one transaction.
Publish(p) ==
    /\ rows' = [r \in New |-> IF r \in Plan(p).adds THEN "attached" ELSE rows[r]]
    /\ rowId' = [r \in New |-> IF r \in Plan(p).adds THEN Op(p) ELSE rowId[r]]
    /\ place' = FinalPlace(Plan(p))
    /\ Close(p, journal[Op(p)], "succeeded")

\* The acknowledgement of a commit may be lost.
Finish(p) ==
    /\ pc[p] = "finish"
    /\ IF CanPublish(p)
       THEN /\ Publish(p)
            /\ \/ End(p) /\ NoFault
               \/ Fault /\ GiveUp(p, "fail")
       ELSE /\ GiveUp(p, "fail")
            /\ UNCHANGED <<membership, lease, journal, troubles>>
    /\ UNCHANGED <<claiming, origins, unresolved, files>>

\* Mutant of ApplyFails: the worktree at hand stays at hand.
ApplyFailsAtHand(p) ==
    /\ pc[p] \in {"mkdir", "identity"} /\ Fault
    /\ Step(p, "fail", [mem[p] EXCEPT !.todo = {}])
    /\ UNCHANGED <<store, files>>

\* A step of apply fails by itself.
ApplyFails(p) ==
    /\ \/ pc[p] \in {"box", "boxed", "additions", "mkdir", "identity",
                     "observe", "finish"}
       \/ pc[p] = "moved" /\ OnFailure(p) = "fail"
    /\ Fault
    /\ GiveUp(p, "fail")
    /\ UNCHANGED <<store, files>>

\* fail_execution: a committed addition is not undone.
FailExecution(p) ==
    /\ pc[p] = "fail"
    /\ IF journal[Op(p)].st = "succeeded" THEN End(p)
                                          ELSE Step(p, "compensate", mem[p])
    /\ UNCHANGED <<store, files, troubles>>
-----------------------------------------------------------------------------
(* compensate: undo what the evidence shows was done. *)

Compensate(p) ==
    /\ pc[p] = "compensate"
    /\ LET e == journal[Source(p)]
       IN  Step(p, "remove",
                [mem[p] EXCEPT !.todo = Plan(p).adds,
                               !.mutated = \/ e.moved \/ e.boxed \/ e.made # {}
                                           \/ /\ Plan(p).moves /\ original.at = "staging"
                                              /\ original.staging = Source(p)])
    /\ Record(p, [journal[Op(p)] EXCEPT !.rollback = TRUE])
    /\ UNCHANGED <<membership, claiming, origins, lease, unresolved,
                   files, troubles>>

NothingToRemove(p, r) ==
    \/ r \notin journal[Source(p)].intended
    \/ tree[r].dir = None /\ ~tree[r].listed

MayRemove(p, r) == Owns(Source(p), r) /\ tree[r].content = "clean"

\* remove_addition: a directory that is not a worktree yet goes only when it
\* is empty, a worktree only when it has no changes and no ignored files.
RemoveAddition(p) ==
    /\ pc[p] = "remove"
    /\ \E r \in mem[p].todo :
        \/ /\ NothingToRemove(p, r)
           /\ Step(p, "remove", [mem[p] EXCEPT !.todo = @ \ {r}])
           /\ UNCHANGED tree
        \/ /\ ~NothingToRemove(p, r) /\ MayRemove(p, r) /\ ~tree[r].listed
           /\ Step(p, "remove", [mem[p] EXCEPT !.todo = @ \ {r}])
           /\ tree' = [tree EXCEPT ![r] = NoTree]
        \/ /\ ~NothingToRemove(p, r) /\ MayRemove(p, r) /\ tree[r].listed
           /\ Step(p, "detach", [mem[p] EXCEPT !.todo = @ \ {r}, !.cur = r])
           /\ UNCHANGED tree
        \/ /\ ~NothingToRemove(p, r) /\ ~MayRemove(p, r)
           /\ GiveUp(p, "retain")
           /\ UNCHANGED tree
    /\ UNCHANGED <<store, original, container, notes, troubles>>

\* Mutant of Removable: git worktree remove --force.
RemovableByForce(content) == content \in AllContents

\* What git worktree remove, without --force, takes for clean.
Removable(content) == content # "dirty"

\* remove_clean_worktree: it looks at the worktree again.
DetachWorktree(p) ==
    /\ pc[p] = "detach"
    /\ IF Removable(tree[mem[p].cur].content)
       THEN /\ tree' = [tree EXCEPT ![mem[p].cur] = NoTree]
            /\ Step(p, "remove", [mem[p] EXCEPT !.cur = None])
       ELSE UNCHANGED tree /\ GiveUp(p, "retain")
    /\ UNCHANGED <<store, original, container, notes, troubles>>

\* restore_original: where the worktree is decides how it goes home.
RestoreOriginal(p) ==
    /\ pc[p] = "remove"
    /\ mem[p].todo = {}
    /\ IF ~Plan(p).moves \/ OriginalAt("root")
       THEN Step(p, "restored", mem[p])
       ELSE IF OriginalAt("inside")
       THEN Step(p, "move", [mem[p] EXCEPT !.leg = "home"])
       ELSE Step(p, "unbox", mem[p])
    /\ UNCHANGED <<store, files, troubles>>

\* remove_container: only the directory that this addition created, and
\* only when nothing but its own AGENTS.md is in it.
OwnsContainer(p) == container = Source(p) /\ journal[Source(p)].boxed

RemoveContainer(p) ==
    /\ pc[p] = "unbox"
    /\ LET there   == container # None
           mine    == StagedBy(Source(p)) /\ (there => OwnsContainer(p))
           empties == notes # "edited" /\ \A r \in New : tree[r].dir = None
       IN  /\ notes' = IF mine /\ there /\ notes = "managed" THEN "none" ELSE notes
           /\ IF mine /\ (there => empties)
              THEN container' = None /\ Step(p, "move", [mem[p] EXCEPT !.leg = "back"])
              ELSE UNCHANGED container /\ GiveUp(p, "retain")
    /\ UNCHANGED <<store, original, tree, troubles>>

\* record_restoration: the worktrees that were there are observed again.
RecordRestoration(p) ==
    /\ pc[p] = "restored"
    /\ Step(p, IF OriginalAt(place) THEN "resolve" ELSE "retain", mem[p])
    /\ UNCHANGED <<store, files, troubles>>

\* Where the command goes on once the operation it undid is over.
Continue(p, resolved) ==
    LET on == [Blank EXCEPT !.adds = TRUE, !.chose = mem[p].chose,
                            !.asked = mem[p].asked, !.members = mem[p].members]
    IN  IF mem[p].mode = "recover" /\ mem[p].adds THEN Step(p, "locate", on)
        ELSE IF mem[p].mode = "residual" /\ resolved THEN Step(p, "admit", on)
        ELSE End(p)

\* The failed rows that have an id of the plan.
Failed(p) == {r \in Plan(p).adds : rows[r] = "failed" /\ rowId[r] = Source(p)}

\* compensated: one transaction.  It ends whatever is unresolved.
Resolve(p) ==
    /\ pc[p] = "resolve"
    /\ rows' = [r \in New |-> IF r \in Failed(p) THEN "none" ELSE rows[r]]
    /\ rowId' = [r \in New |-> IF r \in Failed(p) THEN None ELSE rowId[r]]
    /\ unresolved' = None
    /\ Close(p, journal[Op(p)], IF mem[p].mutated THEN "rolled_back" ELSE "failed")
    /\ Continue(p, TRUE)
    /\ UNCHANGED <<place, claiming, origins, files, troubles>>

UndoFails(p) ==
    /\ \/ pc[p] \in {"compensate", "remove", "detach", "unbox", "restored", "resolve"}
       \/ pc[p] = "moved" /\ OnFailure(p) = "retain"
    /\ Fault
    /\ GiveUp(p, "retain")
    /\ UNCHANGED <<store, files>>

\* The paths this addition meant to create and that still exist.
Remaining(p) ==
    {r \in Plan(p).adds : r \in journal[Source(p)].intended /\ tree[r].dir # None}

\* retain_residuals: one transaction, whose rows need their origins and are
\* refused where another addition has a row of the repository, published or
\* failed; when it fails the operation keeps its lease.
CanRetain(p, r) ==
    \/ rows[r] = "failed" /\ rowId[r] = Source(p)
    \/ rows[r] = "none" /\ HasOrigin(Plan(p), r)

Retain(p) ==
    /\ pc[p] = "retain"
    /\ IF \A r \in Remaining(p) : CanRetain(p, r)
       THEN /\ rows' = [r \in New |-> IF r \in Remaining(p) THEN "failed" ELSE rows[r]]
            /\ rowId' = [r \in New |-> IF r \in Remaining(p) THEN Source(p) ELSE rowId[r]]
            /\ unresolved' = Op(p)
            /\ Close(p, journal[Op(p)], "failed")
            /\ Continue(p, FALSE)
       ELSE UNCHANGED <<rows, rowId, unresolved, journal, lease>> /\ End(p)
    /\ UNCHANGED <<place, claiming, origins, files, troubles>>

-----------------------------------------------------------------------------
(* recover: the expired addition of a process that died. *)

\* Mutant of CanFinish: the journal alone decides.
FinishesUnseen(p) ==
    LET j == journal[Op(p)]
    IN  ~j.rollback /\ j.of = None /\ j.plan.adds \subseteq j.intended

\* Mutant of CanFinish: an undoing that was interrupted is forgotten.
FinishesUndone(p) ==
    LET j == journal[Op(p)]
    IN  j.plan.adds \subseteq j.intended /\ FinallyThere(Op(p), j.plan)

\* can_publish_recovery, up to its last transaction.
CanFinish(p) ==
    LET j == journal[Op(p)]
    IN  /\ ~j.rollback /\ j.of = None
        /\ j.plan.adds \subseteq j.intended
        /\ FinallyThere(Op(p), j.plan)

\* Mutant of Decide: an operation that has no plan is an error.
DecideWithPlan(p) ==
    /\ pc[p] = "decide"
    /\ IF ~journal[Op(p)].planned
       THEN End(p)
       ELSE Step(p, IF CanFinish(p) THEN "republish" ELSE "compensate", mem[p])
    /\ UNCHANGED <<store, files, troubles>>

Decide(p) ==
    /\ pc[p] = "decide"
    /\ IF ~journal[Op(p)].planned
       THEN Close(p, journal[Op(p)], "failed") /\ Continue(p, TRUE)
       ELSE /\ UNCHANGED <<lease, journal>>
            /\ IF CanFinish(p)
               THEN Step(p, "republish", mem[p])
               ELSE Step(p, "compensate", mem[p])
    /\ UNCHANGED <<membership, claiming, origins, unresolved, files, troubles>>

\* An error of the last transaction is returned as it is: nothing is undone,
\* and the lease is left to expire again.
Republish(p) ==
    /\ pc[p] = "republish"
    /\ notes' = WithNotes(Plan(p))
    /\ IF CanPublish(p)
       THEN Publish(p) /\ Continue(p, TRUE)
       ELSE UNCHANGED <<membership, lease, journal>> /\ End(p)
    /\ UNCHANGED <<claiming, origins, unresolved, original, container,
                   tree, troubles>>

-----------------------------------------------------------------------------
(* What happens around the additions. *)

\* A process dies, or gives up with an error that it could not record.
Crash(p) ==
    /\ pc[p] # "idle"
    /\ Fault
    /\ End(p)
    /\ UNCHANGED <<store, files>>

\* The lease of a process that no longer runs its operation is over.
Expire ==
    /\ lease # NoLease /\ lease.live
    /\ mem[lease.by].op # lease.op
    /\ lease' = [lease EXCEPT !.live = FALSE]
    /\ UNCHANGED <<membership, claiming, origins, journal, unresolved,
                   files, control, troubles>>

\* Release and claim, as far as an addition sees them: operations of their
\* own, refused while an addition is unresolved.
Release ==
    /\ lease = NoLease /\ unresolved = None /\ claim # 0
    /\ claim' = 0
    /\ UNCHANGED <<membership, claims, origins, lease, journal, unresolved,
                   files, control, troubles>>

Reclaim ==
    /\ lease = NoLease /\ unresolved = None /\ claim = 0
    /\ Automatic /\ claims < MaxClaims
    /\ claim' = claims + 1
    /\ claims' = claims + 1
    /\ Fault
    /\ UNCHANGED <<membership, origins, lease, journal, unresolved, files,
                   control>>

\* remove_origin: rows, and the pools they are in, keep it; a plan is no
\* reference.  A later row of the same repository has another identity.
RemoveOrigin(r) ==
    /\ origins[r].exists /\ origins[r].id < MaxRemovals
    /\ rows[r] = "none"
    /\ Fault
    /\ origins' = [origins EXCEPT ![r] = [id |-> @.id + 1, exists |-> FALSE]]
    /\ UNCHANGED <<membership, claim, claims, lease, journal, unresolved,
                   files, control>>

\* A user works in a worktree that is no member yet or in its directory, makes
\* a directory in the workspace or, while nothing is there, at its path, or
\* writes instructions.
Edit ==
    /\ Fault
    /\ \/ \E r \in New \ Members, content \in Contents :
            /\ tree[r].dir # None /\ (tree[r].listed \/ content = "dirty")
            /\ tree' = [tree EXCEPT ![r].content = content]
            /\ UNCHANGED <<container, notes>>
       \/ \E r \in New :
            /\ container # None /\ tree[r] = NoTree
            /\ tree' = [tree EXCEPT ![r].dir = 0, ![r].content = "dirty"]
            /\ UNCHANGED <<container, notes>>
       \/ /\ original.at = "staging" /\ container = None
          /\ container' = 0
          /\ UNCHANGED <<notes, tree>>
       \/ /\ notes = "managed"
          /\ notes' = "edited"
          /\ UNCHANGED <<container, tree>>
    /\ UNCHANGED <<store, original, control>>

\* A user repairs what an unresolved addition reported: moves the content of
\* a new worktree away, repairs the record of git, or clears the container.
Repair ==
    /\ unresolved # None /\ lease = NoLease
    /\ \/ \E r \in New :
            /\ r \notin Members /\ tree[r] # NoTree
            /\ tree' = [tree EXCEPT ![r] = NoTree]
            /\ UNCHANGED <<original, container, notes>>
       \/ /\ original.listed # original.at
          /\ original' = [original EXCEPT !.listed = original.at,
                             !.staging = IF original.at = "staging" THEN @ ELSE None]
          /\ UNCHANGED <<container, notes, tree>>
       \/ /\ original.at = "staging" /\ \A r \in New : tree[r].dir = None
          /\ container # None
          /\ container' = None /\ notes' = "none"
          /\ UNCHANGED <<original, tree>>
    /\ UNCHANGED <<store, control, troubles>>

-----------------------------------------------------------------------------
Work(p) ==
    \/ Locate(p) \/ Admit(p) \/ LoadSource(p)
    \/ Prepare(p) \/ OriginAvailable(p) \/ RecordPlan(p) \/ PrepareFails(p)
    \/ MoveOriginal(p) \/ RecordMove(p) \/ CreateContainer(p)
    \/ RecordContainer(p) \/ IntendAddition(p) \/ CreateDirectory(p)
    \/ RecordDirectory(p) \/ AttachWorktree(p) \/ CreateNotes(p)
    \/ FinalObservations(p) \/ Finish(p) \/ ApplyFails(p) \/ FailExecution(p)
    \/ Compensate(p) \/ RemoveAddition(p) \/ DetachWorktree(p)
    \/ RestoreOriginal(p) \/ RemoveContainer(p) \/ RecordRestoration(p)
    \/ Resolve(p) \/ UndoFails(p) \/ Retain(p) \/ Decide(p) \/ Republish(p)

Environment ==
    \/ Expire \/ Release \/ Reclaim \/ Edit \/ Repair
    \/ \E r \in New : RemoveOrigin(r)

Next == Environment \/ \E p \in Processes : Start(p) \/ Work(p) \/ Crash(p)

\* A process that runs goes on, a lease that nobody renews expires, and users
\* keep running commands.
Fairness ==
    /\ \A p \in Processes : WF_vars(Start(p) \/ Work(p))
    /\ WF_vars(Expire)

Spec == Init /\ [][Next]_vars /\ Fairness

-----------------------------------------------------------------------------
TreeType == [dir: {None} \cup 0..MaxOperations, listed: BOOLEAN,
             content: AllContents]
PlanType == [adds: SUBSET New, moves: BOOLEAN, claim: 0..MaxClaims,
             ids: [New -> 0..MaxRemovals]]
JournalType ==
    [st: {"none", "running", "succeeded", "failed", "rolled_back"},
     of: {None} \cup Operations, planned: BOOLEAN, plan: PlanType,
     intended: SUBSET New, made: SUBSET New, moved: BOOLEAN, boxed: BOOLEAN,
     rollback: BOOLEAN]
MemoryType ==
    [adds: BOOLEAN, chose: 0..MaxClaims, asked: 0..MaxClaims,
     members: SUBSET New, op: {None} \cup Operations,
     source: {None} \cup Operations, mode: {"execute", "recover", "residual"},
     todo: SUBSET New, cur: {None} \cup New,
     leg: {"none", "out", "in", "home", "back"}, plan: PlanType, mutated: BOOLEAN]
RowStates == {"none", "attached", "failed"}
Places    == {"root", "staging", "inside"}
Label     == {"idle", "locate", "admit", "source", "prepare", "origins", "move",
              "moved", "box", "boxed", "additions", "mkdir", "identity",
              "attach", "observe", "finish", "fail", "compensate", "remove",
              "detach", "unbox", "restored", "resolve", "retain", "decide",
              "republish"}

\* Rows, journal, files and local variables have their types; a process works
\* on one new worktree exactly in the steps that create or remove it, moves
\* the recorded one exactly in the steps of a move, and has an operation from
\* its admission or takeover on.
TypeOK ==
    /\ rows \in [New -> RowStates]
    /\ rowId \in [New -> {None} \cup Operations]
    /\ place \in {"root", "inside"}
    /\ claim \in 0..MaxClaims /\ claims \in 0..MaxClaims
    /\ origins \in [New -> [id: 0..MaxRemovals, exists: BOOLEAN]]
    /\ lease \in {NoLease} \cup [op: Operations, by: Processes, live: BOOLEAN]
    /\ journal \in [Operations -> JournalType]
    /\ unresolved \in {None} \cup Operations
    /\ original \in [at: Places, listed: Places, staging: {None} \cup Operations]
    /\ container \in {None} \cup 0..MaxOperations
    /\ notes \in {"none", "managed", "edited"}
    /\ tree \in [New -> TreeType]
    /\ pc \in [Processes -> Label]
    /\ mem \in [Processes -> MemoryType]
    /\ troubles \in 0..MaxTroubles
    /\ \A p \in Processes :
        /\ mem[p].cur # None <=> pc[p] \in {"mkdir", "identity", "attach", "detach"}
        /\ pc[p] \in {"move", "moved"} => mem[p].leg # "none"
        /\ mem[p].op = None <=> pc[p] \in {"idle", "locate", "admit"}

\* The members are where the rows say: the recorded worktree is at its path, the
\* container is there if it should be, and each new member has its worktree.
InPlace ==
    /\ OriginalAt(place)
    /\ (container # None) = (place = "inside")
    /\ \A r \in Members : tree[r].listed /\ tree[r].dir # None

\* What is not a member has neither a row nor a worktree of trees.
NoResidue ==
    \A r \in New \ Members :
        rows[r] = "none" /\ tree[r].dir \in {None, 0} /\ ~tree[r].listed

\* A recovery of what was not unresolved any more when it was admitted: an
\* operation that was admitted in between has undone it or added to it.
Late(o) ==
    /\ journal[o].of # None
    /\ \E q \in Operations : journal[o].of < q /\ q < o /\ journal[q].planned

\* An addition that is over and not unresolved has left all of itself or
\* nothing: whatever failed or died, and however often its undoing was itself
\* interrupted and resumed by others (workflow.rs: compensate, recover).  This
\* is so as long as no recovery is late: one that is declares resolved what
\* another addition has left since.
Settled ==
    (lease = NoLease /\ unresolved = None /\ \A o \in Operations : ~Late(o)) =>
        InPlace /\ NoResidue

\* While an addition is unresolved, no operation but its recovery has a plan,
\* not even one that was on its way when the addition failed
\* (persistence::ensure_resolved).
UnresolvedBlocks ==
    (unresolved # None /\ lease # NoLease /\ journal[lease.op].planned) =>
        journal[lease.op].of # None

\* What is published stays where the rows say: no recovery of an older
\* addition takes a published layout apart.  In an automatic workspace the
\* comparison of its pool at admission sees to that; a manual one has none.
PublishedStays ==
    /\ place = "inside" => OriginalAt("inside")
    /\ \A r \in Members : tree[r].listed /\ tree[r].dir # None

\* No step of a process removes a worktree that a user has changes in, even
\* when they appear after it was found clean (remove_addition).
UserWorkSurvives ==
    [][\A r \in New :
          (tree[r].dir # None /\ tree[r].content = "dirty" /\ tree'[r] # tree[r])
              => UNCHANGED control]_vars

\* An addition is published to the user who started it: if the claim was
\* released, or released and given to another user, while the command
\* recovered what others had left, it does not change the workspace of the
\* next user (recover_target, admit, finish).
ClaimKept ==
    [][\A p \in Processes :
          (rows' # rows /\ mem[p].op = lease.op /\ mem[p].mode = "execute"
              /\ pc[p] = "finish") => claim = mem[p].chose]_vars

\* What an operation that holds the lease is about.
Stage ==
    IF lease = NoLease
    THEN IF unresolved # None THEN "unresolved" ELSE "settled"
    ELSE IF unresolved # None /\ journal[lease.op].of = None THEN "unresolved"
    ELSE IF journal[lease.op].of # None \/ journal[lease.op].rollback THEN "undoing"
    ELSE "adding"

\* The rows, the files of the members and the journal behave as an atomic
\* addition: in an automatic workspace even if a recovery is late.
Atomic == INSTANCE AtomicAddition
    WITH Layout <- [members: SUBSET New, place: {"root", "inside"}],
         layout <- [members |-> Members, place |-> place],
         stage <- Stage,
         exact <- InPlace
AdditionIsAtomic == Atomic!AdditionSpec

\* Every addition ends, by itself or by the commands that find its lease
\* expired; but one whose rows are refused in the last transaction of its
\* recovery, too, may not: by the foreign key when its origin repository was
\* removed under it, or since a late recovery finds the row of another addition.
Refused(o) ==
    \E r \in journal[o].plan.adds :
        \/ ~HasOrigin(journal[o].plan, r)
        \/ rows[r] = "failed" /\ rowId[r] # Evidence[o]

AdditionsEnd == lease # NoLease ~> lease = NoLease \/ Refused(lease.op)

=============================================================================
