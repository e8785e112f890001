# A TLA+ model of trees

`trees` manages workspaces made of Git worktrees. Every invocation is a
process of its own; any number of them, agents among them, run at once on one
SQLite database and one set of directories, work for seconds or minutes
outside any transaction, and may be killed at any point. This directory models
what happens between them: who may work on a workspace, who holds it, what an
abandoned operation leaves and what the next process makes of it.

Everything is translated from the Rust source under `src/`; paths below are
relative to it.

## Inventory

| Component | Source | State | Operations | Module |
|---|---|---|---|---|
| Lifecycle store | `storage/repository.rs`, `models.rs`, `domain.rs` | rows of workspaces, worktrees, claims, leases; events | admit, finish, take over an operation; record states | `TreesStore` |
| Git and files | `git.rs`, `validation.rs` | worktrees and directories on disk | add, remove, check out, inspect, under a heartbeat | `TreesStore` |
| Reconciliation | `reconciliation.rs` | - | observe a workspace and record what changed | `Reconciliation` |
| Operation recovery | `reconciliation.rs` | - | take over an expired operation; finish or roll back a creation | `Reconciliation` |
| Acquisition, claim, release | `workspace.rs`, `pool.rs` | claims | hand a pooled workspace to a user and take it back | `Access` |
| Creation | `workspace.rs` | - | automatic provisioning, manual creation, rollback | `Creation` |
| Removal, collection | `gc.rs` | - | `trees gc`, `trees remove` | `Removal` |
| Composition | `main.rs` | the processes | interleaving, deaths, expiry, users | `Trees`, `Programs` |
| Additions | `add/`, `workspace_instructions.rs` | journal, residual rows, new worktrees | `trees add`, its undoing and its recovery | `Addition`, `AtomicAddition` |
| Origins | `origin/`, `storage/origin.rs`, `removal.rs` | origin rows, clone intents, file locks, clones | resolve, clone, clean, refer, remove | `Origins` |
| Sessions | `workspace_session.rs`, `workspace_session/` | a child process, its signals, its claim | run, forward, release at exit, recovery shell | `Sessions` |
| Disk-usage cache | `storage/disk_usage_cache.rs`, `size_refresh.rs` | measured sizes | debounced refresh, save, forget | `Sizes` |
| Disk scan | `status/disk_usage.rs` | a stack of open directories | measure a tree that changes | `DiskUsage` |
| Reports | `status.rs`, `status/` | - | the queries of a report, labels | `Status`, `Labels` |
| Session hook | `status/session_hook/` | a process group, three threads | ask a program of the user, with a timeout | `HookRunner` |
| Process probe | `status/processes/` | - | who works in a workspace, from /proc | `ProcessProbe` |
| CLI, config, paths, names | `cli.rs`, `config.rs`, `naming.rs`, ... | - | pure functions | not modelled |
| Database set-up | `database.rs`, `migrations/` | schema | migrations | not modelled |

How they interact: a command *admits* itself by inserting a lease row (unique
per workspace) with the event that starts its operation, works on the files
while a heartbeat renews the lease every second of a long Git command, and
*closes* the operation in a transaction that checks the lease token. Before its
own admission a command may *recover* the expired operation of a dead process,
which replaces the lease token. Recovery and all commands call the
reconciliation, a sequence of Git inspections with one unfenced write each.
Claims are rows of their own, unique per workspace, that outlive the operation
that inserted them. An addition admits itself in the same way but keeps a
journal - its plan and the evidence of each step - from which the process that
recovers it decides; while one is unresolved, releases, claims and additions
are refused. Creations and additions refer to rows of origin repositories,
whose removal counts references again in its transaction. Sessions call the
release; commands that changed files start a refresh of sizes, which works on
the rows without any lease; a report reads the database in one transaction and
then the system outside it.

What makes each part correct, and what is hard:

- *Store*: one operation per workspace; a terminal event once; a process that
  lost its lease does nothing more (it does: the state writes check no lease).
- *Recovery*: two processes that find the same expired operation do not both
  recover it; a creation is completed or rolled back, never both.
- *Access*: one claim per workspace, ended only by its owner or by a forced
  removal; a user is given complete workspaces; claims left by dead processes.
- *Creation*: rollback removes only its own worktrees and its own claim, even
  when it lost its operation to another process in between.
- *Removal*: the guards are checked in a scan and must still hold when files
  are deleted minutes later.
- *Additions*: files and rows cannot change together: a death at any step must
  leave what another process can finish or undo, failing and dying itself; work
  of the user must survive; a claim released meanwhile must end the addition.
- *Origins*: one clone per URL; recovery of a clone must prove whose files it
  deletes, and must not be fooled by a commit whose acknowledgement was lost.
- *Sessions*: a signal between a test and a sleep; a release only when the child
  is known to have ended, and only of the session's own claim.
- *Sizes*: a measurement is minutes old when it is saved; the tree changes while
  it is scanned.
- *Reports*: one moment for all tables; a hook that hangs; process numbers that
  are used again between two reads.
- *Liveness*: no command waits for another one; additions, clone intents and
  queries end; a session notices the end of its child.

`PROJECT.json` lists these hazards with the line where each one bites and the
property that covers it, or why none does.

## Modules

    TreesStore            tables, files, process memory, statements
      Reconciliation      observe a workspace; recover an expired operation
        Access            acquire, claim, release, align, explicit reconcile
        Creation          provision, create, roll back
        Removal           gc, remove
          Trees           all of them + crash, expiry, users; properties
            MCTrees       symmetry and model values for TLC
            TreesTypes      proof of the type invariant
              TreesProtocol   proof that every step is of one of eleven kinds
                TreesInvariants  the inductive invariant, the safety theorems
                  TreesLedger      the refinement of ClaimLedger
    ClaimLedger           abstract specification of claims

    Addition              trees add: journal, files, undoing, recovery
    AtomicAddition        abstract specification of an addition
      AdditionTypes       proof of types, of the order of operations, of their evidence
        AdditionProofs    the safety theorems and the refinement of AtomicAddition

    Programs              the parts below, one at a time
      Origins             clones and rows of origin repositories
      Sessions            a program, its signals, the release at its end
      Sizes               the cache of sizes
      DiskUsage           one scan of a directory tree
      HookRunner          the session hook: threads, pipes, timeout, group
      ProcessProbe        attribution of processes to a workspace
      Status              the queries of a report
      Labels              shortest unique labels
        ProcessProofs     theorems on Origins, Sessions, HookRunner, ProcessProbe
        ProgramsProofs    those on Sizes, DiskUsage, Status, Labels, and on Programs

### From the code to the model

- **Process.** `pc[p]` is the next step of a process and `mem[p]` the local
  variables that survive between steps. A step ends where the code commits a
  transaction, runs a Git or filesystem command, or reads something it will
  use later; so any two processes interleave exactly where they can in SQLite.
  Reads within one transaction, and a read with the decision it feeds, are one
  step. `Blank` is the memory of a process that runs nothing.
- **Subroutines.** Reconciliation returns to the label in `mem[p].ret`,
  recovery through `AfterRecovery`, which dispatches on the command.
- **Leases.** A token is the pair [by, own]: a process works under one token at
  a time and forgets it when it stops, so the process identifies it. `live`
  says whether the 300 s are over. `Holds(p)` is the check that
  `operation_lease_for_mutation` makes in each fenced transaction.
- **Unfenced writes.** `SetWorkspace` and `SetRow` check nothing, as
  `record_workspace_transition` and `record_repo_worktree_transition` do.
- **Files.** `disk[w][r]` is what is at a worktree path: absent, clean and
  detached at the recorded revision, dirty, on a branch, or at another
  revision. `dir[w]` is the container directory, which exists only when a
  workspace has several repositories.
- **Git commands** are atomic, may fail by themselves (`Faults`), and may be
  killed when the lease was lost (`CommandMayFail`); a failing removal or
  addition may leave a part behind, which shows as a dirty worktree.
- **Users.** `UserEdit` changes the content of a worktree at any time to any
  member of `Edits`; the history variables `issued` and `held` record which
  claims were ever inserted and which workspace a user was told they hold.
  `held` is written only where the command reports success.

Abstractions that lose something: a Git child that outlives its killed parent
is not modelled; a path that exists but is not registered in Git and one that is
absent are merged; the age threshold of the collector is dropped (any idle
workspace may be old enough); revisions are "base" and "other"; the event log
is reduced to the outcome of the creation; in the modules of `Trees` no addition
is unresolved (they refuse to work while one is); a workspace has all of
`Repos`. Workspaces share only claim identities, which are
fresh, so runs use one workspace; the proofs are for any number.

#### Additions

`Addition` has a state of its own, because its files are not those of the other
commands: a worktree moves from the root of the workspace through a staging path
to a directory in it, and the root becomes a container. `journal[o]` is what
`operations` and `lifecycle_events` say of operation o: its plan, the intents
(`intended`), the evidence (`made`, `moved`, `boxed`), the decision to roll back,
its state, and the operation whose work it undoes. A directory is known by the
operation that made it, which stands for device, inode and birth time; a row by
the operation whose plan drew its id (`rowId`), and a staging path by the
operation whose lease names it (`original.staging`). A step of
a process is one Git or filesystem command or one transaction, so a death may
fall between any two, and a failing command may have done its work or not
(`Fault`). Releases and claims by others are one step, enabled when no addition
runs or is unresolved, as their code demands. The recovery of an expired
addition is here and not in `Reconciliation`.

`AtomicAddition` has three variables: what the database says (`layout`), whether
the files of the members agree (`exact`) and what is going on (`stage`). The
refinement mapping is `Stage` and `InPlace` of `Addition`. That nothing else is
left (`NoResidue`) is no part of it but of `Settled`: in an automatic workspace
the first holds always, the second until a recovery is `Late` (Findings).

#### The parts that share nothing

A clone, a session, a scan and a report do not see one another, so interleaving
them would only multiply states. `Programs` therefore starts with a choice of
the program that runs; a behaviour is one of that program, with the variables of
the others constant. Each module is a specification of its own (`OriginsSpec`,
`SessionSpec`, ...) that can be run alone.

- `Origins`: a step is a transaction, a step of the clone on disk, or a death,
  which the kernel answers by giving the lock file back. `clone[r]` is what is on
  disk. Publications may commit and still report an error. `Own` is a repository
  of the user with the same URL.
- `Sessions`: the loop of `Supervisor::wait` against handlers that store the flag
  and write the pipe in two steps, on whichever thread.
- `Sizes`: several refreshes against moves, removals and time; a measurement is a
  record of its path, its time and its completeness. `missed` is a history
  variable for the property only.
- `DiskUsage`: the walk with its stack, name by name. `names[d][n]` is the inode
  that a name denotes now: a name is looked up when it is listed and, if it was a
  directory, opened in a step of its own, and whatever happened to the name
  meanwhile is seen then. A file may have several names, a directory has one.
  Entries come, go and change places under the walk (`Change`); a stream need not
  list what a name denoted before such a change, and may list what came
  (`unsure`). `counted` and `kept` are history variables, for the property only.
- `HookRunner`: the main loop, three I/O threads and the hook with a descendant
  that may have left the process group.
- `ProcessProbe`: every read of /proc is a step; `present`, `users` and `steady`
  are histories of who was where, who was the user's, and who was both all along. The boundary functions of macOS are mapped to the
  same steps.
- `Status`: the first query pins the snapshot of the transaction. Other commands
  commit in between.
- `Labels`: the loop that deepens labels, one round per step, checked over all
  sets of up to three paths against the definition of a shortest unique suffix.

## Properties

`Trees` states these, each with the code it is about. Type invariant `TypeOK`;
safety `HeldClaimsAreActive`, `OneCreationOutcome`, `PhysicalWorkIsLeased`,
`HeldFilesSurvive`, `GrantedWorkspacesAreComplete`; refinement
`ClaimsFollowLedger` (the claims implement `ClaimLedger`, with `claim`,
`issued`, `held` for its variables); liveness `CommandsEnd`. Four more state
what a document says and the code does not do, see Findings.

`Addition`: an addition that is over left all or nothing, while no recovery is
late (`Settled`); an
unresolved one blocks others (`UnresolvedBlocks`); what is published stays
(`PublishedStays`); changes of a user are never removed (`UserWorkSurvives`);
the claim that was meant is the claim that gets the repositories (`ClaimKept`);
the whole is an atomic addition (`AdditionIsAtomic`, a refinement); additions
end (`AdditionsEnd`), save for one whose rows the database refuses (`Refused`).

The other modules: origins - `OneManagedClone`, `NoTakeover`,
`ReferencesResolve`, `CloneSurvives`, `IntentsEnd`; sessions -
`ReleasesOnlyItsOwn`, `ZeroMeansReleased`, `TerminationReachesChild`,
`ExitIsNoticed`; sizes - `SizesFollowPaths`, `CompleteRefreshSavedAll`; scan -
`UndisturbedScanIsExact`, `CompleteScanMissedNothing`; hook - `AnswersAreWhole`,
`NothingIsLeft`, `QueriesEnd`; probe - `ReportedProcessWasThere`,
`CompleteMissesNobody`; report - `ReportIsOfOneMoment`,
`LabelsAreShortestUnique`. Their types are the conjunction `ProgramsTypeOK`.

## Runs

All instances of `Trees` have one workspace. Two processes suffice to put one between any
two steps of the other; a third could only interfere with both, and what it
leaves is also left by the second one's next command. Two claims let a claim be
ended and replaced by another user's.

| Run | Instance | States | Properties |
|---|---|---|---|
| `claims` | 2 processes, 2 claims; provision, allocate, claim, release, gc; faults, stalls, deaths | 2.0 M | HeldClaimsAreActive, ClaimsFollowLedger, OneCreationOutcome |
| `claims_forced` | 2 processes, 2 claims; provision, claim, forced remove; stalls, deaths | 1.2 M | HeldClaimsAreActive, ClaimsFollowLedger |
| `exclusive` | 2 processes, 2 claims; every command but create, user edits, deaths, no stalls | 2.3 M | PhysicalWorkIsLeased, HeldFilesSurvive, GrantedWorkspacesAreComplete |
| `commands_end` | 2 processes, 1 claim; every command but create, deaths; fair | 69 k | CommandsEnd |
| `manual_faults` | 1 process, 2 repositories; create, remove, reconcile; faults, edits, deaths; fair | 0.4 M | TypeOK, CommandsEnd |
| `additions` | 2 processes, automatic workspace, 1 repository to add, 4 operations, 2 claims, 1 removed origin, 2 troubles; fair | 0.8 M | the eight of `Addition` |
| `programs` | see below; fair | 0.6 M | the 21 of the other modules |

The runs that expect a violation are under Findings.

`additions`: the repository that is there is at the root of the workspace or
inside it, so that both kinds of addition occur. Four operations are what the
finding `residual` takes: an addition, its recovery, the addition anew, and the
recovery that another command still has in mind; a fifth could only repeat one
of these, since a recovery of a recovery leads back to the evidence of the first
(`Evidence` follows the chain). `MaxTroubles` is one budget for what comes from
outside: a command that fails, a process that dies, a change of a user, another
claim, a removed origin row. Two of them, in any combination and at any step, let
a step fail and its undoing fail, its process die, or a user be at work there.

`programs`: two processes and three identifiers for one URL (an intent, its
retry, a row registered by path), two faults; two signals and two errors of a
session; two refreshers, one move and one tick of the clock; one file and two
directories below the root, two names, inodes of size 1, a maximum of 3, and two
changes of the tree; a hook that is asked about
two workspaces; one process number with two processes in turn and four events;
two commits during a report; all sets of up to three paths of up to three parts
of two names. Three paths are the least by which two labels may be deepened and
a third stay; two events are an exit and a start, the third a renaming, the fourth
a change of user. In the tree the file may have a name in the root, in a directory
or in several, and may be the last name that is listed; the root, the directories
and the file exceed the maximum by one. One change puts the other directory in the
place of the one that was looked up; with two the first may come back, or turn up
under its other name. Entries change only while the scan runs, in the directories
that are open or have a name in the root: where the walk is, or may still come.
Directories below the directories of the root are left out; the walk treats every
level alike.

Bounds of `Trees`: the sets of processes, workspaces, repositories and claims; `Commands`
and `Forces` select the commands of a run, `Edits` what users do. There are no
counters. When the claims of an instance are used up, nobody is given another
one, and a workspace without row or with a tombstone may be all that is left;
so the system may really stop and deadlock is not checked. The same holds of
`Addition`, when its operations are used up, and of the programs, which end. `Stalls = FALSE` in
`exclusive` is what its three properties need: the run `stalled_collection`
shows that they fail otherwise.

Fairness, in `FairSpec`: weak fairness of the steps of a process that runs a
command, since the operating system schedules it and every Git command of the
model ends. Nothing is assumed of users, deaths, expiry, or of idle processes
starting commands. `CommandsEnd` includes processes that die: a death ends the
command.

`Addition`: weak fairness of each process, where starting a command is part of
it: users keep running commands, without which nobody would find an expired
lease; and of `Expire`, since the lease of a dead process does expire. Failures,
deaths, edits, claims and removals are not fair and are bounded; a repair is not
fair and leaves nothing to repair.

`Programs`: a command on an origin goes on (WF of its steps), and a URL that is
wanted is asked for again (SF, because asking is disabled while somebody holds
the lock): the retry that the error messages call for. The loop and the handlers
of a session run; its child need not end. In a query the main thread runs, time
passes, and a thread that can end does; nothing is assumed of the hook.

## Findings

- `tombstone`: recovery (and rollback) closes the operation first and writes
  the workspace state `failed` in a later transaction that checks nothing, so a
  removal by another process in between is undone in the record: the tombstone
  becomes a failed workspace without worktrees.
- `stalled_collection`: a collector suspended for more than 300 s between the
  renewal and the Git command removes a worktree of a workspace that was
  recovered and acquired meanwhile: the command starts without another check.
- `observe_twice`: an observation stores the observed head with the state
  `diverged`; the next one compares with it and records `attached`.
- `manual_ready`: manual creation ignores what its last reconciliation found
  and overwrites `degraded` by `ready`.
- `residual`: `trees add` reads that an addition is unresolved and admits its
  recovery in a later transaction that does not look again. In a manual
  workspace, which has neither claim nor pool to compare, another process may
  have recovered it and published an addition meanwhile; the first one then
  undoes the older addition again and moves the original worktree out of the
  published layout. In an automatic workspace the comparison of the pool
  prevents it: `PublishedStays` holds in `additions`, which has room for the
  same four operations, and is a theorem. But if the addition in between was
  itself retained, the late recovery declares it resolved, in automatic
  workspaces too (`compensated` writes the event without looking whose
  unresolved addition is the latest one): its failed rows stay, and every later
  addition of the workspace is refused for them. The proof of `Settled` needed,
  and the property states, that no recovery was late.

Seen while modelling and not stated as properties, since no document decides
them: a refresh that began before a removal stores the size of a removed
workspace (against `openspec/specs/disk-usage-cache/spec.md:113`, a run of its
own in the plan); a clone that died between its directory and its marker blocks
its URL until a user deletes the directory; a clone that a user registers by its
path before it is published is deleted under the recorded row; an interrupted
addition whose origin row was removed keeps its lease for ever. `PROJECT.json`
lists these among the hazards. A file that loses its other names during a scan is
counted twice; of two refreshes of one path the older may be saved last.

## Proofs

`TLC` checks these for the instances above; the theorems hold for any finite or
infinite sets of processes, workspaces and claims, for any bounds, and for any
finite set of repositories or files. The assumptions are those on the constants,
named in the module that declares them (`StoreAssumption`, `AdditionAssumption`,
...); where a theorem needs another one, its statement says so.

Every argument has the same shape: an inductive invariant, one lemma per action
that says what the action does to the part of the state that is at stake, then
one lemma per part of the invariant that uses the effects only.

### Commands: `TreesTypes` to `TreesLedger`

1. `TreesTypes`: `SpecTypeOK`. `TypeOK` is not inductive: what a process has in
   `mem` depends on where it is, so `LocalOK` adds for each label which local
   variables are set.
2. `TreesProtocol`: `WorkProtocol`. Leases and claims are touched by few of the
   actions. Each step of a process is of one of eleven kinds: it starts a
   command, admits an operation, closes one, creates, inserts, confirms,
   publishes, releases, withdraws or buries a claim, or is plain. A kind says
   what happens to leases and claims and how far the control may move.
   Everything after this uses the kinds only.
3. `TreesInvariants`: `SpecInv`, the inductive invariant `Inv`:
   - `Recorded`: without a row there is no lease, claim or outcome, and a
     process past its first steps works on a workspace that has a row. Needed
     for "a creation starts with a vacant workspace".
   - `CreationsRun`: the outcome of a creation is open as long as its lease row
     exists; hence whoever closes it is the first (`SpecOneCreationOutcome`).
   - `OwnClaims`: processes are about to insert different claims, which nobody
     holds; hence a rollback that deletes its own claim ends nobody's.
   - `ClaimsIssued`: active and held claims were inserted.
   - `ClaimKnown`: a process that still holds its lease knows whether there is
     a claim: between insertion and confirmation of an acquisition it is its
     own, and in a removal that respects claims there is none. It is where
     leases protect claims: no other process can insert or delete a claim on
     the workspace without the lease, except a rollback of its own one.
   - `HeldClaimsAreActive` itself (`SpecHeldClaimsAreActive`).
   `Leased` (a process past its admission holds the lease) is inductive only if
   no process outlives its lease: `SpecPhysicalWorkIsLeased` assumes
   `Stalls = FALSE`, as the run does.

   The same module proves the two properties about files, under the same
   assumption. `WorkFiles` says of every action what it does to them
   (`FileStep`): worktrees disappear and local changes are lost only at three
   labels, the removals of recovery, rollback and `remove`/`gc`, and only in the
   workspace of that process. The invariants:
   - `CreationsAreLeased`: whoever builds, rolls back or recovers worktrees works
     under the lease of a creation. It needs `Leased`, or another process could
     have replaced that lease.
   - `CreationsUnheld`: nobody holds a workspace whose creation has a lease.
     With both, a rollback or a recovery meets no user; with `ClaimKnown`, nor
     does a removal that respects claims: `SpecHeldFilesSurvive`.
   - `FoundStays`: the worktrees that a command has found or made are there
     until it ends: the completed ones of a creation (`done`), all of them from
     the plan of an alignment or the second inspection of a claim on. No other
     process deletes them because it would have to hold the same lease. So a
     workspace is complete when its user gets it:
     `SpecGrantedWorkspacesAreComplete`, which assumes too that users do not
     delete worktrees themselves (`"absent" \notin Edits`, as in the run
     `exclusive`); with such a user it is false, since nothing looks between the
     inspection and the publication.
4. `TreesLedger`: `SpecClaimsFollowLedger`, kind by kind. It needs two more
   invariants: `Unspent`, a claim that a process has yet to insert was never
   inserted, so each insertion is one of the ledger; and `Apart`, no claim is
   active on two workspaces, so a release of a claim ends what its user holds
   on that workspace and nothing else.

### Additions: `AdditionTypes` and `AdditionProofs`

All the safety of `Addition` is proved; its liveness is not.

1. `AdditionStructure`, the invariant `Structured`. `Typed` has the types, with
   what each label needs in memory. `Numbered` and `Held`: operations are
   numbered as they are admitted, the lease is that of the latest, which alone
   runs, and a process that works holds it. `Chained`: `Evidence` is a recursive
   function, of which nothing is known until it is known to exist; that a
   function with its equation exists is an invariant, because each operation
   undoes an earlier one, and that there is only one follows from the least
   operation on which two would differ. `AdditionTypes` is a corollary.
2. `AdditionOrder`, the invariant `Orderly`: what the journal says of an
   operation fits the step its process is at (`Courses`), what is undone has
   failed and has the plan of what undoes it (`Lineage`), and selection starts
   with nothing unresolved (`Resolved`). From it `UnresolvedAdditionBlocks`, and
   the action properties `ClaimIsKept` and `UserWorkIsKept`.
3. `AdditionLayout`, the invariant `Layout`: what may still be taken apart by a
   process at hand, or by a recovery that is not yet superseded, names no member
   and no place of one (`Freed`), and outside of moves the recorded worktree
   stands where its row or its plan says (`Standing`). `Freed` needs the
   hypothesis that the finding `residual` violates: `InTime`, the workspace is
   automatic or no recovery is late. So there are two theorems:
   `PublishedLayoutStays` assumes `Automatic`, and is about exactly the
   workspaces in which the code compares the pool; `PublishedStaysInTime`
   assumes nothing and has the hypothesis in its formula.
4. `AdditionContained`: the container is there exactly when the recorded
   worktree is in it, save in the steps between. With it,
   `AdditionsAreAtomic`: in an automatic workspace each step maps to a step of
   `AtomicAddition` or to a stutter, shown for five kinds of steps
   (`StageEffect`). It assumes `Automatic` too: in a manual workspace the run
   `residual` refutes it.
5. `AdditionRemains`: a directory that an addition made is there only while the
   addition is open, and so are its failed rows and what a compensation has
   passed. `AdditionsSettle` follows. The attempt to prove it without `NoneLate`
   is how the second half of the finding `residual` came to light.

### The parts that share nothing: `ProcessProofs` and `ProgramsProofs`

- Origins, `OriginsInvariant`: whoever provisions holds the lock of the URL, what has
  an identifier has one that was drawn, the intent is not published, and who
  makes its clone knows that there is no other one. `OriginIsManagedOnce`, `OriginIsNotTakenOver`,
  `OriginReferencesResolve`, and the action property `OriginClonesSurvive`.
- Sessions, `SessionInvariant`: `SessionTellsTheTruth`, `SessionReleasesItsOwn`,
  and `SessionHearsEverything`, the safety half of `TerminationReachesChild` and
  `ExitIsNoticed`: the loop is never asleep with news that no byte in the pipe
  and no handler will announce. This one is proved only.
- Hook, `HookInvariant`: threads report once and the main thread waits for all of
  them. `HookAnswersAreWhole`, `HookLeavesNothing`.
- Probe: a number with its start time is one process for ever; between equal
  start times it was there all the time. `ProbeReportsTheLiving` was first stated
  as "worked there as the user's"; its proof failed, and the reason is in the
  code: identity and user are read again one after the other, so a process that
  ends in between may lend its name and place to the user of its successor. The
  property now says what holds. `ProbeIsComplete`.
- Sizes, report, labels: `SizesFollow`, `SizesAreComplete`,
  `StatusIsOfOneMoment`, and `LabelsAreShortest`, for any set of paths of any
  length.
- Scan: `DiskScanMissesNothing`, from `ScanInv`, whatever changes: as long as
  there is no issue, of every directory that was counted each name that has not
  changed denotes what was counted, or is left to be listed, or the directory is
  still to be opened (`Covered`). It is the test of `StillThere` that lets the
  opened directory take over what was still to be read of the one looked up. And
  `DiskScanIsExact`, from `ExactInv`, of a tree that nobody changes: what was
  counted is in the tree, its size is the sum of its blocks, and a name not yet
  read is of an inode that is known or was not counted. The sum is the library's
  recursive function on the parts of a set, which takes any element first. That
  it exists, that it is one function whatever it is defined on, and that the
  order makes no difference (`SumsExist`, `SumsAgree`, `SumsOfParts`) is shown by
  induction on the parts of a finite set (`EveryPart`), stated with a set in the
  place of a predicate and proved from the well-foundedness of the naturals.
- `ProgramsAreTheirParts`: a behaviour of `Programs` is one of every part, the
  others standing still; hence `ProgramsTypes` and `ProgramsAreSafe`, the
  safety properties of the run `programs` for the specification that it runs.

### Model-checked only

- Liveness (`CommandsEnd`, `AdditionsEnd`, `IntentsEnd`, `QueriesEnd`,
  `TerminationReachesChild`, `ExitIsNoticed`): fairness and ENABLED are out of
  the prover's reach.
- The findings, which are false.

## Plan

1. Done: store, reconciliation, recovery, access, creation, removal, their
   composition; types, the lease and claim protocol and its refinement proved.
2. Done: additions with their abstract specification; origins, sessions, sizes,
   scan, hook, probe, reports, labels.
3. Done: the safety of additions and their refinement, of origins, sessions,
   sizes, scans, hook, probe, reports and labels, proved, and so are the two
   file properties of `Trees`.
4. `History`: the order of the events of one operation under equal timestamps,
   which decides what `find_latest_operation_event` returns.
5. The size of a removed workspace, as a run; the cached sizes of a report.

## Not modelled

- `cli.rs`, `config.rs`, `naming.rs`, `paths.rs`, the prompts and the printing of
  `main.rs`: pure parsing and formatting, no state, nothing for a model checker
  that a unit test does not reach.
- `database.rs` and the migrations: SQL executed once by the library. What the
  other parts rely on (foreign keys, unique indices, triggers, snapshots) is
  modelled where it matters.
- `status/summary.rs` and the rendering in `status.rs`: functions of a report.
- `workspace_open.rs`: chooses a program and a directory; the session it starts
  is in `Sessions`.
- Git itself: its commands are the steps that the code uses, with the failures
  it distinguishes.
- A clock that goes back; a Git child that outlives its killed parent; the reuse
  of the number of a process group.

Runs are merged where instances allow it, so that each asks its own question.
