--------------------------- MODULE AdditionProofs ---------------------------
(***************************************************************************)
(* What additions promise, proved: an unresolved addition blocks the next  *)
(* ones, a claim and the work of a user are kept, what is published stays, *)
(* what is over left all of itself or nothing, and in an automatic         *)
(* workspace an addition is atomic.                                        *)
(*                                                                         *)
(* One invariant is built up from the structure of AdditionTypes:          *)
(*   Orderly    what the journal says of an operation fits the step that   *)
(*              its process is at, what is undone has failed before, and   *)
(*              what undoes it has the same plan;                          *)
(*   Layout     no plan that may still be taken apart names a member, and  *)
(*              the recorded worktree is at its path unless an addition    *)
(*              is on its way;                                             *)
(*   Contained  the container is there exactly when that worktree is in it;*)
(*   Remains    a directory of an addition is there only while it is open. *)
(* Each part has a lemma for the steps of a process and one for all others.*)
(* The first lemmas say what a step may do to the files (WorkFiles), to    *)
(* the rows (WorkRows) and to the other processes (Others).                *)
(***************************************************************************)
EXTENDS AdditionTypes

-----------------------------------------------------------------------------
(* Where the steps of a process lead, and what they do to files and rows.    *)

Goes(p) ==
    \/ Locate(p) /\ pc'[p] \in {"admit", "idle"}
    \/ Admit(p) /\ pc'[p] \in {"prepare", "source", "idle"}
    \/ LoadSource(p) /\ pc'[p] = "compensate"
    \/ Prepare(p) /\ pc'[p] = "origins"
    \/ OriginAvailable(p) /\ pc'[p] = "origins"
    \/ RecordPlan(p) /\ pc'[p] \in {"move", "additions"}
    \/ PrepareFails(p) /\ pc'[p] = "idle"
    \/ MoveOriginal(p) /\ pc'[p] \in {"moved", OnFailure(p)}
    \/ RecordMove(p) /\ pc'[p] = Leg(p).then
    \/ CreateContainer(p) /\ pc'[p] \in {"boxed", "fail"}
    \/ RecordContainer(p) /\ pc'[p] = "move"
    \/ IntendAddition(p) /\ pc'[p] \in {"mkdir", "fail"}
    \/ CreateDirectory(p) /\ pc'[p] \in {"identity", "fail"}
    \/ RecordDirectory(p) /\ pc'[p] = "attach"
    \/ AttachWorktree(p) /\ pc'[p] \in {"additions", "fail"}
    \/ CreateNotes(p) /\ pc'[p] = "observe"
    \/ FinalObservations(p) /\ pc'[p] \in {"finish", "fail"}
    \/ Finish(p) /\ pc'[p] \in {"idle", "fail"}
    \/ ApplyFails(p) /\ pc'[p] = "fail"
    \/ FailExecution(p) /\ pc'[p] \in {"idle", "compensate"}
    \/ Compensate(p) /\ pc'[p] = "remove"
    \/ RemoveAddition(p) /\ pc'[p] \in {"remove", "detach", "retain"}
    \/ DetachWorktree(p) /\ pc'[p] \in {"remove", "retain"}
    \/ RestoreOriginal(p) /\ pc'[p] \in {"restored", "move", "unbox"}
    \/ RemoveContainer(p) /\ pc'[p] \in {"move", "retain"}
    \/ RecordRestoration(p) /\ pc'[p] \in {"resolve", "retain"}
    \/ Resolve(p) /\ pc'[p] \in {"locate", "admit", "idle"}
    \/ UndoFails(p) /\ pc'[p] = "retain"
    \/ Retain(p) /\ pc'[p] \in {"locate", "admit", "idle"}
    \/ Decide(p) /\ pc'[p] \in {"locate", "admit", "idle", "republish", "compensate"}
    \/ Republish(p) /\ pc'[p] \in {"locate", "admit", "idle"}

\* The action of each label, and the labels that it leads to.
LEMMA WorkGoes ==
    ASSUME NEW p \in Processes, Control, Work(p)
    PROVE  Goes(p)
<1>1. \A l, m : Step(p, l, m) => pc'[p] = l
  BY StepIs
<1>2. /\ \A l : GiveUp(p, l) => pc'[p] = l
      /\ End(p) => pc'[p] = "idle"
      /\ \A b : Continue(p, b) => pc'[p] \in {"locate", "admit", "idle"}
  BY <1>1 DEF GiveUp, End, Continue
<1>. USE <1>1, <1>2 DEF Goes
<1>3. CASE Locate(p) \/ Admit(p) \/ LoadSource(p) \/ Prepare(p)
  BY <1>3 DEF Locate, Admit, LoadSource, Prepare
<1>4. CASE OriginAvailable(p) \/ RecordPlan(p) \/ PrepareFails(p)
  BY <1>4 DEF OriginAvailable, RecordPlan, PrepareFails
<1>5. CASE MoveOriginal(p) \/ RecordMove(p) \/ CreateContainer(p) \/ RecordContainer(p)
  BY <1>5 DEF MoveOriginal, RecordMove, CreateContainer, RecordContainer
<1>6. CASE IntendAddition(p) \/ CreateDirectory(p) \/ RecordDirectory(p)
  BY <1>6 DEF IntendAddition, CreateDirectory, RecordDirectory
<1>7. CASE AttachWorktree(p) \/ CreateNotes(p) \/ FinalObservations(p) \/ Finish(p)
  BY <1>7 DEF AttachWorktree, CreateNotes, FinalObservations, Finish
<1>8. CASE ApplyFails(p) \/ FailExecution(p) \/ Compensate(p)
  BY <1>8 DEF ApplyFails, FailExecution, Compensate
<1>9. CASE RemoveAddition(p) \/ DetachWorktree(p) \/ RestoreOriginal(p)
  BY <1>9 DEF RemoveAddition, DetachWorktree, RestoreOriginal
<1>10. CASE RemoveContainer(p) \/ RecordRestoration(p) \/ Resolve(p)
  BY <1>10 DEF RemoveContainer, RecordRestoration, Resolve
<1>11. CASE UndoFails(p) \/ Retain(p) \/ Decide(p) \/ Republish(p)
  BY <1>11 DEF UndoFails, Retain, Decide, Republish
<1>. QED BY <1>3, <1>4, <1>5, <1>6, <1>7, <1>8, <1>9, <1>10, <1>11 DEF Work

\* Files stay, or one of them changes as the label says.
FilesStay == UNCHANGED <<original, container, tree>>

Relocates(p) ==
    /\ pc[p] = "move" /\ CanMove(p)
    /\ \E listed \in {Leg(p).from, Leg(p).to} :
         /\ original' = MovedTo(p, listed)
         /\ pc'[p] = "moved" => listed = Leg(p).to
    /\ UNCHANGED <<container, tree>>

Boxes(p) ==
    /\ pc[p] = "box" /\ container = None /\ container' = Op(p)
    /\ UNCHANGED <<original, tree>>

Unboxes(p) ==
    /\ pc[p] = "unbox" /\ StagedBy(Source(p)) /\ container' = None
    /\ UNCHANGED <<original, tree>>

Makes(p) ==
    /\ pc[p] = "mkdir" /\ tree[mem[p].cur].dir = None
    /\ tree' = [tree EXCEPT ![mem[p].cur].dir = Op(p)]
    /\ UNCHANGED <<original, container>>

Attaches(p) ==
    /\ pc[p] = "attach" /\ tree[mem[p].cur].content = "clean"
    /\ \E t \in TreeType :
         /\ tree' = [tree EXCEPT ![mem[p].cur] = t]
         /\ t = NoTree \/ (t.dir = tree[mem[p].cur].dir /\ t.listed)
         /\ pc'[p] = "additions" => t # NoTree
    /\ UNCHANGED <<original, container>>

Drops(p, r) ==
    /\ \/ pc[p] = "remove" /\ r \in mem[p].todo
       \/ pc[p] = "detach" /\ r = mem[p].cur
    /\ tree[r].content # "dirty"
    /\ tree' = [tree EXCEPT ![r] = NoTree]
    /\ UNCHANGED <<original, container>>

FileEffect(p) ==
    \/ FilesStay \/ Relocates(p) \/ Boxes(p) \/ Unboxes(p) \/ Makes(p) \/ Attaches(p)
    \/ \E r \in New : Drops(p, r)

\* Every step of a process does one of these to the files.
LEMMA WorkFiles ==
    ASSUME NEW p \in Processes, Typed, Work(p)
    PROVE  FileEffect(p)
<1>1. \A l, m : Step(p, l, m) => pc'[p] = l
  BY StepIs DEF Typed
<1>2. \A l : GiveUp(p, l) => pc'[p] = l
  BY <1>1 DEF GiveUp
<1>3. mem[p].todo \subseteq New
  BY Subject DEF Typed
<1>. USE DEF FileEffect, files
<1>4. CASE MoveOriginal(p)
  <2>1. OnFailure(p) # "moved"
    BY DEF OnFailure
  <2>. QED BY <1>1, <1>2, <1>4, <2>1 DEF MoveOriginal, FilesStay, Relocates
<1>5. CASE CreateContainer(p)
  BY <1>5 DEF CreateContainer, FilesStay, Boxes
<1>6. CASE RemoveContainer(p)
  BY <1>6 DEF RemoveContainer, FilesStay, Unboxes
<1>7. CASE CreateDirectory(p)
  BY <1>7 DEF CreateDirectory, FilesStay, Makes
<1>8. CASE AttachWorktree(p)
  <2>1. mem[p].cur \in New
    BY <1>8, Subject DEF AttachWorktree, Typed
  <2>. DEFINE t == tree[mem[p].cur]
              attached == [t EXCEPT !.listed = TRUE]
              part == [t EXCEPT !.listed = TRUE, !.content = "dirty"]
  <2>2. t \in TreeType
    BY <2>1 DEF Typed, StoreTyped
  <2>3. tree' = [tree EXCEPT ![mem[p].cur].listed = TRUE]
           => tree' = [tree EXCEPT ![mem[p].cur] = attached]
    BY <2>1, <2>2 DEF Typed, StoreTyped
  <2>4. /\ attached \in TreeType /\ attached.dir = t.dir /\ attached.listed
        /\ part \in TreeType /\ part.dir = t.dir /\ part.listed
    BY <2>2 DEF TreeType, AllContents
  <2>5. attached # NoTree
    BY <2>4 DEF NoTree
  <2>6. \/ UNCHANGED tree
        \/ t.content = "clean" /\ tree' = [tree EXCEPT ![mem[p].cur] = attached]
        \/ t.content = "clean" /\ tree' = [tree EXCEPT ![mem[p].cur] = part] /\ pc'[p] = "fail"
        \/ t.content = "clean" /\ tree' = [tree EXCEPT ![mem[p].cur] = NoTree] /\ pc'[p] = "fail"
    BY <1>2, <1>8, <2>3 DEF AttachWorktree
  <2>7. UNCHANGED <<original, container>> /\ pc[p] = "attach"
    BY <1>8 DEF AttachWorktree
  <2>. HIDE DEF attached, part
  <2>. QED BY <2>4, <2>5, <2>6, <2>7, NoTreeType DEF FilesStay, Attaches
<1>9. CASE RemoveAddition(p)
  BY <1>3, <1>9 DEF RemoveAddition, FilesStay, Drops, MayRemove
<1>10. CASE DetachWorktree(p)
  <2>1. mem[p].cur \in New
    BY <1>10, Subject DEF DetachWorktree, Typed
  <2>. QED BY <1>10, <2>1 DEF DetachWorktree, FilesStay, Drops, Removable
<1>11. CASE \/ Locate(p) \/ Admit(p) \/ LoadSource(p) \/ Prepare(p) \/ OriginAvailable(p)
            \/ RecordPlan(p) \/ PrepareFails(p) \/ RecordMove(p) \/ RecordContainer(p)
  BY <1>11 DEF Locate, Admit, LoadSource, Prepare, OriginAvailable, RecordPlan, PrepareFails,
     RecordMove, RecordContainer, FilesStay
<1>12. CASE \/ IntendAddition(p) \/ RecordDirectory(p) \/ CreateNotes(p)
            \/ FinalObservations(p) \/ Finish(p) \/ ApplyFails(p) \/ FailExecution(p)
  BY <1>12 DEF IntendAddition, RecordDirectory, CreateNotes, FinalObservations, Finish,
     ApplyFails, FailExecution, FilesStay
<1>13. CASE \/ Compensate(p) \/ RestoreOriginal(p) \/ RecordRestoration(p) \/ Resolve(p)
            \/ UndoFails(p) \/ Retain(p) \/ Decide(p) \/ Republish(p)
  BY <1>13 DEF Compensate, RestoreOriginal, RecordRestoration, Resolve, UndoFails, Retain,
     Decide, Republish, FilesStay
<1>. QED
  BY <1>4, <1>5, <1>6, <1>7, <1>8, <1>9, <1>10, <1>11, <1>12, <1>13 DEF Work

\* Rows stay, or an operation ends and they change as the label says.
RowsStay == UNCHANGED <<rows, rowId, place>>

Publishes(p) ==
    /\ pc[p] \in {"finish", "republish"} /\ CanPublish(p) /\ Publish(p)
    /\ FilesStay /\ Closes(p)

Resolves(p) ==
    /\ pc[p] = "resolve"
    /\ rows' = [r \in New |-> IF r \in Failed(p) THEN "none" ELSE rows[r]]
    /\ rowId' = [r \in New |-> IF r \in Failed(p) THEN None ELSE rowId[r]]
    /\ UNCHANGED place /\ FilesStay /\ Closes(p)

Retains(p) ==
    /\ pc[p] = "retain" /\ \A r \in Remaining(p) : CanRetain(p, r)
    /\ rows' = [r \in New |-> IF r \in Remaining(p) THEN "failed" ELSE rows[r]]
    /\ rowId' = [r \in New |-> IF r \in Remaining(p) THEN Source(p) ELSE rowId[r]]
    /\ UNCHANGED place /\ FilesStay /\ Closes(p)

RowEffect(p) ==
    /\ RowsStay \/ Publishes(p) \/ Resolves(p) \/ Retains(p)
    /\ Closes(p) /\ pc[p] \in {"finish", "republish"} => Publishes(p)
    /\ Closes(p) /\ pc[p] = "resolve" => Resolves(p)
    /\ Closes(p) /\ pc[p] = "retain" => Retains(p)

\* Every step of a process does one of these to the rows.
LEMMA WorkRows ==
    ASSUME NEW p \in Processes, Typed, Held, Work(p)
    PROVE  RowEffect(p)
<1>0. /\ \A l, m : Step(p, l, m) => pc'[p] = l /\ mem'[p] = m
      /\ \A l : GiveUp(p, l) => pc'[p] = l /\ mem'[p].op = mem[p].op
      /\ End(p) => pc'[p] = "idle" /\ mem'[p].op = None
      /\ \A b : Continue(p, b) => mem'[p].op = None
  BY StepEnds DEF Typed
<1>1. Closes(p) => lease # NoLease /\ lease' = NoLease
  BY Writer DEF Closes, Close, Holds
<1>2. CASE Finish(p)
  <2>1. ASSUME CanPublish(p) PROVE Publishes(p)
    <3>1. Closes(p)
      BY <1>0, <1>2, <2>1 DEF Finish, Publish, Closes
    <3>. QED BY <1>2, <2>1, <3>1 DEF Finish, Publishes, FilesStay, files
  <2>2. ASSUME ~CanPublish(p) PROVE RowsStay /\ ~Closes(p)
    BY <1>1, <1>2, <2>2 DEF Finish, RowsStay, membership
  <2>3. pc[p] = "finish"
    BY <1>2 DEF Finish
  <2>. QED BY <2>1, <2>2, <2>3 DEF RowEffect
<1>3. CASE Republish(p)
  <2>1. ASSUME CanPublish(p) PROVE Publishes(p)
    <3>1. Closes(p)
      BY <1>0, <1>3, <2>1 DEF Republish, Publish, Closes
    <3>. QED BY <1>3, <2>1, <3>1 DEF Republish, Publishes, FilesStay
  <2>2. ASSUME ~CanPublish(p) PROVE RowsStay /\ ~Closes(p)
    BY <1>1, <1>3, <2>2 DEF Republish, RowsStay, membership
  <2>3. pc[p] = "republish"
    BY <1>3 DEF Republish
  <2>. QED BY <2>1, <2>2, <2>3 DEF RowEffect
<1>4. CASE Resolve(p)
  <2>1. Closes(p) /\ pc[p] = "resolve"
    BY <1>0, <1>4 DEF Resolve, Closes
  <2>. QED BY <1>4, <2>1 DEF Resolve, RowEffect, Resolves, FilesStay, files
<1>5. CASE Retain(p)
  <2>1. ASSUME \A r \in Remaining(p) : CanRetain(p, r) PROVE Retains(p)
    <3>1. Closes(p)
      BY <1>0, <1>5, <2>1 DEF Retain, Closes
    <3>. QED BY <1>5, <2>1, <3>1 DEF Retain, Retains, FilesStay, files
  <2>2. ASSUME ~\A r \in Remaining(p) : CanRetain(p, r) PROVE RowsStay /\ ~Closes(p)
    BY <1>1, <1>5, <2>2 DEF Retain, RowsStay
  <2>3. pc[p] = "retain"
    BY <1>5 DEF Retain
  <2>. QED BY <2>1, <2>2, <2>3 DEF RowEffect
<1>6. ASSUME \/ Locate(p) \/ Admit(p) \/ LoadSource(p) \/ Prepare(p) \/ OriginAvailable(p)
             \/ RecordPlan(p) \/ PrepareFails(p) \/ MoveOriginal(p) \/ RecordMove(p)
             \/ CreateContainer(p)
      PROVE  RowsStay /\ pc[p] \notin {"finish", "republish", "resolve", "retain"}
  BY <1>6 DEF Locate, Admit, LoadSource, Prepare, OriginAvailable, RecordPlan, PrepareFails,
     MoveOriginal, RecordMove, CreateContainer, RowsStay, membership, store
<1>7. ASSUME \/ RecordContainer(p) \/ IntendAddition(p) \/ CreateDirectory(p)
             \/ RecordDirectory(p) \/ AttachWorktree(p) \/ CreateNotes(p)
             \/ FinalObservations(p) \/ FailExecution(p) \/ Compensate(p) \/ Decide(p)
      PROVE  RowsStay /\ pc[p] \notin {"finish", "republish", "resolve", "retain"}
  BY <1>7 DEF RecordContainer, IntendAddition, CreateDirectory, RecordDirectory,
     AttachWorktree, CreateNotes, FinalObservations, FailExecution, Compensate, Decide,
     RowsStay, membership, store
<1>8. ASSUME \/ RemoveAddition(p) \/ DetachWorktree(p) \/ RestoreOriginal(p)
             \/ RemoveContainer(p) \/ RecordRestoration(p)
      PROVE  RowsStay /\ pc[p] \notin {"finish", "republish", "resolve", "retain"}
  BY <1>8 DEF RemoveAddition, DetachWorktree, RestoreOriginal, RemoveContainer,
     RecordRestoration, RowsStay, membership, store
<1>9. ASSUME ApplyFails(p) \/ UndoFails(p) PROVE RowsStay /\ ~Closes(p)
  <2>1. UNCHANGED lease /\ RowsStay
    BY <1>9 DEF ApplyFails, UndoFails, store, RowsStay
  <2>. QED BY <1>1, <2>1
<1>. QED
  BY <1>2, <1>3, <1>4, <1>5, <1>6, <1>7, <1>8, <1>9 DEF Work, RowEffect

\* While a process has a lease, the others neither write nor touch the files.
LEMMA Others ==
    ASSUME NEW p \in Processes, NEW q \in Processes, q # p, Typed, Held, Work(p)
    PROVE  /\ pc'[q] = pc[q] /\ mem'[q] = mem[q]
           /\ mem[q].op # None => journal'[mem[q].op] = journal[mem[q].op]
           /\ Holds(q) => FilesStay /\ RowsStay /\ UNCHANGED <<journal, lease, unresolved>>
<1>1. Effect(p)
  BY WorkEffect, NextTyped
<1>2. pc'[q] = pc[q] /\ mem'[q] = mem[q]
  BY WorkMoves, NextTyped, Frame DEF Typed
<1>3. mem[q].op # None => journal'[mem[q].op] = journal[mem[q].op]
  <2>1. SUFFICES ASSUME mem[q].op # None PROVE journal'[mem[q].op] = journal[mem[q].op]
    OBVIOUS
  <2>2. mem[q].op \in Operations
    BY <2>1 DEF Typed, Control, MemoryType
  <2>3. Holds(q) \/ Finished(q)
    BY <2>1 DEF Held
  <2>4. CASE Writes(p) \/ Plans(p) \/ Closes(p)
    <3>1. mem[q].op # Op(p)
      BY <2>3, <2>4, Writer DEF Holds, Finished, Op
    <3>. QED BY <1>1, <2>2, <2>4, <3>1, Entry, Writer DEF Admits, Holds
  <2>5. CASE Admits(p)
    <3>1. mem[q].op # NextOperation
      <4>1. journal[NextOperation].st = "none"
        BY <2>5, NextOperationIs DEF Admits, Used
      <4>2. journal[mem[q].op].st # "none"
        BY <2>2, <2>3 DEF Held, Holds, Finished, Op
      <4>. QED BY <4>1, <4>2
    <3>. QED BY <2>2, <2>5, <3>1 DEF Admits, Typed, StoreTyped
  <2>. QED BY <1>1, <2>4, <2>5 DEF Effect, Quiet
<1>4. ASSUME Holds(q)
      PROVE  FilesStay /\ RowsStay /\ UNCHANGED <<journal, lease, unresolved>>
  <2>1. mem[p].op = None \/ pc[p] = "fail"
    BY <1>4 DEF Held, Holds, Finished
  <2>2. pc[p] \in {"idle", "locate", "admit", "fail"}
    BY <2>1 DEF Typed, Control, LocalOK
  <2>3. FilesStay
    BY <2>2, WorkFiles DEF FileEffect, Relocates, Boxes, Unboxes, Makes, Attaches, Drops
  <2>4. RowsStay
    BY <2>2, WorkRows DEF RowEffect, Publishes, Resolves, Retains
  <2>5. Quiet(p)
    BY <1>1, <1>4, <2>2 DEF Effect, Admits, Writes, Plans, Closes, Holds
  <2>. QED BY <2>3, <2>4, <2>5 DEF Quiet
<1>. QED BY <1>2, <1>3, <1>4

\* A process that works on an operation, and may still change something, has
\* its lease.
LEMMA Holder ==
    ASSUME NEW p \in Processes, Typed, Held, pc[p] \notin {"idle", "locate", "admit", "fail"}
    PROVE  /\ Holds(p) /\ Op(p) \in Operations /\ lease.op = Op(p)
           /\ journal[Op(p)] \in JournalType /\ Used(Op(p)) /\ journal[Op(p)].st = "running"
<1>1. Op(p) \in Operations /\ Op(p) # None
  BY Subject, NoneIsNothing DEF Typed
<1>2. Holds(p)
  BY <1>1 DEF Held, Finished, Op
<1>. QED BY <1>1, <1>2, JournalEntry DEF Held, Holds, Op, Used, Typed

\* There is one lease.
LEMMA OneHolder ==
    ASSUME NEW p \in Processes, NEW q \in Processes, Holds(p), Holds(q)
    PROVE  p = q
  BY DEF Holds

\* What users, other commands and time do.
EnvironmentEffect ==
    /\ UNCHANGED <<rows, rowId, place, journal, unresolved, pc, mem>>
    /\ UNCHANGED lease \/ (/\ lease # NoLease /\ lease' # NoLease /\ lease'.op = lease.op
                           /\ ~lease'.live /\ \A p \in Processes : ~Holds(p))
    /\ \/ FilesStay
       \/ /\ UNCHANGED original
          /\ UNCHANGED container \/ (original.at = "staging" /\ container = None /\ container' = 0)
          /\ \A r \in New :
               /\ tree'[r].listed = tree[r].listed
               /\ \/ tree'[r].dir = tree[r].dir
                  \/ tree[r].dir = None /\ tree'[r].dir = 0
       \/ /\ unresolved # None /\ lease = NoLease
          /\ original' = original \/ /\ original'.at = original.at
                                     /\ original'.listed = original.at
          /\ UNCHANGED container \/ (original.at = "staging" /\ container' = None)
          /\ \A r \in New : tree'[r] = tree[r] \/ (r \notin Members /\ tree'[r] = NoTree)

\* Every such step does this and no more.
LEMMA EnvironmentDoes ==
    ASSUME Typed, Environment
    PROVE  EnvironmentEffect
<1>1. UNCHANGED <<rows, rowId, place, journal, unresolved, pc, mem>>
  BY DEF Environment, Expire, Release, Reclaim, Edit, Repair, RemoveOrigin, store, control,
     membership, files
<1>2. UNCHANGED lease \/ (/\ lease # NoLease /\ lease' # NoLease /\ lease'.op = lease.op
                          /\ ~lease'.live /\ \A p \in Processes : ~Holds(p))
  <2>1. CASE UNCHANGED lease
    BY <2>1
  <2>2. CASE /\ lease # NoLease /\ lease.live /\ mem[lease.by].op # lease.op
             /\ lease' = [op |-> lease.op, by |-> lease.by, live |-> FALSE]
    <3>1. lease'.op = lease.op /\ ~lease'.live
      BY <2>2
    <3>2. lease.op # None
      BY <2>2, LeaseOperation, NoneIsNothing
    <3>3. lease' # NoLease
      <4>1. NoLease.op = None
        BY DEF NoLease
      <4>. QED BY <3>1, <3>2, <4>1
    <3>4. \A p \in Processes : ~Holds(p)
      BY <2>2 DEF Holds
    <3>. QED BY <2>2, <3>1, <3>3, <3>4
  <2>. QED BY <2>1, <2>2, EnvironmentLease
<1>3. CASE Expire \/ Release \/ Reclaim \/ \E r \in New : RemoveOrigin(r)
  <2>1. FilesStay
    BY <1>3 DEF Expire, Release, Reclaim, RemoveOrigin, FilesStay, files
  <2>. QED BY <1>1, <1>2, <2>1 DEF EnvironmentEffect
<1>4. CASE Edit
  <2>1. UNCHANGED original
    BY <1>4 DEF Edit
  <2>2. UNCHANGED container \/ (original.at = "staging" /\ container = None /\ container' = 0)
    BY <1>4 DEF Edit
  <2>3. ASSUME NEW r \in New
        PROVE  /\ tree'[r].listed = tree[r].listed
               /\ tree'[r].dir = tree[r].dir \/ (tree[r].dir = None /\ tree'[r].dir = 0)
    <3>1. tree \in [New -> TreeType]
      BY DEF Typed, StoreTyped
    <3>2. CASE UNCHANGED tree
      BY <3>2
    <3>3. CASE \E s \in New, c \in Contents : tree' = [tree EXCEPT ![s].content = c]
      BY <3>1, <3>3 DEF TreeType
    <3>4. CASE \E s \in New : /\ tree[s] = NoTree
                              /\ tree' = [tree EXCEPT ![s].dir = 0, ![s].content = "dirty"]
      BY <3>1, <3>4 DEF TreeType, NoTree
    <3>. QED BY <1>4, <3>2, <3>3, <3>4 DEF Edit
  <2>. QED BY <1>1, <1>2, <2>1, <2>2, <2>3 DEF EnvironmentEffect
<1>5. CASE Repair
  <2>1. unresolved # None /\ lease = NoLease
    BY <1>5 DEF Repair
  <2>2. original' = original \/ (original'.at = original.at /\ original'.listed = original.at)
    BY <1>5 DEF Repair, Typed, StoreTyped
  <2>3. UNCHANGED container \/ (original.at = "staging" /\ container' = None)
    BY <1>5 DEF Repair
  <2>4. \A r \in New : tree'[r] = tree[r] \/ (r \notin Members /\ tree'[r] = NoTree)
    <3>1. tree \in [New -> TreeType]
      BY DEF Typed, StoreTyped
    <3>. QED BY <1>5, <3>1 DEF Repair
  <2>. QED BY <1>1, <1>2, <2>1, <2>2, <2>3, <2>4 DEF EnvironmentEffect
<1>. QED BY <1>3, <1>4, <1>5 DEF Environment

\* A command that starts or a process that dies changes no files and no rows.
LEMMA OutsideStay ==
    ASSUME NEW p \in Processes, Typed, Held, Start(p) \/ Crash(p)
    PROVE  /\ FilesStay /\ RowsStay /\ UNCHANGED <<journal, unresolved>>
           /\ \A q \in Processes : q # p => pc'[q] = pc[q] /\ mem'[q] = mem[q]
           /\ pc'[p] \in {"idle", "locate", "decide"}
           /\ mem'[p].source = None
           /\ lease = NoLease <=> lease' = NoLease
           /\ lease # NoLease => lease'.op = lease.op
<1>1. FilesStay /\ RowsStay
  BY DEF Start, Crash, FilesStay, RowsStay, store, files, membership
<1>2. \A q \in Processes : q # p => pc'[q] = pc[q] /\ mem'[q] = mem[q]
  BY StartMoves, CrashMoves, Frame DEF Typed
<1>3. CASE Start(p)
  BY <1>1, <1>2, <1>3, StartEffect
<1>4. CASE Crash(p)
  BY <1>1, <1>2, <1>4, CrashEffect
<1>. QED BY <1>3, <1>4

-----------------------------------------------------------------------------
(* What the journal says of an operation that a process is about: one that is *)
(* planned has no plan, one that is executed undoes nothing and is not being  *)
(* undone, and what is at hand belongs to its plan.                           *)

CourseAt(l, m, j) ==
    /\ l \in Planning => j.of = None /\ ~j.planned /\ ~j.rollback
    /\ l = "source" => j.of = m.source /\ ~j.planned
    /\ Adds(l, m) => j.planned /\ j.of = None /\ ~j.rollback /\ j.plan.claim = m.asked
    /\ l = "republish" => j.planned /\ j.of = None /\ ~j.rollback
    /\ Undoes(l, m) => j.planned
    /\ Undoes(l, m) /\ l \notin {"compensate", "retain"} => j.rollback
    /\ l \in Moving \cup {"box", "boxed", "unbox"} => j.plan.moves
    /\ Adds(l, m) \/ l \in {"remove", "detach"} => m.todo \subseteq j.plan.adds
    /\ m.cur # None => m.cur \in j.plan.adds

\* Where a process is without a course.
LEMMA CourseIdle ==
    ASSUME NEW l \in {"idle", "locate", "admit", "decide"}, NEW m, LocalOK(l, m), NEW j
    PROVE  CourseAt(l, m, j)
  BY DEF LocalOK, CourseAt, Planning, Adds, Adding, Undoes, Undoing, Moving

\* A course depends on four fields of a journal.
LEMMA CourseSame ==
    ASSUME NEW l, NEW m, NEW j, NEW k, CourseAt(l, m, j),
           k.of = j.of, k.planned = j.planned, k.plan = j.plan, k.rollback = j.rollback
    PROVE  CourseAt(l, m, k)
  BY DEF CourseAt

\* The steps that only go on.
LEMMA OnwardCourse ==
    ASSUME NEW m, NEW j
    PROVE  /\ CourseAt("move", m, j) => CourseAt("moved", m, j)
           /\ CourseAt("mkdir", m, j) => CourseAt("identity", m, j)
           /\ CourseAt("identity", m, j) => CourseAt("attach", m, j)
           /\ CourseAt("additions", m, j) => CourseAt("observe", m, j)
           /\ CourseAt("observe", m, j) => CourseAt("finish", m, j)
           /\ CourseAt("fail", m, j) => CourseAt("compensate", m, j)
           /\ CourseAt("box", m, j) => CourseAt("boxed", m, j)
           /\ CourseAt("remove", m, j) => CourseAt("restored", m, j)
           /\ CourseAt("remove", m, j) /\ j.plan.moves => CourseAt("unbox", m, j)
           /\ CourseAt("restored", m, j) => CourseAt("resolve", m, j)
           /\ CourseAt("restored", m, j) => CourseAt("retain", m, j)
<1>. USE DEF CourseAt, Planning, Adds, Adding, Undoes, Undoing, Moving
<1>1. /\ CourseAt("move", m, j) => CourseAt("moved", m, j)
      /\ CourseAt("mkdir", m, j) => CourseAt("identity", m, j)
      /\ CourseAt("identity", m, j) => CourseAt("attach", m, j)
      /\ CourseAt("additions", m, j) => CourseAt("observe", m, j)
      /\ CourseAt("observe", m, j) => CourseAt("finish", m, j)
  OBVIOUS
<1>2. /\ CourseAt("fail", m, j) => CourseAt("compensate", m, j)
      /\ CourseAt("box", m, j) => CourseAt("boxed", m, j)
      /\ CourseAt("remove", m, j) => CourseAt("restored", m, j)
      /\ CourseAt("remove", m, j) /\ j.plan.moves => CourseAt("unbox", m, j)
      /\ CourseAt("restored", m, j) => CourseAt("resolve", m, j)
      /\ CourseAt("restored", m, j) => CourseAt("retain", m, j)
  OBVIOUS
<1>. QED BY <1>1, <1>2

\* A move goes on to the label of its leg.
LEMMA LegCourse ==
    ASSUME NEW m, NEW j, CourseAt("moved", m, j), m.leg \in {"out", "in", "home", "back"}
    PROVE  CourseAt(Legs[m.leg].then, m, j)
<1>1. CASE m.leg \in {"out", "in"}
  BY <1>1 DEF CourseAt, Planning, Adds, Adding, Undoes, Undoing, Moving, Legs
<1>2. CASE m.leg \in {"home", "back"}
  BY <1>2 DEF CourseAt, Planning, Adds, Adding, Undoes, Undoing, Moving, Legs
<1>. QED BY <1>1, <1>2

\* A process that gives up has nothing at hand.
LEMMA GiveUpCourse ==
    ASSUME NEW m \in MemoryType, NEW j, NEW l, CourseAt(l, m, j),
           NEW k \in {"fail", "retain"},
           k = "fail" => Adds(l, m), k = "retain" => Undoes(l, m)
    PROVE  CourseAt(k, [m EXCEPT !.todo = {}, !.cur = None, !.leg = "none"], j)
<1>. DEFINE n == [m EXCEPT !.todo = {}, !.cur = None, !.leg = "none"]
<1>1. n.todo = {} /\ n.cur = None /\ n.asked = m.asked
  BY DEF MemoryType
<1>. HIDE DEF n
<1>. QED BY <1>1 DEF CourseAt, Planning, Adds, Adding, Undoes, Undoing, Moving

CourseThen(p) == CourseAt(pc'[p], mem'[p], journal'[mem'[p].op])

\* A step that is given up.
LEMMA CourseGivenUp ==
    ASSUME NEW p \in Processes, Typed, NEW l, CourseAt(l, mem[p], journal[mem[p].op]),
           NEW k, GiveUp(p, k), UNCHANGED journal,
           (k = "fail" /\ Adds(l, mem[p])) \/ (k = "retain" /\ Undoes(l, mem[p]))
    PROVE  CourseThen(p)
<1>. DEFINE n == [mem[p] EXCEPT !.todo = {}, !.cur = None, !.leg = "none"]
<1>1. mem[p] \in MemoryType
  BY DEF Typed, Control
<1>2. CourseAt(k, n, journal[mem[p].op])
  BY <1>1, GiveUpCourse
<1>3. n.op = mem[p].op
  BY <1>1 DEF MemoryType
<1>4. pc'[p] = k /\ mem'[p] = n
  BY StepIs DEF Typed, GiveUp
<1>. QED BY <1>2, <1>3, <1>4 DEF CourseThen

\* What a step of a process leaves of the journal of its operation.
LEMMA OwnEntry ==
    ASSUME NEW p \in Processes, Typed, Held, Writes(p) \/ Closes(p)
    PROVE  /\ journal'[Op(p)].of = journal[Op(p)].of
           /\ journal'[Op(p)].planned = journal[Op(p)].planned
           /\ journal'[Op(p)].plan = journal[Op(p)].plan
           /\ journal[Op(p)].intended \subseteq journal'[Op(p)].intended
           /\ pc[p] # "compensate" => journal'[Op(p)].rollback = journal[Op(p)].rollback
<1>1. journal \in [Operations -> JournalType] /\ Op(p) \in Operations
  BY Writer DEF Typed, StoreTyped
<1>2. CASE Writes(p)
  BY <1>1, <1>2 DEF Writes, Record, Extends
<1>3. CASE Closes(p)
  <2>1. PICK st : Record(p, [journal[Op(p)] EXCEPT !.st = st])
    BY <1>3 DEF Closes, Close
  <2>. DEFINE e == [journal[Op(p)] EXCEPT !.st = st]
  <2>2. /\ e.of = journal[Op(p)].of /\ e.planned = journal[Op(p)].planned
        /\ e.plan = journal[Op(p)].plan /\ e.intended = journal[Op(p)].intended
        /\ e.rollback = journal[Op(p)].rollback
    BY <1>1 DEF JournalType
  <2>3. Record(p, e)
    BY <2>1
  <2>. HIDE DEF e
  <2>. QED BY <1>1, <2>2, <2>3 DEF Record
<1>. QED BY <1>2, <1>3

\* The fields that a course depends on change in four steps only.
LEMMA Kept ==
    ASSUME NEW p \in Processes, Typed, Held, Work(p),
           pc[p] \notin {"admit", "source", "origins", "compensate"}
    PROVE  /\ journal'[Op(p)].of = journal[Op(p)].of
           /\ journal'[Op(p)].planned = journal[Op(p)].planned
           /\ journal'[Op(p)].plan = journal[Op(p)].plan
           /\ journal'[Op(p)].rollback = journal[Op(p)].rollback
<1>1. Quiet(p) \/ Writes(p) \/ Closes(p)
  BY WorkEffect, NextTyped DEF Effect, Admits, Plans
<1>. QED BY <1>1, OwnEntry DEF Quiet

\* A step to a memory of the same operation.
LEMMA CourseGoesOn ==
    ASSUME NEW p \in Processes, Typed, Held, Work(p),
           pc[p] \notin {"admit", "source", "origins", "compensate"},
           NEW l, NEW m, Step(p, l, m), m.op = mem[p].op,
           CourseAt(l, m, journal[Op(p)])
    PROVE  CourseThen(p)
<1>1. pc'[p] = l /\ mem'[p] = m
  BY StepIs DEF Typed
<1>2. CourseAt(l, m, journal'[Op(p)])
  BY Kept, CourseSame
<1>. QED BY <1>1, <1>2 DEF CourseThen, Op

\* The course of the steps that add.
LEMMA CourseAdding ==
    ASSUME NEW p \in Processes, Typed, Held, Work(p), CourseAt(pc[p], mem[p], journal[Op(p)]),
           \/ MoveOriginal(p) \/ RecordMove(p) \/ CreateContainer(p) \/ RecordContainer(p)
           \/ IntendAddition(p) \/ CreateDirectory(p) \/ RecordDirectory(p)
           \/ AttachWorktree(p) \/ CreateNotes(p) \/ FinalObservations(p) \/ ApplyFails(p)
    PROVE  CourseThen(p)
<1>1. mem[p] \in MemoryType
  BY DEF Typed, Control
<1>2. ASSUME NEW k, GiveUp(p, k), UNCHANGED journal,
             (k = "fail" /\ Adds(pc[p], mem[p])) \/ (k = "retain" /\ Undoes(pc[p], mem[p]))
      PROVE  CourseThen(p)
  BY <1>2, CourseGivenUp DEF Op
<1>3. CASE MoveOriginal(p)
  <2>1. pc[p] = "move" /\ mem[p].leg \in {"out", "in", "home", "back"}
    BY <1>3, Subject DEF MoveOriginal, Moving, Typed
  <2>2. CASE Step(p, "moved", mem[p])
    BY <1>3, <2>1, <2>2, OnwardCourse, CourseGoesOn
  <2>3. CASE GiveUp(p, OnFailure(p))
    <3>1. UNCHANGED journal
      BY <1>3 DEF MoveOriginal, store
    <3>. QED BY <1>2, <2>1, <2>3, <3>1 DEF OnFailure, Adds, Undoes, Moving
  <2>. QED BY <1>3, <2>2, <2>3 DEF MoveOriginal
<1>4. CASE RecordMove(p)
  <2>1. pc[p] = "moved" /\ mem[p].leg \in {"out", "in", "home", "back"}
    BY <1>4, Subject DEF RecordMove, Moving, Typed
  <2>2. CourseAt(Leg(p).then, mem[p], journal[Op(p)])
    BY <2>1, LegCourse DEF Leg
  <2>. QED BY <1>4, <2>1, <2>2, CourseGoesOn DEF RecordMove
<1>5. CASE CreateContainer(p)
  <2>1. pc[p] = "box"
    BY <1>5 DEF CreateContainer
  <2>2. CASE Step(p, "boxed", mem[p])
    BY <2>1, <2>2, OnwardCourse, CourseGoesOn
  <2>3. CASE GiveUp(p, "fail")
    <3>1. UNCHANGED journal
      BY <1>5 DEF CreateContainer, store
    <3>. QED BY <1>2, <2>1, <2>3, <3>1 DEF Adds, Adding
  <2>. QED BY <1>5, <2>2, <2>3 DEF CreateContainer
<1>6. CASE RecordContainer(p)
  <2>. DEFINE m == [mem[p] EXCEPT !.leg = "in"]
  <2>1. pc[p] = "boxed" /\ Step(p, "move", m)
    BY <1>6 DEF RecordContainer
  <2>2. /\ m.op = mem[p].op /\ m.leg = "in" /\ m.cur = mem[p].cur
        /\ m.todo = mem[p].todo /\ m.asked = mem[p].asked
    BY <1>1 DEF MemoryType
  <2>. HIDE DEF m
  <2>3. CourseAt("move", m, journal[Op(p)])
    BY <2>1, <2>2 DEF CourseAt, Planning, Adds, Adding, Undoes, Undoing, Moving
  <2>. QED BY <2>1, <2>2, <2>3, CourseGoesOn
<1>7. CASE IntendAddition(p)
  <2>1. pc[p] = "additions"
    BY <1>7 DEF IntendAddition
  <2>2. CASE \E r \in mem[p].todo : Step(p, "mkdir", [mem[p] EXCEPT !.cur = r, !.todo = @ \ {r}])
    <3>1. PICK r \in mem[p].todo : Step(p, "mkdir", [mem[p] EXCEPT !.cur = r, !.todo = @ \ {r}])
      BY <2>2
    <3>. DEFINE m == [mem[p] EXCEPT !.cur = r, !.todo = @ \ {r}]
    <3>2. /\ m.op = mem[p].op /\ m.leg = mem[p].leg /\ m.cur = r
          /\ m.todo = mem[p].todo \ {r} /\ m.asked = mem[p].asked
      BY <1>1 DEF MemoryType
    <3>3. Step(p, "mkdir", m)
      BY <3>1
    <3>. HIDE DEF m
    <3>4. CourseAt("mkdir", m, journal[Op(p)])
      BY <2>1, <3>1, <3>2 DEF CourseAt, Planning, Adds, Adding, Undoes, Undoing, Moving
    <3>. QED BY <2>1, <3>2, <3>3, <3>4, CourseGoesOn
  <2>3. CASE GiveUp(p, "fail") /\ UNCHANGED journal
    BY <1>2, <2>1, <2>3 DEF Adds, Adding
  <2>. QED BY <1>7, <2>2, <2>3 DEF IntendAddition
<1>8. CASE CreateDirectory(p)
  <2>1. pc[p] = "mkdir"
    BY <1>8 DEF CreateDirectory
  <2>2. CASE Step(p, "identity", mem[p])
    BY <2>1, <2>2, OnwardCourse, CourseGoesOn
  <2>3. CASE GiveUp(p, "fail")
    <3>1. UNCHANGED journal
      BY <1>8 DEF CreateDirectory, store
    <3>. QED BY <1>2, <2>1, <2>3, <3>1 DEF Adds, Adding
  <2>. QED BY <1>8, <2>2, <2>3 DEF CreateDirectory
<1>9. CASE RecordDirectory(p)
  BY <1>9, OnwardCourse, CourseGoesOn DEF RecordDirectory
<1>10. CASE AttachWorktree(p)
  <2>. DEFINE m == [mem[p] EXCEPT !.cur = None]
  <2>1. pc[p] = "attach"
    BY <1>10 DEF AttachWorktree
  <2>2. CASE Step(p, "additions", m)
    <3>1. /\ m.op = mem[p].op /\ m.leg = mem[p].leg /\ m.cur = None
          /\ m.todo = mem[p].todo /\ m.asked = mem[p].asked
      BY <1>1 DEF MemoryType
    <3>. HIDE DEF m
    <3>2. CourseAt("additions", m, journal[Op(p)])
      BY <2>1, <3>1 DEF CourseAt, Planning, Adds, Adding, Undoes, Undoing, Moving
    <3>. QED BY <2>1, <2>2, <3>1, <3>2, CourseGoesOn
  <2>3. CASE GiveUp(p, "fail")
    <3>1. UNCHANGED journal
      BY <1>10 DEF AttachWorktree, store
    <3>. QED BY <1>2, <2>1, <2>3, <3>1 DEF Adds, Adding
  <2>. QED BY <1>10, <2>2, <2>3 DEF AttachWorktree
<1>11. CASE CreateNotes(p)
  BY <1>11, OnwardCourse, CourseGoesOn DEF CreateNotes
<1>12. CASE FinalObservations(p)
  <2>1. pc[p] = "observe" /\ UNCHANGED journal
    BY <1>12 DEF FinalObservations, store
  <2>2. CASE Step(p, "finish", mem[p])
    BY <2>1, <2>2, OnwardCourse, CourseGoesOn
  <2>3. CASE GiveUp(p, "fail")
    BY <1>2, <2>1, <2>3 DEF Adds, Adding
  <2>. QED BY <1>12, <2>2, <2>3 DEF FinalObservations
<1>13. CASE ApplyFails(p)
  <2>1. UNCHANGED journal /\ GiveUp(p, "fail")
    BY <1>13 DEF ApplyFails, store
  <2>2. Adds(pc[p], mem[p])
    BY <1>13 DEF ApplyFails, OnFailure, Adds, Adding, Moving
  <2>. QED BY <1>2, <2>1, <2>2
<1>. QED
  BY <1>3, <1>4, <1>5, <1>6, <1>7, <1>8, <1>9, <1>10, <1>11, <1>12, <1>13

\* The course of the steps that undo.
LEMMA CourseUndoing ==
    ASSUME NEW p \in Processes, Typed, Held, Work(p), CourseAt(pc[p], mem[p], journal[Op(p)]),
           \/ FailExecution(p) \/ Compensate(p) \/ RemoveAddition(p) \/ DetachWorktree(p)
           \/ RestoreOriginal(p) \/ RemoveContainer(p) \/ RecordRestoration(p) \/ UndoFails(p)
    PROVE  CourseThen(p) \/ pc'[p] = "idle"
<1>1. mem[p] \in MemoryType
  BY DEF Typed, Control
<1>2. ASSUME NEW k, GiveUp(p, k), UNCHANGED journal,
             (k = "fail" /\ Adds(pc[p], mem[p])) \/ (k = "retain" /\ Undoes(pc[p], mem[p]))
      PROVE  CourseThen(p)
  BY <1>2, CourseGivenUp DEF Op
<1>3. CASE FailExecution(p)
  <2>1. End(p) => pc'[p] = "idle"
    BY StepEnds DEF Typed
  <2>. QED BY <1>3, <2>1, OnwardCourse, CourseGoesOn DEF FailExecution
<1>4. CASE Compensate(p)
  <2>1. pc[p] = "compensate" /\ Op(p) \in Operations
    BY <1>4, Subject DEF Compensate, Typed
  <2>. DEFINE m(b) == [mem[p] EXCEPT !.todo = Plan(p).adds, !.mutated = b]
              e == [journal[Op(p)] EXCEPT !.rollback = TRUE]
  <2>2. PICK b : Step(p, "remove", m(b))
    BY <1>4 DEF Compensate
  <2>3. /\ m(b).op = mem[p].op /\ m(b).leg = mem[p].leg /\ m(b).cur = mem[p].cur
        /\ m(b).todo = Plan(p).adds /\ m(b).asked = mem[p].asked
    BY <1>1 DEF MemoryType
  <2>4. /\ e.of = journal[Op(p)].of /\ e.planned = journal[Op(p)].planned
        /\ e.plan = journal[Op(p)].plan /\ e.rollback
    BY <2>1, JournalEntry DEF JournalType, Typed
  <2>5. journal'[Op(p)] = e
    BY <1>4, <2>1 DEF Compensate, Record, Typed, StoreTyped
  <2>6. pc'[p] = "remove" /\ mem'[p] = m(b)
    BY <2>2, StepIs DEF Typed
  <2>. HIDE DEF m, e
  <2>7. CourseAt("remove", m(b), e)
    BY <2>1, <2>3, <2>4
    DEF CourseAt, Planning, Adds, Adding, Undoes, Undoing, Moving, Plan
  <2>. QED BY <2>3, <2>5, <2>6, <2>7 DEF CourseThen, Op
<1>5. CASE RemoveAddition(p)
  <2>1. pc[p] = "remove" /\ UNCHANGED journal
    BY <1>5 DEF RemoveAddition, store
  <2>. DEFINE m(r) == [mem[p] EXCEPT !.todo = @ \ {r}]
              n(r) == [mem[p] EXCEPT !.todo = @ \ {r}, !.cur = r]
  <2>2. PICK r \in mem[p].todo :
          Step(p, "remove", m(r)) \/ Step(p, "detach", n(r)) \/ GiveUp(p, "retain")
    BY <1>5 DEF RemoveAddition
  <2>3. /\ m(r).op = mem[p].op /\ m(r).leg = mem[p].leg /\ m(r).cur = mem[p].cur
        /\ m(r).todo = mem[p].todo \ {r} /\ m(r).asked = mem[p].asked
        /\ n(r).op = mem[p].op /\ n(r).leg = mem[p].leg /\ n(r).cur = r
        /\ n(r).todo = mem[p].todo \ {r} /\ n(r).asked = mem[p].asked
    BY <1>1 DEF MemoryType
  <2>. HIDE DEF m, n
  <2>4. CourseAt("remove", m(r), journal[Op(p)])
    BY <2>1, <2>2, <2>3 DEF CourseAt, Planning, Adds, Adding, Undoes, Undoing, Moving
  <2>5. CourseAt("detach", n(r), journal[Op(p)])
    BY <2>1, <2>2, <2>3 DEF CourseAt, Planning, Adds, Adding, Undoes, Undoing, Moving
  <2>6. CASE GiveUp(p, "retain")
    BY <1>2, <2>1, <2>6 DEF Undoes, Undoing
  <2>. QED BY <2>1, <2>2, <2>3, <2>4, <2>5, <2>6, CourseGoesOn
<1>6. CASE DetachWorktree(p)
  <2>. DEFINE m == [mem[p] EXCEPT !.cur = None]
  <2>1. pc[p] = "detach" /\ UNCHANGED journal
    BY <1>6 DEF DetachWorktree, store
  <2>2. CASE Step(p, "remove", m)
    <3>1. /\ m.op = mem[p].op /\ m.leg = mem[p].leg /\ m.cur = None
          /\ m.todo = mem[p].todo /\ m.asked = mem[p].asked
      BY <1>1 DEF MemoryType
    <3>. HIDE DEF m
    <3>2. CourseAt("remove", m, journal[Op(p)])
      BY <2>1, <3>1 DEF CourseAt, Planning, Adds, Adding, Undoes, Undoing, Moving
    <3>. QED BY <2>1, <2>2, <3>1, <3>2, CourseGoesOn
  <2>3. CASE GiveUp(p, "retain")
    BY <1>2, <2>1, <2>3 DEF Undoes, Undoing
  <2>. QED BY <1>6, <2>2, <2>3 DEF DetachWorktree
<1>7. CASE RestoreOriginal(p)
  <2>. DEFINE m == [mem[p] EXCEPT !.leg = "home"]
  <2>1. pc[p] = "remove"
    BY <1>7 DEF RestoreOriginal
  <2>2. CASE Step(p, "restored", mem[p])
    BY <2>1, <2>2, OnwardCourse, CourseGoesOn
  <2>3. CASE Plan(p).moves /\ Step(p, "unbox", mem[p])
    BY <2>1, <2>3, OnwardCourse, CourseGoesOn DEF Plan
  <2>4. CASE Plan(p).moves /\ Step(p, "move", m)
    <3>1. /\ m.op = mem[p].op /\ m.leg = "home" /\ m.cur = mem[p].cur
          /\ m.todo = mem[p].todo /\ m.asked = mem[p].asked
      BY <1>1 DEF MemoryType
    <3>. HIDE DEF m
    <3>2. CourseAt("move", m, journal[Op(p)])
      BY <2>1, <2>4, <3>1 DEF CourseAt, Planning, Adds, Adding, Undoes, Undoing, Moving, Plan
    <3>. QED BY <2>1, <2>4, <3>1, <3>2, CourseGoesOn
  <2>. QED BY <1>7, <2>2, <2>3, <2>4 DEF RestoreOriginal
<1>8. CASE RemoveContainer(p)
  <2>. DEFINE m == [mem[p] EXCEPT !.leg = "back"]
  <2>1. pc[p] = "unbox" /\ UNCHANGED journal
    BY <1>8 DEF RemoveContainer, store
  <2>2. CASE Step(p, "move", m)
    <3>1. /\ m.op = mem[p].op /\ m.leg = "back" /\ m.cur = mem[p].cur
          /\ m.todo = mem[p].todo /\ m.asked = mem[p].asked
      BY <1>1 DEF MemoryType
    <3>. HIDE DEF m
    <3>2. CourseAt("move", m, journal[Op(p)])
      BY <2>1, <3>1 DEF CourseAt, Planning, Adds, Adding, Undoes, Undoing, Moving
    <3>. QED BY <2>1, <2>2, <3>1, <3>2, CourseGoesOn
  <2>3. CASE GiveUp(p, "retain")
    BY <1>2, <2>1, <2>3 DEF Undoes, Undoing
  <2>. QED BY <1>8, <2>2, <2>3 DEF RemoveContainer
<1>9. CASE RecordRestoration(p)
  <2>1. pc[p] = "restored" /\ (Step(p, "resolve", mem[p]) \/ Step(p, "retain", mem[p]))
    BY <1>9 DEF RecordRestoration
  <2>. QED BY <2>1, OnwardCourse, CourseGoesOn
<1>10. CASE UndoFails(p)
  <2>1. UNCHANGED journal /\ GiveUp(p, "retain")
    BY <1>10 DEF UndoFails, store
  <2>2. Undoes(pc[p], mem[p])
    <3>1. pc[p] = "moved" => mem[p].leg \in {"out", "in", "home", "back"}
      BY Subject DEF Typed, Moving
    <3>. QED BY <1>10, <3>1 DEF UndoFails, OnFailure, Undoes, Undoing, Moving
  <2>. QED BY <1>2, <2>1, <2>2
<1>. QED
  BY <1>3, <1>4, <1>5, <1>6, <1>7, <1>8, <1>9, <1>10

\* The course of the steps that select, admit and plan.
LEMMA CoursePlanning ==
    ASSUME NEW p \in Processes, Typed, Numbered, Held, Work(p),
           CourseAt(pc[p], mem[p], journal[Op(p)]),
           \/ Admit(p) \/ LoadSource(p) \/ Prepare(p) \/ OriginAvailable(p) \/ RecordPlan(p)
    PROVE  CourseThen(p) \/ pc'[p] = "idle"
<1>1. mem[p] \in MemoryType /\ journal \in [Operations -> JournalType]
  BY DEF Typed, Control, StoreTyped
<1>2. CASE Admit(p)
  <2>1. CASE End(p)
    BY <2>1, StepEnds DEF Typed
  <2>2. CASE ~End(p)
    <3>. DEFINE o == NextOperation
                l == IF mem[p].source = None THEN "prepare" ELSE "source"
                m == [mem[p] EXCEPT !.op = o,
                        !.mode = IF mem[p].source = None THEN "execute" ELSE "residual"]
    <3>1. /\ \E q \in Operations : journal[q].st = "none"
          /\ journal' = [journal EXCEPT ![o].st = "running", ![o].of = mem[p].source]
          /\ Step(p, l, m) /\ pc[p] = "admit"
      BY <1>2, <2>2 DEF Admit
    <3>2. o \in Operations /\ journal[o] = NoJournal
      BY <3>1, NextOperationIs DEF Numbered
    <3>3. /\ journal'[o].of = mem[p].source /\ ~journal'[o].planned
          /\ ~journal'[o].rollback
      BY <1>1, <3>1, <3>2 DEF NoJournal, JournalType
    <3>4. /\ m.op = o /\ m.source = mem[p].source /\ m.cur = mem[p].cur
      BY <1>1 DEF MemoryType
    <3>5. mem[p].cur = None
      BY <3>1 DEF Typed, Control, LocalOK
    <3>6. pc'[p] = l /\ mem'[p] = m
      BY <3>1, StepIs DEF Typed
    <3>. HIDE DEF m, o
    <3>. QED
      BY <3>3, <3>4, <3>5, <3>6
      DEF CourseThen, CourseAt, Planning, Adds, Adding, Undoes, Undoing, Moving
  <2>. QED BY <2>1, <2>2
<1>3. CASE LoadSource(p)
  <2>. DEFINE e == [journal[Op(p)] EXCEPT !.planned = TRUE, !.plan = journal[mem[p].source].plan]
  <2>1. pc[p] = "source" /\ Op(p) \in Operations /\ mem[p].cur = None
    BY <1>3, Subject DEF LoadSource, Typed, Control, LocalOK
  <2>2. journal'[Op(p)] = e /\ e.planned
    BY <1>1, <1>3, <2>1 DEF LoadSource, Record, JournalType
  <2>3. pc'[p] = "compensate" /\ mem'[p] = mem[p]
    BY <1>3, StepIs DEF LoadSource, Typed
  <2>. HIDE DEF e
  <2>. QED
    BY <2>1, <2>2, <2>3
    DEF CourseThen, CourseAt, Planning, Adds, Adding, Undoes, Undoing, Moving, Op
<1>4. CASE Prepare(p)
  <2>1. PICK todo : Step(p, "origins", [mem[p] EXCEPT !.todo = todo])
    BY <1>4 DEF Prepare
  <2>. DEFINE m == [mem[p] EXCEPT !.todo = todo]
  <2>2. m.op = mem[p].op /\ m.cur = mem[p].cur /\ pc[p] = "prepare"
    BY <1>1, <1>4 DEF MemoryType, Prepare
  <2>3. UNCHANGED journal /\ mem[p].cur = None
    BY <1>4, <2>2 DEF Prepare, store, Typed, Control, LocalOK
  <2>4. pc'[p] = "origins" /\ mem'[p] = m
    BY <2>1, StepIs DEF Typed
  <2>. HIDE DEF m
  <2>. QED
    BY <2>2, <2>3, <2>4
    DEF CourseThen, CourseAt, Planning, Adds, Adding, Undoes, Undoing, Moving, Op
<1>5. CASE OriginAvailable(p)
  <2>1. PICK r : Step(p, "origins", [mem[p] EXCEPT !.todo = @ \ {r}, !.plan.adds = @ \cup {r},
                                          !.plan.ids[r] = origins[r].id])
    BY <1>5 DEF OriginAvailable
  <2>. DEFINE m == [mem[p] EXCEPT !.todo = @ \ {r}, !.plan.adds = @ \cup {r},
                                  !.plan.ids[r] = origins[r].id]
  <2>2. m.op = mem[p].op /\ m.cur = mem[p].cur /\ pc[p] = "origins"
    BY <1>1, <1>5 DEF MemoryType, OriginAvailable
  <2>3. UNCHANGED journal /\ mem[p].cur = None
    BY <1>5, <2>2 DEF OriginAvailable, Typed, Control, LocalOK
  <2>4. pc'[p] = "origins" /\ mem'[p] = m
    BY <2>1, StepIs DEF Typed
  <2>. HIDE DEF m
  <2>. QED
    BY <2>2, <2>3, <2>4
    DEF CourseThen, CourseAt, Planning, Adds, Adding, Undoes, Undoing, Moving, Op
<1>6. CASE RecordPlan(p)
  <2>. DEFINE plan == [mem[p].plan EXCEPT !.claim = mem[p].asked,
                          !.moves = place = "root" /\ mem[p].plan.adds # {}]
              e == [journal[Op(p)] EXCEPT !.planned = TRUE, !.plan = plan]
              l == IF plan.moves THEN "move" ELSE "additions"
              m == [mem[p] EXCEPT !.leg = IF plan.moves THEN "out" ELSE "none",
                                  !.todo = mem[p].plan.adds, !.plan = NoPlan]
  <2>1. pc[p] = "origins" /\ Op(p) \in Operations /\ mem[p].cur = None
    BY <1>6, Subject DEF RecordPlan, Typed, Control, LocalOK
  <2>2. Record(p, e) /\ Step(p, l, m)
    BY <1>6 DEF RecordPlan
  <2>3. journal'[Op(p)] = e
    BY <1>1, <2>1, <2>2 DEF Record
  <2>4. /\ e.planned /\ e.plan = plan /\ e.of = journal[Op(p)].of
        /\ e.rollback = journal[Op(p)].rollback
    BY <1>1, <2>1 DEF JournalType
  <2>5. plan.adds = mem[p].plan.adds /\ plan.claim = mem[p].asked
    BY <1>1 DEF MemoryType, PlanType
  <2>6. /\ m.op = mem[p].op /\ m.cur = mem[p].cur /\ m.asked = mem[p].asked
        /\ m.todo = mem[p].plan.adds /\ m.leg = IF plan.moves THEN "out" ELSE "none"
    BY <1>1 DEF MemoryType
  <2>7. pc'[p] = l /\ mem'[p] = m
    BY <2>2, StepIs DEF Typed
  <2>8. journal[Op(p)].of = None /\ ~journal[Op(p)].rollback
    BY <2>1 DEF CourseAt, Planning
  <2>. HIDE DEF m, e, plan
  <2>9. CourseAt(l, m, e)
    BY <2>1, <2>4, <2>5, <2>6, <2>8
    DEF CourseAt, Planning, Adds, Adding, Undoes, Undoing, Moving
  <2>. QED BY <2>3, <2>6, <2>7, <2>9 DEF CourseThen, Op
<1>. QED BY <1>2, <1>3, <1>4, <1>5, <1>6

\* The course of the steps that end an operation.
LEMMA CourseEnding ==
    ASSUME NEW p \in Processes, Typed, Held, Work(p), CourseAt(pc[p], mem[p], journal[Op(p)]),
           \/ Locate(p) \/ PrepareFails(p) \/ Finish(p) \/ Resolve(p) \/ Retain(p)
           \/ Decide(p) \/ Republish(p)
    PROVE  CourseThen(p) \/ pc'[p] \in {"idle", "locate", "admit"}
<1>1. /\ \A l, m : Step(p, l, m) => pc'[p] = l /\ mem'[p] = m
      /\ End(p) => pc'[p] = "idle" /\ mem'[p].op = None
  BY StepEnds DEF Typed
<1>2. \A b : Continue(p, b) => pc'[p] \in {"locate", "admit", "idle"}
  BY <1>1 DEF Continue
<1>3. mem[p] \in MemoryType
  BY DEF Typed, Control
<1>4. CASE Locate(p) \/ PrepareFails(p)
  BY <1>1, <1>4 DEF Locate, PrepareFails
<1>5. CASE Finish(p)
  <2>. DEFINE n == [mem[p] EXCEPT !.todo = {}, !.cur = None, !.leg = "none"]
  <2>1. pc[p] = "finish" /\ (End(p) \/ GiveUp(p, "fail"))
    BY <1>5 DEF Finish
  <2>2. CourseAt("fail", n, journal[Op(p)]) /\ n.op = mem[p].op
    BY <1>3, <2>1, GiveUpCourse DEF Adds, Adding, MemoryType
  <2>. QED BY <1>1, <2>1, <2>2, CourseGoesOn DEF GiveUp
<1>6. CASE Resolve(p) \/ Retain(p) \/ Republish(p)
  BY <1>1, <1>2, <1>6 DEF Resolve, Retain, Republish
<1>7. CASE Decide(p)
  <2>1. pc[p] = "decide" /\ mem[p].cur = None
    BY <1>7 DEF Decide, Typed, Control, LocalOK
  <2>2. CASE ~journal[Op(p)].planned
    BY <1>2, <1>7, <2>2 DEF Decide
  <2>3. CASE journal[Op(p)].planned /\ CanFinish(p) /\ Step(p, "republish", mem[p])
    <3>1. CourseAt("republish", mem[p], journal[Op(p)])
      BY <2>1, <2>3
      DEF CanFinish, CourseAt, Planning, Adds, Adding, Undoes, Undoing, Moving
    <3>. QED BY <2>1, <2>3, <3>1, CourseGoesOn
  <2>4. CASE journal[Op(p)].planned /\ Step(p, "compensate", mem[p])
    <3>1. CourseAt("compensate", mem[p], journal[Op(p)])
      BY <2>1, <2>4 DEF CourseAt, Planning, Adds, Adding, Undoes, Undoing, Moving
    <3>. QED BY <2>1, <2>4, <3>1, CourseGoesOn
  <2>. QED BY <1>7, <2>2, <2>3, <2>4 DEF Decide
<1>. QED BY <1>4, <1>5, <1>6, <1>7

Courses == \A p \in Processes : CourseAt(pc[p], mem[p], journal[mem[p].op])

\* Every step keeps every process on its course.
LEMMA StepCourses ==
    ASSUME Structured, Courses, Next
    PROVE  Courses'
<1>. USE DEF Structured
<1>1. Typed'
  BY StepTyped, ChainedEvidence, NextTyped
<1>2. ASSUME NEW q \in Processes, pc'[q] \in {"idle", "locate", "admit", "decide"}
      PROVE  CourseAt(pc'[q], mem'[q], journal'[mem'[q].op])
  BY <1>1, <1>2, CourseIdle DEF Typed, Control
<1>3. CASE Environment
  BY <1>3, EnvironmentQuiet DEF Courses
<1>4. ASSUME NEW p \in Processes, Start(p) \/ Crash(p) PROVE Courses'
  BY <1>2, <1>4, OutsideStay DEF Courses
<1>5. ASSUME NEW p \in Processes, Work(p) PROVE Courses'
  <2>1. CourseAt(pc[p], mem[p], journal[Op(p)])
    BY DEF Courses, Op
  <2>2. CourseThen(p) \/ pc'[p] \in {"idle", "locate", "admit"}
    BY <1>5, <2>1, CourseAdding, CourseUndoing, CoursePlanning, CourseEnding DEF Work
  <2>3. CourseAt(pc'[p], mem'[p], journal'[mem'[p].op])
    BY <1>2, <2>2 DEF CourseThen
  <2>4. ASSUME NEW q \in Processes, q # p
        PROVE  CourseAt(pc'[q], mem'[q], journal'[mem'[q].op])
    <3>1. CASE mem[q].op = None
      <4>1. pc'[q] \in {"idle", "locate", "admit"}
        BY <1>5, <2>4, <3>1, Others DEF Typed, Control, LocalOK
      <4>. QED BY <1>2, <4>1
    <3>2. CASE mem[q].op # None
      BY <1>5, <2>4, <3>2, Others DEF Courses
    <3>. QED BY <3>1, <3>2
  <2>. QED BY <2>3, <2>4 DEF Courses
<1>. QED BY <1>3, <1>4, <1>5 DEF Next

-----------------------------------------------------------------------------
(* What is undone failed before, with the plan of what undoes it; and while it *)
(* is unresolved nothing else has a plan.                                      *)

Abandoned(o) == journal[o].st = "failed" /\ journal[o].planned

Lineage ==
    /\ \A o \in Operations : journal[o].of # None =>
         /\ Abandoned(journal[o].of)
         /\ journal[o].planned => journal[o].plan = journal[journal[o].of].plan
    /\ \A p \in Processes : mem[p].source # None => Abandoned(mem[p].source)
    /\ unresolved # None => Abandoned(unresolved)
    /\ \A o \in Operations : journal[o].planned /\ journal[o].plan.moves
                               => journal[o].plan.adds # {}

\* An operation that is over keeps its journal.
LEMMA Over ==
    ASSUME NEW p \in Processes, Structured, Work(p),
           NEW o \in Operations, Used(o), journal[o].st # "running"
    PROVE  journal'[o] = journal[o]
<1>. USE DEF Structured
<1>1. Effect(p)
  BY WorkEffect, NextTyped
<1>2. CASE Writes(p) \/ Plans(p) \/ Closes(p)
  BY <1>1, <1>2, Entry, Writer DEF Admits, Holds
<1>3. CASE Admits(p)
  BY <1>1, <1>3, NextOperationIs DEF Admits, Typed, StoreTyped
<1>. QED BY <1>1, <1>2, <1>3 DEF Effect, Quiet

\* An operation whose journal changes is the one at work, or a new one.
LEMMA Changed ==
    ASSUME NEW p \in Processes, Structured, Work(p),
           NEW o \in Operations, journal'[o] # journal[o]
    PROVE  \/ Admits(p) /\ o = NextOperation
           \/ (Writes(p) \/ Plans(p) \/ Closes(p)) /\ o = Op(p)
<1>. USE DEF Structured
<1>1. Effect(p)
  BY WorkEffect, NextTyped
<1>2. CASE Writes(p) \/ Plans(p) \/ Closes(p)
  BY <1>1, <1>2, Entry, Writer DEF Admits, Holds
<1>3. CASE Admits(p)
  BY <1>3 DEF Admits, Typed, StoreTyped
<1>. QED BY <1>1, <1>2, <1>3 DEF Effect, Quiet

\* The journal of a new operation.
LEMMA Admitted ==
    ASSUME NEW p \in Processes, Structured, Admits(p)
    PROVE  /\ NextOperation \in Operations /\ ~Used(NextOperation)
           /\ journal'[NextOperation].of = mem[p].source
           /\ ~journal'[NextOperation].planned /\ ~journal'[NextOperation].rollback
           /\ \A o \in Operations : o # NextOperation => journal'[o] = journal[o]
<1>1. NextOperation \in Operations /\ journal[NextOperation] = NoJournal /\ ~Used(NextOperation)
  BY NextOperationIs DEF Admits, Numbered, Structured
<1>2. journal \in [Operations -> JournalType]
  BY DEF Structured, Typed, StoreTyped
<1>. QED BY <1>1, <1>2 DEF Admits, NoJournal, JournalType

\* The journal of an operation whose plan is recorded.
LEMMA Planned ==
    ASSUME NEW p \in Processes, Structured, Plans(p)
    PROVE  /\ Op(p) \in Operations /\ journal'[Op(p)].planned
           /\ journal'[Op(p)].of = journal[Op(p)].of
           /\ journal'[Op(p)].st = journal[Op(p)].st
           /\ journal'[Op(p)].rollback = journal[Op(p)].rollback
           /\ journal'[Op(p)].intended = journal[Op(p)].intended
           /\ pc[p] = "source" => journal'[Op(p)].plan = journal[mem[p].source].plan
           /\ pc[p] = "origins" =>
                /\ journal'[Op(p)].plan.adds = mem[p].plan.adds
                /\ journal'[Op(p)].plan.moves = (place = "root" /\ mem[p].plan.adds # {})
<1>1. Op(p) \in Operations /\ journal \in [Operations -> JournalType]
  BY Writer DEF Structured, Typed, StoreTyped
<1>2. PICK plan \in PlanType :
        /\ Record(p, [journal[Op(p)] EXCEPT !.planned = TRUE, !.plan = plan])
        /\ pc[p] = "source" => plan = journal[mem[p].source].plan
        /\ pc[p] = "origins" =>
             plan = [mem[p].plan EXCEPT !.claim = mem[p].asked,
                        !.moves = place = "root" /\ mem[p].plan.adds # {}]
  BY DEF Plans
<1>3. pc[p] = "origins" =>
        plan.adds = mem[p].plan.adds /\ plan.moves = (place = "root" /\ mem[p].plan.adds # {})
  <2>1. mem[p].plan \in PlanType
    BY Subject DEF Structured, Typed
  <2>. QED BY <1>2, <2>1 DEF PlanType
<1>. DEFINE e == [journal[Op(p)] EXCEPT !.planned = TRUE, !.plan = plan]
<1>4. /\ e.planned /\ e.plan = plan /\ e.of = journal[Op(p)].of /\ e.st = journal[Op(p)].st
      /\ e.rollback = journal[Op(p)].rollback /\ e.intended = journal[Op(p)].intended
  BY <1>1 DEF JournalType
<1>5. journal'[Op(p)] = e
  BY <1>1, <1>2 DEF Record
<1>. HIDE DEF e
<1>. QED BY <1>1, <1>2, <1>3, <1>4, <1>5

\* The steps of a process keep the lineage.
LEMMA WorkLineage ==
    ASSUME NEW p \in Processes, Structured, Courses, Lineage, Work(p)
    PROVE  Lineage'
<1>. USE DEF Structured
<1>1. Effect(p)
  BY WorkEffect, NextTyped
<1>2. \A q \in Processes : q # p => mem'[q] = mem[q]
  BY Others
<1>3. ASSUME NEW o \in Operations, Abandoned(o) PROVE journal'[o] = journal[o]
  BY <1>3, Over DEF Abandoned, Used
<1>4. \A o \in Operations : journal[o].of \in {None} \cup Operations
  BY JournalEntry DEF Typed, JournalType
<1>5. CourseAt(pc[p], mem[p], journal[Op(p)])
  BY DEF Courses, Op
<1>6. ASSUME NEW o \in Operations, journal'[o].of # None
      PROVE  /\ Abandoned(journal[o].of)' /\ journal'[o].of \in Operations
             /\ journal'[o].planned => journal'[o].plan = journal'[journal'[o].of].plan
  <2>1. CASE journal'[o] = journal[o]
    BY <1>3, <1>4, <1>6, <2>1 DEF Lineage, Abandoned
  <2>2. CASE Admits(p) /\ o = NextOperation
    <3>1. journal'[o].of = mem[p].source /\ ~journal'[o].planned
      BY <2>2, Admitted
    <3>2. mem[p].source \in Operations /\ Abandoned(mem[p].source)
      BY <1>6, <3>1, Subject DEF Typed, Lineage
    <3>. QED BY <1>3, <3>1, <3>2 DEF Abandoned
  <2>3. CASE (Writes(p) \/ Closes(p)) /\ o = Op(p)
    <3>1. /\ journal'[o].of = journal[o].of /\ journal'[o].planned = journal[o].planned
          /\ journal'[o].plan = journal[o].plan
      BY <2>3, OwnEntry
    <3>. QED BY <1>3, <1>4, <1>6, <3>1 DEF Lineage, Abandoned
  <2>4. CASE Plans(p) /\ o = Op(p)
    <3>1. journal'[o].of = journal[o].of
      BY <2>4, Planned
    <3>2. pc[p] = "source"
      BY <1>5, <1>6, <2>4, <3>1 DEF Plans, CourseAt, Planning
    <3>3. journal[o].of = mem[p].source /\ journal'[o].plan = journal[mem[p].source].plan
      BY <1>5, <2>4, <3>2, Planned DEF CourseAt
    <3>. QED BY <1>3, <1>4, <1>6, <3>1, <3>3 DEF Lineage, Abandoned
  <2>. QED BY <2>1, <2>2, <2>3, <2>4, Changed
<1>7. ASSUME unresolved' # None PROVE Abandoned(unresolved)'
  <2>1. CASE unresolved' = unresolved
    <3>1. unresolved \in Operations
      BY <1>7, <2>1 DEF Typed, StoreTyped
    <3>. QED BY <1>3, <1>7, <2>1, <3>1 DEF Lineage, Abandoned
  <2>2. CASE unresolved' # unresolved
    <3>1. Closes(p) /\ pc[p] = "retain" /\ unresolved' = Op(p)
      BY <1>1, <1>7, <2>2 DEF Effect, Quiet, Admits, Writes, Plans, Closes
    <3>2. journal'[Op(p)].st = "failed"
      <4>1. Record(p, [journal[Op(p)] EXCEPT !.st = "failed"])
        BY <3>1 DEF Closes, Close
      <4>2. Op(p) \in Operations /\ journal \in [Operations -> JournalType]
        BY <3>1, Writer DEF Typed, StoreTyped
      <4>. QED BY <4>1, <4>2 DEF Record, JournalType
    <3>3. journal'[Op(p)].planned
      BY <1>5, <3>1, OwnEntry DEF CourseAt, Undoes, Undoing
    <3>. QED BY <3>1, <3>2, <3>3 DEF Abandoned
  <2>. QED BY <2>1, <2>2
<1>8. ASSUME NEW q \in Processes, mem'[q].source # None PROVE Abandoned(mem[q].source)'
  <2>1. mem'[q].source = mem[q].source \/ (q = p /\ mem'[q].source = unresolved)
    BY <1>2, <1>8, WorkSource
  <2>2. mem[q].source \in {None} \cup Operations /\ unresolved \in {None} \cup Operations
    BY Subject DEF Typed, StoreTyped
  <2>. QED BY <1>3, <1>8, <2>1, <2>2 DEF Lineage, Abandoned
<1>9. ASSUME NEW o \in Operations, journal'[o].planned, journal'[o].plan.moves
      PROVE  journal'[o].plan.adds # {}
  <2>1. CASE journal'[o] = journal[o]
    BY <1>9, <2>1 DEF Lineage
  <2>2. CASE Admits(p) /\ o = NextOperation
    BY <1>9, <2>2, Admitted
  <2>3. CASE (Writes(p) \/ Closes(p)) /\ o = Op(p)
    BY <1>9, <2>3, OwnEntry DEF Lineage
  <2>4. CASE Plans(p) /\ o = Op(p) /\ pc[p] = "source"
    <3>1. journal'[o].plan = journal[mem[p].source].plan
      BY <2>4, Planned
    <3>2. mem[p].source \in Operations /\ Abandoned(mem[p].source)
      <4>1. mem[p].source \in Operations
        BY <2>4, Subject DEF Typed
      <4>. QED BY <4>1, NoneIsNothing DEF Lineage
    <3>. QED BY <1>9, <3>1, <3>2 DEF Lineage, Abandoned
  <2>5. CASE Plans(p) /\ o = Op(p) /\ pc[p] = "origins"
    BY <1>9, <2>5, Planned
  <2>. QED BY <2>1, <2>2, <2>3, <2>4, <2>5, Changed DEF Plans
<1>. QED BY <1>6, <1>7, <1>8, <1>9 DEF Lineage

\* A process that ensures the origins found nothing unresolved.
Resolved == \A p \in Processes : pc[p] = "origins" => unresolved = None

\* They plan only when nothing is unresolved.
LEMMA WorkResolved ==
    ASSUME NEW p \in Processes, Structured, Resolved, Work(p)
    PROVE  Resolved'
<1>. USE DEF Structured
<1>1. ASSUME NEW q \in Processes, pc'[q] = "origins" PROVE unresolved' = None
  <2>1. CASE q = p
    <3>1. Prepare(p) \/ OriginAvailable(p)
      <4>1. mem[p].leg \in {"none", "out", "in", "home", "back"}
        BY DEF Typed, Control, MemoryType
      <4>2. pc[p] \in Moving => mem[p].leg # "none"
        BY DEF Typed, Control, LocalOK
      <4>3. RecordMove(p) => pc[p] = "moved"
        BY DEF RecordMove
      <4>. QED BY <1>1, <2>1, <4>1, <4>2, <4>3, WorkGoes
           DEF Goes, Typed, Leg, Legs, Moving, OnFailure
    <3>. QED BY <3>1 DEF Prepare, MayPlan, OriginAvailable, store, Resolved
  <2>2. CASE q # p
    <3>1. pc[q] = "origins"
      BY <1>1, <2>2, Others
    <3>. QED BY <2>2, <3>1, Others, Holder DEF Resolved
  <2>. QED BY <2>1, <2>2
<1>. QED BY <1>1 DEF Resolved

\* And so what is unresolved blocks.
LEMMA WorkBlocks ==
    ASSUME NEW p \in Processes, Structured, Courses, Resolved, UnresolvedBlocks, Work(p)
    PROVE  UnresolvedBlocks'
<1>. USE DEF Structured
<1>1. Effect(p)
  BY WorkEffect, NextTyped
<1>2. CASE Quiet(p)
  BY <1>2 DEF Quiet, UnresolvedBlocks
<1>3. CASE Admits(p)
  BY <1>3, Admitted DEF Admits, UnresolvedBlocks
<1>4. CASE Writes(p)
  BY <1>4, Writer, OwnEntry DEF Writes, UnresolvedBlocks
<1>5. CASE Plans(p)
  <2>1. Op(p) = lease.op /\ UNCHANGED <<lease, unresolved>>
    BY <1>5, Writer DEF Plans
  <2>2. CASE pc[p] = "origins"
    BY <2>1, <2>2 DEF Resolved, UnresolvedBlocks
  <2>3. CASE pc[p] = "source"
    <3>1. mem[p].source # None /\ journal[Op(p)].of = mem[p].source
      BY <2>3 DEF Courses, CourseAt, Op, Typed, Control, LocalOK
    <3>. QED BY <1>5, <2>1, <3>1, Planned DEF UnresolvedBlocks
  <2>. QED BY <1>5, <2>2, <2>3 DEF Plans
<1>6. CASE Closes(p)
  BY <1>6 DEF Closes, Close, UnresolvedBlocks
<1>. QED BY <1>1, <1>2, <1>3, <1>4, <1>5, <1>6 DEF Effect

\* Additions are in order: each process is on its course.
Orderly == Structured /\ Courses /\ Lineage /\ Resolved /\ UnresolvedBlocks

\* All of it holds at first, and every step keeps it.
LEMMA InitOrderly == ASSUME Init PROVE Orderly
<1>1. Structured
  BY InitStructured
<1>2. /\ \A o \in Operations : journal[o] = NoJournal
      /\ \A p \in Processes : mem[p] = Blank /\ pc[p] = "idle"
      /\ unresolved = None
  BY DEF Init
<1>3. NoJournal.of = None /\ ~NoJournal.planned /\ Blank.source = None
  BY DEF NoJournal, Blank
<1>4. Courses
  BY <1>1, <1>2, CourseIdle DEF Courses, Structured, Typed, Control
<1>. QED
  BY <1>1, <1>2, <1>3, <1>4 DEF Orderly, Lineage, Resolved, UnresolvedBlocks

\* Every step keeps the order.
LEMMA StepOrderly == ASSUME Orderly, [Next]_vars PROVE Orderly'
<1>1. Structured'
  BY StepStructured DEF Orderly
<1>2. CASE UNCHANGED vars
  BY <1>1, <1>2 DEF Orderly, Courses, Lineage, Abandoned, Resolved, UnresolvedBlocks, vars
<1>3. CASE Environment
  <2>1. EnvironmentEffect /\ Courses'
    BY <1>3, EnvironmentDoes, StepCourses DEF Orderly, Structured, Next
  <2>. QED
    BY <1>1, <2>1
    DEF EnvironmentEffect, Orderly, Lineage, Abandoned, Resolved, UnresolvedBlocks
<1>4. ASSUME NEW p \in Processes, Start(p) \/ Crash(p) PROVE Orderly'
  <2>1. Courses'
    BY <1>4, StepCourses DEF Orderly, Next
  <2>2. /\ UNCHANGED <<journal, unresolved>>
        /\ \A q \in Processes : q # p => pc'[q] = pc[q] /\ mem'[q] = mem[q]
        /\ pc'[p] # "origins" /\ mem'[p].source = None
        /\ lease = NoLease <=> lease' = NoLease
        /\ lease # NoLease => lease'.op = lease.op
    BY <1>4, OutsideStay DEF Orderly, Structured
  <2>3. Lineage'
    BY <2>2 DEF Orderly, Lineage, Abandoned
  <2>. QED
    BY <1>1, <2>1, <2>2, <2>3 DEF Orderly, Resolved, UnresolvedBlocks
<1>5. ASSUME NEW p \in Processes, Work(p) PROVE Orderly'
  BY <1>1, <1>5, StepCourses, WorkLineage, WorkResolved, WorkBlocks DEF Orderly, Next
<1>. QED BY <1>2, <1>3, <1>4, <1>5 DEF Next

\* Additions are in order in every state: the invariant of the theorems below.
THEOREM AdditionOrder == Spec => []Orderly
  BY InitOrderly, StepOrderly, PTL DEF Spec

\* While an addition is unresolved, no operation but its recovery has a plan
\* (persistence::ensure_resolved, which select_additions comes after).
THEOREM UnresolvedAdditionBlocks == Spec => []UnresolvedBlocks
<1>1. Orderly => UnresolvedBlocks
  BY DEF Orderly
<1>. QED BY <1>1, AdditionOrder, PTL

-----------------------------------------------------------------------------
(* What a step may never do.                                                 *)

\* An addition is published to the user who started it: its plan names the claim
\* that the command was started for, which the transaction compares again, and
\* only the process with the lease changes rows (recover_target, admit, finish).
THEOREM ClaimIsKept == Spec => ClaimKept
<1>1. ASSUME Orderly, [Next]_vars, NEW p \in Processes, rows' # rows, pc[p] = "finish"
      PROVE  claim = mem[p].chose
  <2>. USE DEF Orderly, Structured
  <2>1. Holds(p)
    BY <1>1, Holder
  <2>2. ASSUME NEW q \in Processes, q # p, Work(q) PROVE FALSE
    BY <1>1, <2>1, <2>2, Others DEF RowsStay
  <2>3. ~Environment /\ ~\E q \in Processes : Start(q) \/ Crash(q)
    BY <1>1, EnvironmentDoes, OutsideStay DEF EnvironmentEffect, RowsStay
  <2>4. Work(p)
    BY <1>1, <2>2, <2>3 DEF Next, vars
  <2>5. CanPublish(p)
    BY <1>1, <2>4, WorkRows DEF RowEffect, RowsStay, Publishes, Resolves, Retains
  <2>6. Plan(p).claim = mem[p].asked
    BY <1>1 DEF Courses, CourseAt, Adds, Adding, Plan, Op
  <2>. QED BY <1>1, <2>5, <2>6 DEF CanPublish, Typed, Control, LocalOK
<1>2. Orderly /\ [Next]_vars =>
        \A p \in Processes :
          (rows' # rows /\ mem[p].op = lease.op /\ mem[p].mode = "execute"
              /\ pc[p] = "finish") => claim = mem[p].chose
  BY <1>1
<1>. QED BY <1>2, AdditionOrder, PTL DEF Spec, ClaimKept, vars

\* No step of a process removes a worktree that a user has changes in, even when
\* they appear after it was found clean (remove_addition).
THEOREM UserWorkIsKept == Spec => UserWorkSurvives
<1>1. ASSUME Orderly, [Next]_vars, NEW r \in New, tree[r].dir # None,
             tree[r].content = "dirty", tree'[r] # tree[r]
      PROVE  UNCHANGED control
  <2>. USE DEF Orderly, Structured
  <2>1. CASE UNCHANGED vars
    BY <1>1, <2>1 DEF vars
  <2>2. CASE Environment
    BY <1>1, <2>2, EnvironmentDoes DEF EnvironmentEffect, control
  <2>3. ASSUME NEW p \in Processes, Start(p) \/ Crash(p) PROVE FALSE
    BY <1>1, <2>3, OutsideStay DEF FilesStay
  <2>4. ASSUME NEW p \in Processes, Work(p) PROVE FALSE
    <3>1. tree \in [New -> TreeType]
      BY <1>1 DEF Typed, StoreTyped
    <3>2. CASE FilesStay \/ Relocates(p) \/ Boxes(p) \/ Unboxes(p)
      BY <1>1, <3>2 DEF FilesStay, Relocates, Boxes, Unboxes
    <3>3. CASE Makes(p)
      BY <1>1, <3>1, <3>3 DEF Makes
    <3>4. CASE Attaches(p)
      BY <1>1, <3>1, <3>4 DEF Attaches
    <3>5. CASE \E s \in New : Drops(p, s)
      BY <1>1, <3>1, <3>5 DEF Drops
    <3>. QED BY <1>1, <2>4, <3>2, <3>3, <3>4, <3>5, WorkFiles DEF FileEffect
  <2>. QED BY <1>1, <2>1, <2>2, <2>3, <2>4 DEF Next
<1>2. Orderly /\ [Next]_vars =>
        \A r \in New : (tree[r].dir # None /\ tree[r].content = "dirty" /\ tree'[r] # tree[r])
                          => UNCHANGED control
  BY <1>1
<1>. QED BY <1>2, AdditionOrder, PTL DEF Spec, UserWorkSurvives

-----------------------------------------------------------------------------
(* What is published stays.  A plan is free when what it takes apart is not    *)
(* published; a recovery that is late could have one that is not, and the      *)
(* comparison of the pool at admission is what keeps an automatic workspace    *)
(* from it.                                                                    *)

NoneLate == \A o \in Operations : ~Late(o)
InTime   == Automatic \/ NoneLate

Free(o) == /\ journal[o].plan.adds \cap Members = {}
           /\ journal[o].plan.moves => place = "root"

Superseded(o) == \E q \in Operations : o < q /\ journal[q].planned

\* The journal of an operation keeps what was written.
LEMMA JournalGrows ==
    ASSUME NEW p \in Processes, Structured, Courses, Work(p), NEW o \in Operations, Used(o)
    PROVE  /\ journal'[o].of = journal[o].of
           /\ journal[o].planned => journal'[o].planned /\ journal'[o].plan = journal[o].plan
           /\ journal[o].intended \subseteq journal'[o].intended
<1>. USE DEF Structured
<1>1. CASE journal'[o] = journal[o]
  BY <1>1
<1>2. CASE Admits(p) /\ o = NextOperation
  BY <1>2, Admitted
<1>3. CASE (Writes(p) \/ Closes(p)) /\ o = Op(p)
  BY <1>3, OwnEntry
<1>4. CASE Plans(p) /\ o = Op(p)
  <2>1. ~journal[o].planned
    BY <1>4 DEF Plans, Courses, CourseAt, Planning, Op
  <2>. QED BY <1>4, <2>1, Planned
<1>. QED BY <1>1, <1>2, <1>3, <1>4, Changed

\* A recovery that is late stays late.
LEMMA LateStays ==
    ASSUME NEW p \in Processes, Structured, Courses, Work(p)
    PROVE  /\ \A o \in Operations : Late(o) => Late(o)'
           /\ InTime' => InTime
           /\ NoneLate' => NoneLate
<1>1. ASSUME NEW o \in Operations, Late(o) PROVE Late(o)'
  <2>1. PICK q \in Operations : journal[o].of < q /\ q < o /\ journal[q].planned
    BY <1>1 DEF Late
  <2>2. Used(o) /\ Used(q)
    BY <1>1, <2>1 DEF Late, Structured, Numbered, NoJournal
  <2>3. journal'[o].of = journal[o].of /\ journal'[q].planned
    BY <2>1, <2>2, JournalGrows
  <2>. QED BY <1>1, <2>1, <2>3 DEF Late
<1>. QED BY <1>1 DEF InTime, NoneLate

\* The members and their places after a step.
LEMMA WorkMembers ==
    ASSUME NEW p \in Processes, Orderly, Work(p)
    PROVE  \/ /\ Publishes(p) /\ FilesStay /\ lease' = NoLease
              /\ unresolved = None /\ unresolved' = None
              /\ Members' = Members \cup Plan(p).adds
              /\ place' = FinalPlace(Plan(p))
           \/ /\ ~Publishes(p) /\ Members' = Members /\ place' = place
<1>. USE DEF Orderly, Structured
<1>1. RowEffect(p) /\ rows \in [New -> RowStates]
  BY WorkRows DEF Typed, StoreTyped
<1>2. CASE Publishes(p)
  <2>1. pc[p] \in {"finish", "republish"} /\ FilesStay /\ Closes(p)
    BY <1>2 DEF Publishes
  <2>2. journal[Op(p)].planned /\ journal[Op(p)].of = None /\ lease.op = Op(p) /\ lease # NoLease
    BY <2>1, Writer DEF Courses, CourseAt, Adds, Adding, Op, Holds
  <2>3. unresolved = None
    BY <2>2 DEF UnresolvedBlocks
  <2>4. unresolved' = None /\ lease' = NoLease
    BY <2>1, <2>3 DEF Closes, Close
  <2>5. Op(p) \in Operations /\ journal[Op(p)] \in JournalType
    BY <2>1, Holder
  <2>6. Plan(p).adds \subseteq New
    BY <2>5, JournalEntries DEF Plan, PlanType
  <2>7. Members' = Members \cup Plan(p).adds /\ place' = FinalPlace(Plan(p))
    BY <1>1, <1>2, <2>6 DEF Publishes, Publish, Members
  <2>. QED BY <1>2, <2>1, <2>3, <2>4, <2>7
<1>3. CASE ~Publishes(p) /\ RowsStay
  BY <1>3 DEF RowsStay, Members
<1>4. CASE Resolves(p)
  <2>1. Members' = Members
    BY <1>1, <1>4 DEF Resolves, Failed, Members
  <2>. QED BY <1>4, <2>1 DEF Resolves, Publishes
<1>5. CASE Retains(p)
  <2>1. Members' = Members
    BY <1>1, <1>5 DEF Retains, CanRetain, Members
  <2>. QED BY <1>5, <2>1 DEF Retains, Publishes
<1>. QED BY <1>1, <1>2, <1>3, <1>4, <1>5 DEF RowEffect

\* How a process comes to a label that the invariants tell apart.
LEMMA Arrives ==
    ASSUME NEW p \in Processes, Typed, Held, Work(p)
    PROVE  /\ pc'[p] = "resolve" => OriginalAt(place) /\ UNCHANGED <<store, files>>
           /\ pc'[p] = "finish" =>
                FinallyThere(Op(p), Plan(p)) /\ mem'[p] = mem[p] /\ UNCHANGED <<store, files>>
           /\ pc'[p] = "republish" =>
                /\ FinallyThere(Op(p), Plan(p)) /\ mem'[p] = mem[p]
                /\ UNCHANGED <<rows, rowId, place, lease, journal, unresolved, files>>
           /\ pc'[p] = "admit" /\ mem'[p].source # None =>
                /\ mem'[p].source = unresolved /\ mem'[p].members = Members
                /\ UNCHANGED <<store, files>>
<1>1. \A l, m : Step(p, l, m) => pc'[p] = l /\ mem'[p] = m
  BY StepIs DEF Typed
<1>2. mem[p] \in MemoryType
  BY DEF Typed, Control
<1>3. \A l : GiveUp(p, l) => pc'[p] = l
  BY <1>1 DEF GiveUp
<1>4. RecordMove(p) => pc'[p] \in {"box", "additions", "unbox", "restored"}
  <2>1. RecordMove(p) => mem[p].leg \in {"out", "in", "home", "back"} /\ pc'[p] = Leg(p).then
    BY <1>1, Subject DEF RecordMove, Moving, Typed
  <2>. QED BY <2>1 DEF Leg, Legs
<1>5. OnFailure(p) \in {"fail", "retain"}
  BY DEF OnFailure
<1>6. Goes(p)
  BY WorkGoes DEF Typed
<1>7. ASSUME pc'[p] = "resolve" PROVE OriginalAt(place) /\ UNCHANGED <<store, files>>
  <2>1. RecordRestoration(p)
    BY <1>4, <1>5, <1>6, <1>7 DEF Goes
  <2>. QED BY <1>1, <1>7, <2>1 DEF RecordRestoration
<1>8. ASSUME pc'[p] = "finish"
      PROVE  FinallyThere(Op(p), Plan(p)) /\ mem'[p] = mem[p] /\ UNCHANGED <<store, files>>
  <2>1. FinalObservations(p)
    BY <1>4, <1>5, <1>6, <1>8 DEF Goes
  <2>. QED BY <1>1, <1>3, <1>8, <2>1 DEF FinalObservations
<1>9. ASSUME pc'[p] = "republish"
      PROVE  /\ FinallyThere(Op(p), Plan(p)) /\ mem'[p] = mem[p]
             /\ UNCHANGED <<rows, rowId, place, lease, journal, unresolved, files>>
  <2>1. Decide(p)
    BY <1>4, <1>5, <1>6, <1>9 DEF Goes
  <2>2. \A b : Continue(p, b) => pc'[p] \in {"locate", "admit", "idle"}
    BY <1>1 DEF Continue, End
  <2>. QED BY <1>1, <1>9, <2>1, <2>2 DEF Decide, CanFinish, membership, Plan
<1>10. ASSUME pc'[p] = "admit", mem'[p].source # None
       PROVE  /\ mem'[p].source = unresolved /\ mem'[p].members = Members
              /\ UNCHANGED <<store, files>>
  <2>1. \A b : ~Continue(p, b)
    <3>. DEFINE m == [Blank EXCEPT !.adds = TRUE, !.chose = mem[p].chose,
                                   !.asked = mem[p].asked, !.members = mem[p].members]
    <3>1. m.source = None /\ Blank.source = None
      BY DEF Blank
    <3>2. \A b : Continue(p, b) =>
            Step(p, "locate", m) \/ Step(p, "admit", m) \/ Step(p, "idle", Blank)
      BY DEF Continue, End
    <3>. HIDE DEF m
    <3>. QED BY <1>1, <1>10, <3>1, <3>2
  <2>2. ~End(p)
    BY <1>1, <1>10 DEF End
  <2>3. ~Resolve(p) /\ ~Retain(p) /\ ~Republish(p)
    BY <2>1, <2>2 DEF Resolve, Retain, Republish
  <2>4. ~Decide(p)
    <3>1. Decide(p) => \/ Continue(p, TRUE) \/ Step(p, "republish", mem[p])
                       \/ Step(p, "compensate", mem[p])
      BY DEF Decide
    <3>2. ~Step(p, "republish", mem[p]) /\ ~Step(p, "compensate", mem[p])
      BY <1>1, <1>10
    <3>. QED BY <2>1, <3>1, <3>2
  <2>5. Locate(p)
    BY <1>4, <1>5, <1>6, <1>10, <2>3, <2>4 DEF Goes
  <2>6. Step(p, "admit", [mem[p] EXCEPT !.members = Members, !.source = unresolved])
    BY <2>2, <2>5 DEF Locate
  <2>. QED BY <1>1, <1>2, <2>5, <2>6 DEF Locate, MemoryType
<1>. QED BY <1>7, <1>8, <1>9, <1>10

\* What a process plans to add is not there yet.
Fresh == \A p \in Processes :
    pc[p] \in Planning => (mem[p].todo \cup mem[p].plan.adds) \cap Members = {}

\* What a recovery undoes is unresolved, or it is late.
Recovery == \A o \in Operations :
    /\ \A p \in Processes : pc[p] = "admit" /\ mem[p].source = o =>
         (o = unresolved \/ Superseded(o)) /\ mem[p].members \subseteq Members
    /\ \A e \in Operations : lease # NoLease /\ lease.op = e /\ journal[e].of = o =>
         o = unresolved \/ Late(e)

\* The operations whose plan may still be taken apart: what is unresolved, the
\* one at work and what it undoes, and what an admission is about to undo.
AtHand(o) ==
    \/ o = unresolved
    \/ lease # NoLease /\ lease.op = o /\ journal[o].planned
    \/ lease # NoLease /\ journal[lease.op].of = o
    \/ \E p \in Processes :
         pc[p] = "admit" /\ mem[p].source = o /\ mem[p].members = Members

Freed == InTime => \A o \in Operations : AtHand(o) => Free(o)

\* The recorded worktree is at its path whenever no addition has a plan, and an
\* addition is published, or resolved, where its worktrees are.
Standing ==
    /\ unresolved = None /\ (lease = NoLease \/ ~journal[lease.op].planned)
         => OriginalAt(place)
    /\ \A p \in Processes : pc[p] = "resolve" => OriginalAt(place)
    /\ \A p \in Processes : pc[p] \in {"finish", "republish"} =>
         /\ OriginalAt(FinalPlace(journal[mem[p].op].plan))
         /\ \A r \in journal[mem[p].op].plan.adds : tree[r].listed /\ tree[r].dir # None

MembersStay == InTime => \A r \in Members : tree[r].listed /\ tree[r].dir # None
PlaceStays  == InTime => (place = "inside" => OriginalAt("inside"))

\* What is planned stays new, since the lease keeps others from publishing.
LEMMA WorkFresh ==
    ASSUME NEW p \in Processes, Orderly, Fresh, Work(p)
    PROVE  Fresh'
<1>. USE DEF Orderly, Structured
<1>1. ASSUME NEW q \in Processes, q # p, pc'[q] \in Planning
      PROVE  (mem'[q].todo \cup mem'[q].plan.adds) \cap Members' = {}
  <2>1. pc[q] = pc'[q] /\ mem'[q] = mem[q]
    BY <1>1, Others
  <2>2. Holds(q)
    BY <1>1, <2>1, Holder DEF Planning
  <2>3. RowsStay
    BY <1>1, <2>2, Others
  <2>. QED BY <1>1, <2>1, <2>3 DEF Fresh, RowsStay, Members
<1>2. ASSUME pc'[p] \in Planning
      PROVE  (mem'[p].todo \cup mem'[p].plan.adds) \cap Members' = {}
  <2>1. /\ \A l, m : Step(p, l, m) => pc'[p] = l /\ mem'[p] = m
        /\ mem[p] \in MemoryType
    BY StepIs DEF Typed, Control
  <2>2. Typed'
    BY StepTyped, ChainedEvidence, NextTyped DEF Next
  <2>3. CASE pc'[p] = "prepare"
    <3>1. mem'[p].todo = {} /\ mem'[p].plan.adds = {}
      BY <2>2, <2>3 DEF Typed, Control, LocalOK, NoPlan
    <3>. QED BY <3>1
  <2>4. CASE pc'[p] = "origins"
    <3>1. RecordMove(p) => pc'[p] # "origins"
      <4>1. RecordMove(p) => mem[p].leg \in {"out", "in", "home", "back"} /\ pc'[p] = Leg(p).then
        BY <2>1, Subject DEF RecordMove, Moving, Typed
      <4>. QED BY <4>1 DEF Leg, Legs
    <3>2. Prepare(p) \/ OriginAvailable(p)
      BY <2>4, <3>1, WorkGoes DEF Goes, Typed, OnFailure
    <3>3. UNCHANGED rows
      BY <3>2 DEF Prepare, OriginAvailable, store, membership
    <3>4. Members' = Members
      BY <3>3 DEF Members
    <3>5. CASE Prepare(p)
      <4>0. PICK todo : Step(p, "origins", [mem[p] EXCEPT !.todo = todo]) /\ todo \cap Members = {}
        <5>1. PICK requested : Step(p, "origins", [mem[p] EXCEPT !.todo = requested \ Members])
          BY <3>5 DEF Prepare
        <5>2. (requested \ Members) \cap Members = {}
          OBVIOUS
        <5>. QED BY <5>1, <5>2
      <4>1. mem'[p] = [mem[p] EXCEPT !.todo = todo]
        BY <2>1, <4>0
      <4>2. mem'[p].todo = todo /\ mem'[p].plan = mem[p].plan
        BY <2>1, <4>1 DEF MemoryType
      <4>3. mem[p].plan.adds = {}
        BY <3>5 DEF Prepare, Typed, Control, LocalOK, NoPlan
      <4>. QED BY <3>4, <4>0, <4>2, <4>3
    <3>6. CASE OriginAvailable(p)
      <4>1. PICK r \in mem[p].todo :
              Step(p, "origins", [mem[p] EXCEPT !.todo = @ \ {r}, !.plan.adds = @ \cup {r},
                                                !.plan.ids[r] = origins[r].id])
        BY <3>6 DEF OriginAvailable
      <4>. DEFINE m == [mem[p] EXCEPT !.todo = @ \ {r}, !.plan.adds = @ \cup {r},
                                      !.plan.ids[r] = origins[r].id]
      <4>2. m.todo = mem[p].todo \ {r} /\ m.plan.adds = mem[p].plan.adds \cup {r}
        BY <2>1 DEF MemoryType, PlanType
      <4>3. mem'[p] = m
        BY <2>1, <4>1
      <4>4. pc[p] \in Planning
        BY <3>6 DEF OriginAvailable, Planning
      <4>. HIDE DEF m
      <4>. QED BY <3>4, <4>1, <4>2, <4>3, <4>4 DEF Fresh
    <3>. QED BY <3>2, <3>5, <3>6
  <2>. QED BY <1>2, <2>3, <2>4 DEF Planning
<1>. QED BY <1>1, <1>2 DEF Fresh

\* What was superseded remains so.
LEMMA SupersededStays ==
    ASSUME NEW p \in Processes, Orderly, Work(p), NEW o, Superseded(o)
    PROVE  Superseded(o)'
<1>1. PICK q \in Operations : o < q /\ journal[q].planned
  BY DEF Superseded
<1>2. Used(q)
  BY <1>1 DEF Orderly, Structured, Numbered, NoJournal
<1>3. journal'[q].planned
  BY <1>1, <1>2, JournalGrows DEF Orderly
<1>. QED BY <1>1, <1>3 DEF Superseded

\* An operation that stops being unresolved is superseded from then on.
LEMMA ResolvedIsSuperseded ==
    ASSUME NEW p \in Processes, Orderly, Work(p), unresolved # None, unresolved' # unresolved,
           NEW o, o = unresolved
    PROVE  Superseded(o)'
<1>. USE DEF Orderly, Structured
<1>1. Closes(p) /\ pc[p] \in {"retain", "resolve"}
  <2>1. Effect(p)
    BY WorkEffect, NextTyped
  <2>. QED BY <2>1 DEF Effect, Quiet, Admits, Writes, Plans, Closes
<1>2. /\ Op(p) \in Operations /\ lease.op = Op(p) /\ lease # NoLease
      /\ journal[Op(p)].planned /\ journal[Op(p)].st = "running" /\ Used(Op(p))
  BY <1>1, Holder DEF Holds, Courses, CourseAt, Undoes, Undoing, Op
<1>3. o \in Operations /\ journal[o].st = "failed"
  BY DEF Typed, StoreTyped, Lineage, Abandoned
<1>4. o <= Op(p) /\ o # Op(p)
  BY <1>2, <1>3 DEF Held, Used
<1>5. o < Op(p)
  BY <1>2, <1>3, <1>4, AdditionAssumption DEF Operations
<1>6. journal'[Op(p)].planned
  BY <1>2, JournalGrows
<1>. QED BY <1>2, <1>5, <1>6 DEF Superseded

\* A step of a process keeps recoveries in time, or late.
LEMMA WorkRecovery ==
    ASSUME NEW p \in Processes, Orderly, Recovery, Work(p)
    PROVE  Recovery'
<1>. USE DEF Orderly, Structured
<1>1. Effect(p)
  BY WorkEffect, NextTyped
<1>2. Members \subseteq Members'
  BY WorkMembers
<1>3. ASSUME NEW o \in Operations, o = unresolved
      PROVE  o = unresolved' \/ Superseded(o)'
  BY <1>3, NoneIsNothing, ResolvedIsSuperseded
<1>4. ASSUME NEW o \in Operations, NEW q \in Processes, pc'[q] = "admit", mem'[q].source = o
      PROVE  (o = unresolved' \/ Superseded(o)') /\ mem'[q].members \subseteq Members'
  <2>1. CASE q = p
    BY <1>2, <1>4, <2>1, Arrives, NoneIsNothing DEF store
  <2>2. CASE q # p
    <3>1. pc[q] = "admit" /\ mem'[q] = mem[q]
      BY <1>4, <2>2, Others
    <3>2. (o = unresolved \/ Superseded(o)) /\ mem[q].members \subseteq Members
      BY <1>4, <3>1 DEF Recovery
    <3>. QED BY <1>2, <1>3, <3>1, <3>2, SupersededStays
  <2>. QED BY <2>1, <2>2
<1>5. ASSUME NEW o \in Operations, NEW e \in Operations,
             lease' # NoLease, lease'.op = e, journal'[e].of = o
      PROVE  o = unresolved' \/ Late(e)'
  <2>1. CASE Quiet(p) \/ Writes(p) \/ Plans(p)
    <3>1. UNCHANGED <<lease, unresolved>>
      BY <2>1 DEF Quiet, Writes, Plans
    <3>2. Used(e)
      BY <1>5, <3>1 DEF Held, Used
    <3>3. journal[e].of = o
      BY <1>5, <3>2, JournalGrows
    <3>. QED BY <1>5, <3>1, <3>3, LateStays DEF Recovery
  <2>2. CASE Closes(p)
    BY <1>5, <2>2 DEF Closes, Close
  <2>3. CASE Admits(p)
    <3>1. /\ e = NextOperation /\ UNCHANGED unresolved /\ pc[p] = "admit" /\ ~Used(e)
          /\ mem[p].source = o
          /\ \A q \in Operations : q # e => journal'[q] = journal[q]
      BY <1>5, <2>3, Admitted DEF Admits
    <3>2. CASE Superseded(o)
      <4>1. PICK q \in Operations : o < q /\ journal[q].planned
        BY <3>2 DEF Superseded
      <4>2. Used(q)
        BY <4>1 DEF Numbered, NoJournal
      <4>3. q # e /\ ~(e < q)
        BY <3>1, <4>2 DEF Numbered
      <4>4. q < e
        BY <4>3, AdditionAssumption DEF Operations
      <4>5. journal'[q].planned
        BY <3>1, <4>1, <4>3
      <4>. QED BY <1>5, <4>1, <4>4, <4>5, NoneIsNothing DEF Late
    <3>. QED BY <3>1, <3>2 DEF Recovery
  <2>. QED BY <1>1, <2>1, <2>2, <2>3 DEF Effect
<1>. QED BY <1>4, <1>5 DEF Recovery

\* What is free stays free, unless an addition is published.
LEMMA FreeStays ==
    ASSUME NEW p \in Processes, Orderly, Work(p), ~Publishes(p),
           NEW o \in Operations, Used(o), journal[o].planned, Free(o)
    PROVE  Free(o)'
<1>1. Members' = Members /\ place' = place
  BY WorkMembers
<1>2. journal'[o].plan = journal[o].plan
  BY JournalGrows DEF Orderly
<1>. QED BY <1>1, <1>2 DEF Free

\* A step of a process leaves free what may still be taken apart: a plan is recorded
\* for what is new, and an admission compares the pool, or is not late.
LEMMA WorkFreed ==
    ASSUME NEW p \in Processes, Orderly, Fresh, Recovery, Freed, Work(p)
    PROVE  Freed'
<1>. USE DEF Orderly, Structured
<1>1. Effect(p)
  BY WorkEffect, NextTyped
<1>2. SUFFICES ASSUME InTime', NEW o \in Operations, AtHand(o)'
               PROVE  Free(o)'
  BY DEF Freed
<1>3. \A e \in Operations : AtHand(e) => Free(e)
  BY <1>2, LateStays DEF Freed
<1>4. Publishes(p) => unresolved' = None /\ lease' = NoLease
  BY WorkMembers
<1>5. ASSUME NEW e \in Operations, Abandoned(e), AtHand(e), ~Publishes(p) PROVE Free(e)'
  BY <1>3, <1>5, FreeStays DEF Abandoned, Used
<1>6. CASE o = unresolved'
  <2>1. ~Publishes(p)
    BY <1>4, <1>6, NoneIsNothing
  <2>2. CASE unresolved' = unresolved
    <3>1. Abandoned(o) /\ AtHand(o)
      BY <1>6, <2>2, NoneIsNothing DEF Lineage, AtHand
    <3>. QED BY <1>5, <2>1, <3>1
  <2>3. CASE unresolved' # unresolved
    <3>1. pc[p] = "retain" /\ o = Op(p)
      BY <1>1, <1>6, <2>3, NoneIsNothing DEF Effect, Quiet, Admits, Writes, Plans, Closes
    <3>2. lease.op = o /\ lease # NoLease /\ journal[o].planned /\ Used(o)
      BY <3>1, Holder DEF Holds, Courses, CourseAt, Undoes, Undoing, Op
    <3>3. AtHand(o)
      BY <3>2 DEF AtHand
    <3>. QED BY <1>3, <2>1, <3>2, <3>3, FreeStays
  <2>. QED BY <2>2, <2>3
<1>7. CASE lease' # NoLease /\ journal'[lease'.op].of = o
  <2>1. ~Publishes(p)
    BY <1>4, <1>7
  <2>2. CASE Quiet(p) \/ Writes(p) \/ Plans(p)
    <3>1. UNCHANGED lease
      BY <2>2 DEF Quiet, Writes, Plans
    <3>2. lease.op \in Operations /\ Used(lease.op)
      BY <1>7, <3>1, LeaseOperation DEF Held, Used
    <3>3. journal[lease.op].of = o
      BY <1>7, <3>1, <3>2, JournalGrows
    <3>4. Abandoned(o) /\ AtHand(o)
      BY <1>7, <3>1, <3>2, <3>3, NoneIsNothing DEF Lineage, AtHand
    <3>. QED BY <1>5, <2>1, <3>4
  <2>3. CASE Admits(p)
    <3>. DEFINE e == NextOperation
    <3>1. lease'.op = e /\ UNCHANGED unresolved /\ pc[p] = "admit" /\ SameTarget(p)
      BY <2>3 DEF Admits
    <3>2. e \in Operations /\ mem[p].source = o
      BY <1>7, <2>3, <3>1, Admitted
    <3>3. Abandoned(o)
      BY <3>2, NoneIsNothing DEF Lineage
    <3>4. AtHand(o)
      <4>1. CASE Automatic
        BY <3>1, <3>2, <4>1 DEF SameTarget, AtHand
      <4>2. CASE NoneLate'
        <5>1. Recovery'
          BY WorkRecovery
        <5>2. ASSUME NEW a \in Operations, a = e PROVE o = unresolved' \/ Late(a)'
          BY <1>7, <3>1, <5>1, <5>2 DEF Recovery
        <5>3. ASSUME NEW a \in Operations PROVE ~Late(a)'
          BY <4>2 DEF NoneLate
        <5>4. o = unresolved
          BY <3>1, <3>2, <5>2, <5>3
        <5>. QED BY <5>4 DEF AtHand
      <4>. QED BY <1>2, <4>1, <4>2 DEF InTime
    <3>. QED BY <1>5, <2>1, <3>3, <3>4
  <2>4. CASE Closes(p)
    BY <1>7, <2>4 DEF Closes, Close
  <2>. QED BY <1>1, <2>2, <2>3, <2>4 DEF Effect
<1>8. CASE lease' # NoLease /\ lease'.op = o /\ journal'[o].planned
  <2>1. ~Publishes(p)
    BY <1>4, <1>8
  <2>2. CASE Quiet(p) \/ Writes(p)
    <3>1. UNCHANGED lease
      BY <2>2 DEF Quiet, Writes
    <3>2. Used(o)
      BY <1>8, <3>1 DEF Held, Used
    <3>3. journal[o].planned
      BY <1>8, <2>2, <3>1, Writer, OwnEntry DEF Quiet
    <3>4. AtHand(o)
      BY <1>8, <3>1, <3>3 DEF AtHand
    <3>. QED BY <1>3, <2>1, <3>2, <3>3, <3>4, FreeStays
  <2>3. CASE Admits(p)
    BY <1>8, <2>3, Admitted DEF Admits
  <2>4. CASE Closes(p)
    BY <1>8, <2>4 DEF Closes, Close
  <2>5. CASE Plans(p)
    <3>1. lease # NoLease /\ o = Op(p) /\ UNCHANGED lease
      BY <1>8, <2>5, Writer DEF Plans, Holds
    <3>2. Members' = Members /\ place' = place
      BY <2>1, WorkMembers
    <3>3. CASE pc[p] = "source"
      <4>1. journal[o].of = mem[p].source /\ mem[p].source # None
        BY <3>1, <3>3 DEF Courses, CourseAt, Op, Typed, Control, LocalOK
      <4>2. mem[p].source \in Operations /\ AtHand(mem[p].source)
        BY <1>8, <3>1, <4>1, Subject DEF AtHand, Typed
      <4>3. Free(mem[p].source)
        BY <1>3, <4>2
      <4>4. journal'[o].plan = journal[mem[p].source].plan
        BY <2>5, <3>1, <3>3, Planned
      <4>. QED BY <3>2, <4>3, <4>4 DEF Free
    <3>4. CASE pc[p] = "origins"
      <4>1. /\ journal'[o].plan.adds = mem[p].plan.adds
            /\ journal'[o].plan.moves = (place = "root" /\ mem[p].plan.adds # {})
        BY <2>5, <3>1, <3>4, Planned
      <4>2. mem[p].plan.adds \cap Members = {}
        BY <3>4 DEF Fresh, Planning
      <4>. QED BY <3>2, <4>1, <4>2 DEF Free
    <3>. QED BY <2>5, <3>3, <3>4 DEF Plans
  <2>. QED BY <1>1, <2>2, <2>3, <2>4, <2>5 DEF Effect
<1>9. ASSUME NEW q \in Processes, pc'[q] = "admit", mem'[q].source = o, mem'[q].members = Members'
      PROVE  Free(o)'
  <2>1. CASE q = p
    BY <1>6, <1>9, <2>1, Arrives, NoneIsNothing DEF store
  <2>2. CASE q # p
    <3>1. pc[q] = "admit" /\ mem'[q] = mem[q]
      BY <1>9, <2>2, Others
    <3>2. Abandoned(o)
      BY <1>9, <3>1, NoneIsNothing DEF Lineage
    <3>3. CASE ~Publishes(p)
      <4>1. AtHand(o)
        BY <1>9, <3>1, <3>3, WorkMembers DEF AtHand
      <4>. QED BY <1>5, <3>2, <3>3, <4>1
    <3>4. CASE Publishes(p)
      <4>1. /\ Members' = Members \cup Plan(p).adds /\ place' = FinalPlace(Plan(p))
            /\ pc[p] \in {"finish", "republish"}
        BY <3>4, WorkMembers DEF Publishes
      <4>2. mem[q].members \subseteq Members
        BY <1>9, <3>1 DEF Recovery
      <4>3. Plan(p).adds \subseteq Members /\ Members = mem[q].members /\ Members' = Members
        BY <1>9, <3>1, <4>1, <4>2
      <4>4. /\ lease # NoLease /\ lease.op = Op(p) /\ Op(p) \in Operations
            /\ journal[Op(p)].planned
        BY <4>1, Holder DEF Holds, Courses, CourseAt, Adds, Adding, Op
      <4>5. Free(Op(p)) /\ Free(o)
        BY <1>3, <1>9, <3>1, <4>3, <4>4 DEF AtHand
      <4>6. Plan(p).adds = {}
        BY <4>3, <4>5 DEF Free, Plan
      <4>7. ~Plan(p).moves
        BY <4>4, <4>6 DEF Lineage, Plan
      <4>8. place' = place
        BY <4>1, <4>7 DEF FinalPlace
      <4>9. journal'[o] = journal[o]
        BY <3>2, Over DEF Abandoned, Used
      <4>. QED BY <4>3, <4>5, <4>8, <4>9 DEF Free
    <3>. QED BY <3>3, <3>4
  <2>. QED BY <2>1, <2>2
<1>. QED BY <1>2, <1>6, <1>7, <1>8, <1>9 DEF AtHand

\* Only a move changes where the recorded worktree is.
LEMMA Stands ==
    ASSUME NEW p \in Processes, Typed, Work(p), original' # original
    PROVE  Relocates(p) /\ pc[p] = "move"
  BY WorkFiles DEF FileEffect, FilesStay, Relocates, Boxes, Unboxes, Makes, Attaches, Drops

\* A step of a process keeps the recorded worktree where it should be.
LEMMA WorkStanding ==
    ASSUME NEW p \in Processes, Orderly, Standing, Work(p)
    PROVE  Standing'
<1>. USE DEF Orderly, Structured
<1>1. Effect(p)
  BY WorkEffect, NextTyped
<1>2. ASSUME unresolved' = None, lease' = NoLease \/ ~journal'[lease'.op].planned
      PROVE  original'.at = place' /\ original'.listed = place'
  <2>1. CASE Publishes(p)
    <3>1. place' = FinalPlace(Plan(p)) /\ UNCHANGED original
      BY <2>1, WorkMembers DEF FilesStay
    <3>2. OriginalAt(FinalPlace(Plan(p)))
      BY <2>1 DEF Publishes, Standing, Plan, Op
    <3>. QED BY <3>1, <3>2 DEF OriginalAt
  <2>2. CASE ~Publishes(p)
    <3>1. place' = place
      BY <2>2, WorkMembers
    <3>2. UNCHANGED original
      <4>1. SUFFICES ASSUME original' # original PROVE FALSE
        OBVIOUS
      <4>2. pc[p] = "move"
        BY <4>1, Stands
      <4>3. UNCHANGED <<lease, journal>>
        BY <1>1, <4>2 DEF Effect, Quiet, Admits, Writes, Plans, Closes
      <4>4. lease # NoLease /\ lease.op = Op(p) /\ journal[Op(p)].planned
        BY <4>2, Holder DEF Holds, Courses, CourseAt, Adds, Undoes, Adding, Undoing, Moving, Op,
           Typed, Control, LocalOK, MemoryType
      <4>. QED BY <1>2, <4>3, <4>4
    <3>3. OriginalAt(place)
      <4>1. CASE Quiet(p)
        BY <1>2, <4>1 DEF Quiet, Standing
      <4>2. CASE Writes(p)
        BY <1>2, <4>2, Writer, OwnEntry DEF Writes, Standing
      <4>3. CASE Admits(p)
        BY <1>2, <4>3 DEF Admits, Standing
      <4>4. CASE Plans(p)
        BY <1>2, <4>4, Writer, Planned DEF Plans, Holds
      <4>5. CASE Closes(p)
        <5>1. CASE pc[p] \in {"finish", "republish"}
          BY <2>2, <4>5, <5>1, WorkRows DEF RowEffect
        <5>2. CASE pc[p] = "resolve"
          BY <5>2 DEF Standing
        <5>3. CASE pc[p] = "retain"
          BY <1>2, <4>5, <5>3, Writer, NoneIsNothing DEF Closes
        <5>4. CASE pc[p] \in {"prepare", "origins", "decide"}
          <6>1. ~journal[Op(p)].planned /\ lease.op = Op(p)
            BY <4>5, <5>4, Writer DEF Closes, Courses, CourseAt, Planning, Op
          <6>2. unresolved = None
            BY <1>2, <4>5, <5>4 DEF Closes
          <6>. QED BY <6>1, <6>2 DEF Standing
        <5>. QED BY <4>5, <5>1, <5>2, <5>3, <5>4 DEF Closes
      <4>. QED BY <1>1, <4>1, <4>2, <4>3, <4>4, <4>5 DEF Effect
    <3>. QED BY <3>1, <3>2, <3>3 DEF OriginalAt
  <2>. QED BY <2>1, <2>2
<1>3. ASSUME NEW q \in Processes, pc'[q] = "resolve"
      PROVE  original'.at = place' /\ original'.listed = place'
  <2>1. CASE q = p
    BY <1>3, <2>1, Arrives DEF store, files, OriginalAt
  <2>2. CASE q # p
    <3>1. pc[q] = "resolve"
      BY <1>3, <2>2, Others
    <3>. QED BY <2>2, <3>1, Holder, Others DEF FilesStay, RowsStay, Standing, OriginalAt
  <2>. QED BY <2>1, <2>2
<1>4. ASSUME NEW q \in Processes, pc'[q] \in {"finish", "republish"}
      PROVE  /\ OriginalAt(FinalPlace(journal[mem[q].op].plan))
             /\ \A r \in journal[mem[q].op].plan.adds : tree[r].listed /\ tree[r].dir # None
             /\ mem'[q] = mem[q] /\ UNCHANGED <<original, tree, place, journal>>
  <2>1. CASE q = p
    <3>1. /\ FinallyThere(Op(p), Plan(p)) /\ mem'[p] = mem[p]
          /\ UNCHANGED <<original, tree, place, journal>>
      BY <1>4, <2>1, Arrives DEF store, files
    <3>2. mem'[p].op # None
      BY <1>4, <2>1, StepTyped, ChainedEvidence, NextTyped DEF Next, Typed, Control, LocalOK
    <3>. QED BY <2>1, <3>1, <3>2 DEF FinallyThere, Owns, Plan, Op
  <2>2. CASE q # p
    <3>1. pc[q] = pc'[q] /\ mem'[q] = mem[q]
      BY <1>4, <2>2, Others
    <3>. QED BY <1>4, <2>2, <3>1, Holder, Others DEF FilesStay, RowsStay, Standing
  <2>. QED BY <2>1, <2>2
<1>. QED BY <1>2, <1>3, <1>4 DEF Standing, OriginalAt, FinalPlace

\* A process that changes a new worktree, or moves the recorded one, has a plan
\* that says so, and that is free if nothing is late.
LEMMA WorksFreely ==
    ASSUME NEW p \in Processes, Orderly, Freed, InTime,
           pc[p] \in {"mkdir", "attach", "remove", "detach", "move"}
    PROVE  /\ mem[p].todo \cap Members = {} \/ pc[p] \in {"move", "detach"}
           /\ mem[p].cur \notin Members
           /\ pc[p] = "move" => place = "root"
<1>. USE DEF Orderly, Structured
<1>1. /\ lease # NoLease /\ lease.op = Op(p) /\ Op(p) \in Operations
      /\ CourseAt(pc[p], mem[p], journal[Op(p)])
  BY Holder DEF Holds, Courses, Op
<1>2. journal[Op(p)].planned
  BY <1>1 DEF CourseAt, Adds, Undoes, Adding, Undoing, Moving, Typed, Control, LocalOK, MemoryType
<1>3. Free(Op(p))
  BY <1>1, <1>2 DEF Freed, AtHand
<1>4. None \notin Members
  BY NoneIsNothing DEF Members
<1>. QED BY <1>1, <1>3, <1>4 DEF CourseAt, Free, Adds, Adding, Moving

\* A step of a process leaves the worktrees of the members.
LEMMA WorkMembersStay ==
    ASSUME NEW p \in Processes, Orderly, Freed, Standing, MembersStay, Work(p)
    PROVE  MembersStay'
<1>. USE DEF Orderly, Structured
<1>1. SUFFICES ASSUME InTime', NEW r \in Members' PROVE tree'[r].listed /\ tree'[r].dir # None
  BY DEF MembersStay
<1>2. InTime /\ \A s \in Members : tree[s].listed /\ tree[s].dir # None
  BY <1>1, LateStays DEF MembersStay
<1>3. tree \in [New -> TreeType] /\ Members \subseteq New
  BY DEF Typed, StoreTyped, Members
<1>4. CASE Publishes(p)
  BY <1>1, <1>2, <1>4, WorkMembers DEF Publishes, Standing, FilesStay, Plan, Op
<1>5. CASE ~Publishes(p)
  <2>1. r \in Members /\ r \in New
    BY <1>1, <1>3, <1>5, WorkMembers
  <2>2. CASE FilesStay \/ Relocates(p) \/ Boxes(p) \/ Unboxes(p)
    BY <1>2, <2>1, <2>2 DEF FilesStay, Relocates, Boxes, Unboxes
  <2>3. CASE Makes(p)
    BY <1>2, <1>3, <2>1, <2>3 DEF Makes
  <2>4. CASE Attaches(p)
    BY <1>2, <1>3, <2>1, <2>4, WorksFreely DEF Attaches
  <2>5. CASE \E s \in New : Drops(p, s)
    BY <1>2, <1>3, <2>1, <2>5, WorksFreely DEF Drops
  <2>. QED BY <2>2, <2>3, <2>4, <2>5, WorkFiles DEF FileEffect
<1>. QED BY <1>4, <1>5

\* A step of a process leaves the recorded worktree in its container.
LEMMA WorkPlaceStays ==
    ASSUME NEW p \in Processes, Orderly, Freed, Standing, PlaceStays, Work(p)
    PROVE  PlaceStays'
<1>. USE DEF Orderly, Structured
<1>1. SUFFICES ASSUME InTime', place' = "inside"
               PROVE  original'.at = "inside" /\ original'.listed = "inside"
  BY DEF PlaceStays, OriginalAt
<1>2. InTime /\ (place = "inside" => OriginalAt("inside"))
  BY <1>1, LateStays DEF PlaceStays
<1>3. CASE Publishes(p)
  BY <1>1, <1>3, WorkMembers DEF Publishes, Standing, FilesStay, Plan, Op, OriginalAt
<1>4. CASE ~Publishes(p)
  <2>1. place = "inside"
    BY <1>1, <1>4, WorkMembers
  <2>2. UNCHANGED original
    BY <1>2, <2>1, Stands, WorksFreely
  <2>. QED BY <1>2, <2>1, <2>2 DEF OriginalAt
<1>. QED BY <1>3, <1>4

\* Nothing that is published is at hand, and it is where the rows say.
Layout == Fresh /\ Recovery /\ Freed /\ Standing /\ MembersStay /\ PlaceStays

\* The layout holds at first.
LEMMA InitLayout == ASSUME Init PROVE Layout
<1>1. /\ \A p \in Processes : mem[p] = Blank /\ pc[p] = "idle"
      /\ Members = {} /\ lease = NoLease /\ unresolved = None /\ OriginalAt(place)
  BY DEF Init, Members, OriginalAt
<1>. QED
  BY <1>1, NoneIsNothing
  DEF Layout, Fresh, Planning, Recovery, Freed, AtHand, Standing, MembersStay, PlaceStays

\* What others do keeps the layout.
LEMMA OutsideLayout ==
    ASSUME Orderly, Layout,
           UNCHANGED <<rows, rowId, place, journal, unresolved>>,
           lease = NoLease <=> lease' = NoLease, lease # NoLease => lease'.op = lease.op,
           \A p \in Processes : \/ pc'[p] = pc[p] /\ mem'[p] = mem[p]
                                \/ pc'[p] \in {"idle", "locate", "decide"},
           original' = original \/ /\ unresolved # None /\ lease = NoLease
                                   /\ original'.at = original.at
                                   /\ original'.listed = original.at,
           \A r \in New : \/ tree'[r].listed = tree[r].listed
                             /\ (tree[r].dir # None => tree'[r].dir # None)
                          \/ unresolved # None /\ lease = NoLease /\ r \notin Members
    PROVE  Layout'
<1>. USE DEF Layout
<1>1. Members' = Members /\ Members \subseteq New
  BY DEF Members
<1>2. \A o \in Operations : Late(o)' <=> Late(o)
  BY DEF Late
<1>3. InTime' => InTime
  BY <1>2 DEF InTime, NoneLate
<1>4. \A o \in Operations : (AtHand(o)' => AtHand(o)) /\ (Free(o)' <=> Free(o))
  BY <1>1 DEF AtHand, Free
<1>5. \A o \in Operations : Superseded(o)' <=> Superseded(o)
  BY DEF Superseded
<1>6. Fresh'
  BY <1>1 DEF Fresh, Planning
<1>7. Recovery'
  BY <1>1, <1>2, <1>5 DEF Recovery
<1>8. Freed'
  BY <1>3, <1>4 DEF Freed
<1>9. \A p \in Processes : pc'[p] \in {"resolve", "finish", "republish"} =>
        /\ pc'[p] = pc[p] /\ mem'[p] = mem[p] /\ lease # NoLease
        /\ journal[mem[p].op].plan.adds \subseteq New
  <2>1. ASSUME NEW p \in Processes, pc[p] \in {"resolve", "finish", "republish"}
        PROVE  lease # NoLease /\ journal[mem[p].op].plan.adds \subseteq New
    <3>1. lease # NoLease /\ journal[mem[p].op] \in JournalType
      BY <2>1, Holder DEF Orderly, Structured, Holds, Op
    <3>. QED BY <3>1 DEF JournalType, PlanType
  <2>. QED BY <2>1
<1>10. Standing'
  BY <1>9 DEF Standing, OriginalAt, FinalPlace
<1>11. MembersStay'
  BY <1>1, <1>3 DEF MembersStay
<1>12. PlaceStays'
  BY <1>3 DEF PlaceStays, OriginalAt
<1>. QED BY <1>6, <1>7, <1>8, <1>10, <1>11, <1>12

\* Every step keeps the layout.
LEMMA StepLayout == ASSUME Orderly, Layout, [Next]_vars PROVE Layout'
<1>1. CASE UNCHANGED vars
  BY <1>1, OutsideLayout DEF vars
<1>2. CASE Environment
  <2>1. EnvironmentEffect
    BY <1>2, EnvironmentDoes DEF Orderly, Structured
  <2>2. \A r \in New : \/ tree'[r].listed = tree[r].listed
                          /\ (tree[r].dir # None => tree'[r].dir # None)
                       \/ unresolved # None /\ lease = NoLease /\ r \notin Members
    BY <2>1 DEF EnvironmentEffect, FilesStay
  <2>3. original' = original \/ /\ unresolved # None /\ lease = NoLease
                                /\ original'.at = original.at
                                /\ original'.listed = original.at
    BY <2>1 DEF EnvironmentEffect, FilesStay
  <2>4. /\ UNCHANGED <<rows, rowId, place, journal, unresolved, pc, mem>>
        /\ lease = NoLease <=> lease' = NoLease
        /\ lease # NoLease => lease'.op = lease.op
    BY <2>1 DEF EnvironmentEffect
  <2>. QED BY <2>2, <2>3, <2>4, OutsideLayout
<1>3. ASSUME NEW p \in Processes, Start(p) \/ Crash(p) PROVE Layout'
  <2>1. /\ UNCHANGED <<original, tree, rows, rowId, place, journal, unresolved>>
        /\ \A q \in Processes : \/ pc'[q] = pc[q] /\ mem'[q] = mem[q]
                                \/ pc'[q] \in {"idle", "locate", "decide"}
        /\ lease = NoLease <=> lease' = NoLease
        /\ lease # NoLease => lease'.op = lease.op
    BY <1>3, OutsideStay DEF Orderly, Structured, FilesStay, RowsStay
  <2>. QED BY <2>1, OutsideLayout
<1>4. ASSUME NEW p \in Processes, Work(p) PROVE Layout'
  BY <1>4, WorkFresh, WorkRecovery, WorkFreed, WorkStanding, WorkMembersStay, WorkPlaceStays
  DEF Layout
<1>. QED BY <1>1, <1>2, <1>3, <1>4 DEF Next

\* In every state the layout is as published, and additions are in order.
THEOREM AdditionLayout == Spec => [](Orderly /\ Layout)
<1>1. Init => Orderly /\ Layout
  BY InitOrderly, InitLayout
<1>2. Orderly /\ Layout /\ [Next]_vars => (Orderly /\ Layout)'
  BY StepOrderly, StepLayout
<1>. QED BY <1>1, <1>2, PTL DEF Spec

\* What is published stays where the rows say as long as no recovery is late.
THEOREM PublishedStaysInTime == Spec => [](NoneLate => PublishedStays)
<1>1. Orderly /\ Layout => (NoneLate => PublishedStays)
  BY DEF Layout, MembersStay, PlaceStays, InTime, PublishedStays
<1>. QED BY <1>1, AdditionLayout, PTL

\* In an automatic workspace what is published stays where the rows say: the
\* comparison of its pool at admission keeps a late recovery from taking a
\* published layout apart (persistence::admit).
THEOREM PublishedLayoutStays == ASSUME Automatic PROVE Spec => []PublishedStays
<1>1. Orderly /\ Layout => PublishedStays
  BY DEF Layout, MembersStay, PlaceStays, InTime, PublishedStays
<1>. QED BY <1>1, AdditionLayout, PTL

-----------------------------------------------------------------------------
(* The container is there exactly when the recorded worktree is in it.       *)

\* Where the recorded worktree is while the addition that moved it goes on.
Moved == \A p \in Processes :
    /\ pc[p] = "moved" => original.at = Leg(p).to
    /\ pc[p] \in {"box", "boxed"} => original.at = "staging"

Whole == original.at = "root" => container = None
Boxed == original.at = "inside" => container # None

\* A step of a process knows where the recorded worktree is.
LEMMA WorkMoved ==
    ASSUME NEW p \in Processes, Orderly, Moved, Work(p)
    PROVE  Moved'
<1>. USE DEF Orderly, Structured
<1>1. /\ \A l, m : Step(p, l, m) => pc'[p] = l /\ mem'[p] = m
      /\ \A l : GiveUp(p, l) => pc'[p] = l
      /\ OnFailure(p) # "moved"
  BY StepIs DEF Typed, GiveUp, OnFailure
<1>2. ASSUME NEW q \in Processes, q # p, pc'[q] \in {"moved", "box", "boxed"}
      PROVE  pc[q] = pc'[q] /\ mem'[q] = mem[q] /\ UNCHANGED original
  <2>1. pc[q] = pc'[q] /\ mem'[q] = mem[q]
    BY <1>2, Others
  <2>2. Holds(q)
    BY <1>2, <2>1, Holder
  <2>. QED BY <1>2, <2>1, <2>2, Others DEF FilesStay
<1>3. RecordMove(p) =>
        /\ mem[p].leg \in {"out", "in", "home", "back"} /\ pc'[p] = Leg(p).then /\ pc[p] = "moved"
        /\ UNCHANGED original
  BY <1>1, Subject DEF RecordMove, Moving, Typed, files
<1>4. Goes(p)
  BY WorkGoes DEF Typed
<1>5. ASSUME pc'[p] = "moved" PROVE original'.at = Leg(p).to /\ mem'[p] = mem[p]
  <2>1. RecordMove(p) => pc'[p] # "moved"
    BY <1>3 DEF Leg, Legs
  <2>2. MoveOriginal(p)
    BY <1>1, <1>4, <1>5, <2>1 DEF Goes
  <2>3. original' = MovedTo(p, Leg(p).to) /\ Step(p, "moved", mem[p])
    BY <1>1, <1>5, <2>2 DEF MoveOriginal
  <2>. QED BY <1>1, <2>3 DEF MovedTo
<1>6. ASSUME pc'[p] \in {"box", "boxed"} PROVE original'.at = "staging"
  <2>1. RecordMove(p) \/ CreateContainer(p)
    BY <1>4, <1>6 DEF Goes, OnFailure
  <2>2. CASE RecordMove(p)
    BY <1>3, <1>6, <2>2 DEF Moved, Leg, Legs
  <2>3. CASE CreateContainer(p)
    BY <2>3 DEF Moved, CreateContainer
  <2>. QED BY <2>1, <2>2, <2>3
<1>. QED BY <1>2, <1>5, <1>6 DEF Moved, Leg

\* A step of a process keeps worktree and container together.
LEMMA WorkWhole ==
    ASSUME NEW p \in Processes, Orderly, Moved, Whole, Boxed, Work(p)
    PROVE  Whole' /\ Boxed'
<1>. USE DEF Orderly, Structured
<1>1. CASE FilesStay \/ Makes(p) \/ Attaches(p) \/ \E r \in New : Drops(p, r)
  BY <1>1 DEF FilesStay, Makes, Attaches, Drops, Whole, Boxed
<1>2. CASE Relocates(p)
  <2>1. original'.at = Leg(p).to /\ UNCHANGED container
    BY <1>2 DEF Relocates, MovedTo
  <2>. QED BY <1>2, <2>1 DEF Relocates, CanMove, Whole, Boxed
<1>3. CASE Boxes(p)
  BY <1>3, NoneIsNothing, Holder DEF Boxes, Moved, Whole, Boxed
<1>4. CASE Unboxes(p)
  BY <1>4 DEF Unboxes, StagedBy, OriginalAt, Whole, Boxed
<1>. QED BY <1>1, <1>2, <1>3, <1>4, WorkFiles DEF FileEffect

Contained == Moved /\ Whole /\ Boxed

\* Every step keeps them together.
LEMMA StepContained == ASSUME Orderly, Contained, [Next]_vars PROVE Contained'
<1>. USE DEF Contained
<1>1. CASE UNCHANGED vars
  BY <1>1 DEF Moved, Whole, Boxed, Leg, vars
<1>2. CASE Environment
  <2>1. EnvironmentEffect
    BY <1>2, EnvironmentDoes DEF Orderly, Structured
  <2>2. ASSUME NEW p \in Processes, pc[p] \in {"moved", "box", "boxed"} PROVE lease # NoLease
    BY <2>2, Holder DEF Orderly, Structured, Holds
  <2>3. Moved'
    BY <2>1, <2>2 DEF EnvironmentEffect, FilesStay, Moved, Leg
  <2>4. None # 0
    BY AdditionAssumption
  <2>5. Whole' /\ Boxed'
    BY <2>1, <2>4 DEF EnvironmentEffect, FilesStay, Whole, Boxed
  <2>. QED BY <2>3, <2>5
<1>3. ASSUME NEW p \in Processes, Start(p) \/ Crash(p) PROVE Contained'
  <2>1. /\ FilesStay /\ pc'[p] \in {"idle", "locate", "decide"}
        /\ \A q \in Processes : q # p => pc'[q] = pc[q] /\ mem'[q] = mem[q]
    BY <1>3, OutsideStay DEF Orderly, Structured
  <2>. QED BY <2>1 DEF FilesStay, Moved, Whole, Boxed, Leg
<1>4. ASSUME NEW p \in Processes, Work(p) PROVE Contained'
  BY <1>4, WorkMoved, WorkWhole
<1>. QED BY <1>1, <1>2, <1>3, <1>4 DEF Next

\* They are together at first.
LEMMA InitContained == ASSUME Init PROVE Contained
<1>. QED BY AdditionAssumption DEF Init, Contained, Moved, Whole, Boxed

\* The three parts hold in every state.
THEOREM AdditionContained == Spec => [](Orderly /\ Layout /\ Contained)
<1>1. Init => Orderly /\ Layout /\ Contained
  BY InitOrderly, InitLayout, InitContained
<1>2. Orderly /\ Layout /\ Contained /\ [Next]_vars => (Orderly /\ Layout /\ Contained)'
  BY StepOrderly, StepLayout, StepContained
<1>. QED BY <1>1, <1>2, PTL DEF Spec

-----------------------------------------------------------------------------
(* In an automatic workspace additions are atomic.                           *)

Safe == Orderly /\ Layout /\ Contained

\* A workspace that is not being changed has what its rows say.
LEMMA SettledInPlace ==
    ASSUME Safe, InTime, lease = NoLease, unresolved = None
    PROVE  InPlace
<1>1. place \in {"root", "inside"} /\ OriginalAt(place)
  BY DEF Safe, Orderly, Structured, Typed, StoreTyped, Layout, Standing
<1>. QED
  BY <1>1
  DEF Safe, Layout, MembersStay, Contained, Whole, Boxed, InPlace, OriginalAt

\* The same after a step.
LEMMA SettledWillBeInPlace ==
    ASSUME Safe', InTime', lease' = NoLease, unresolved' = None
    PROVE  InPlace'
<1>1. place' \in {"root", "inside"} /\ OriginalAt(place)'
  BY DEF Safe, Orderly, Structured, Typed, StoreTyped, Layout, Standing
<1>. QED
  BY <1>1
  DEF Safe, Layout, MembersStay, Contained, Whole, Boxed, InPlace, OriginalAt

\* The stages one by one.
LEMMA StageIs ==
    /\ lease = NoLease => Stage = IF unresolved # None THEN "unresolved" ELSE "settled"
    /\ lease # NoLease /\ unresolved # None /\ journal[lease.op].of = None => Stage = "unresolved"
    /\ lease # NoLease /\ (unresolved = None \/ journal[lease.op].of # None) =>
         Stage = IF journal[lease.op].of # None \/ journal[lease.op].rollback
                 THEN "undoing" ELSE "adding"
  BY DEF Stage

\* The same after a step.
LEMMA StageWillBe ==
    /\ lease' = NoLease => Stage' = IF unresolved' # None THEN "unresolved" ELSE "settled"
    /\ lease' # NoLease /\ unresolved' # None /\ journal'[lease'.op].of = None
         => Stage' = "unresolved"
    /\ lease' # NoLease /\ (unresolved' = None \/ journal'[lease'.op].of # None) =>
         Stage' = IF journal'[lease'.op].of # None \/ journal'[lease'.op].rollback
                  THEN "undoing" ELSE "adding"
  BY DEF Stage

\* What a step does to the stage, the members and the agreement of the files.
StageEffect ==
    \/ Stage' = Stage /\ Members' = Members /\ place' = place
    \/ Stage = "adding" /\ Stage' = "settled"
    \/ /\ Members' = Members /\ place' = place
       /\ \/ Stage = "settled" /\ Stage' = "adding" /\ InPlace' = InPlace
          \/ Stage # "undoing" /\ Stage' = "undoing" /\ InPlace' = InPlace
          \/ Stage # "unresolved" /\ Stage' = "settled"
          \/ Stage \in {"adding", "undoing"} /\ Stage' = "unresolved"

\* A step of a process does one of these.
LEMMA WorkStage ==
    ASSUME NEW p \in Processes, Safe, Work(p)
    PROVE  StageEffect
<1>. USE DEF Safe, Orderly, Structured
<1>1. Effect(p)
  BY WorkEffect, NextTyped
<1>2. CASE Publishes(p)
  <2>1. lease' = NoLease /\ unresolved = None /\ unresolved' = None
    BY <1>2, WorkMembers
  <2>2. lease # NoLease /\ lease.op = Op(p) /\ journal[Op(p)].of = None /\ ~journal[Op(p)].rollback
    BY <1>2, Holder DEF Publishes, Holds, Courses, CourseAt, Adds, Adding, Op
  <2>. QED BY <2>1, <2>2, StageIs, StageWillBe DEF StageEffect
<1>3. CASE ~Publishes(p)
  <2>1. Members' = Members /\ place' = place
    BY <1>3, WorkMembers
  <2>2. pc[p] \in {"admit", "compensate"} => InPlace' = InPlace
    <3>1. pc[p] \in {"admit", "compensate"} => FilesStay
      BY WorkFiles DEF FileEffect, Relocates, Boxes, Unboxes, Makes, Attaches, Drops
    <3>. QED BY <2>1, <3>1 DEF InPlace, OriginalAt, FilesStay
  <2>3. CASE Quiet(p)
    BY <2>1, <2>3 DEF Quiet, Stage, StageEffect
  <2>4. CASE Admits(p)
    <3>. DEFINE o == NextOperation
    <3>1. /\ lease = NoLease /\ lease'.op = o /\ lease' # NoLease /\ UNCHANGED unresolved
          /\ pc[p] = "admit"
      <4>1. lease = NoLease /\ lease'.op = o /\ UNCHANGED unresolved /\ pc[p] = "admit"
        BY <2>4 DEF Admits
      <4>2. o # None
        BY <2>4, Admitted, NoneIsNothing
      <4>. QED BY <4>1, <4>2 DEF NoLease
    <3>2. ~journal'[o].rollback
      BY <2>4, Admitted
    <3>. QED BY <2>1, <2>2, <3>1, <3>2, StageIs, StageWillBe DEF StageEffect
  <2>5. CASE Writes(p)
    <3>1. /\ lease # NoLease /\ lease.op = Op(p) /\ UNCHANGED <<lease, unresolved>>
          /\ journal'[Op(p)].of = journal[Op(p)].of
          /\ pc[p] # "compensate" => journal'[Op(p)].rollback = journal[Op(p)].rollback
      BY <2>5, Writer, OwnEntry DEF Writes, Holds
    <3>2. CASE pc[p] # "compensate"
      BY <2>1, <3>1, <3>2 DEF Stage, StageEffect
    <3>3. CASE pc[p] = "compensate"
      <4>1. journal[Op(p)].planned
        BY <3>3 DEF Courses, CourseAt, Undoes, Undoing, Op
      <4>2. unresolved = None \/ journal[Op(p)].of # None
        BY <3>1, <4>1 DEF UnresolvedBlocks
      <4>3. journal'[Op(p)].rollback \/ UNCHANGED journal
        <5>1. Compensate(p) \/ UndoFails(p)
          BY <3>3, WorkGoes DEF Goes, Typed, Locate, Admit, LoadSource, Prepare, OriginAvailable,
             RecordPlan, PrepareFails, MoveOriginal, RecordMove, CreateContainer,
             RecordContainer, IntendAddition, CreateDirectory, RecordDirectory, AttachWorktree,
             CreateNotes, FinalObservations, Finish, ApplyFails, FailExecution, RemoveAddition,
             DetachWorktree, RestoreOriginal, RemoveContainer, RecordRestoration, Resolve,
             Retain, Decide, Republish
        <5>2. journal \in [Operations -> JournalType] /\ Op(p) \in Operations
          BY <2>5, Writer DEF Typed, StoreTyped
        <5>3. CASE Compensate(p)
          BY <5>2, <5>3 DEF Compensate, Record, JournalType
        <5>4. CASE UndoFails(p)
          BY <5>4 DEF UndoFails, store
        <5>. QED BY <5>1, <5>3, <5>4
      <4>4. CASE UNCHANGED journal
        BY <2>1, <3>1, <4>4 DEF Stage, StageEffect
      <4>5. CASE journal'[Op(p)].rollback
        <5>1. Stage \in {"adding", "undoing"} /\ Stage' = "undoing"
          BY <3>1, <4>2, <4>5, StageIs, StageWillBe
        <5>. QED BY <2>1, <2>2, <3>3, <5>1 DEF StageEffect
      <4>. QED BY <4>3, <4>4, <4>5
    <3>. QED BY <3>2, <3>3
  <2>6. CASE Plans(p)
    <3>1. /\ lease.op = Op(p) /\ UNCHANGED <<lease, unresolved>>
          /\ journal'[Op(p)].of = journal[Op(p)].of
          /\ journal'[Op(p)].rollback = journal[Op(p)].rollback
      BY <2>6, Writer, Planned DEF Plans
    <3>. QED BY <2>1, <3>1 DEF Stage, StageEffect
  <2>7. CASE Closes(p)
    <3>1. lease # NoLease /\ lease' = NoLease /\ lease.op = Op(p)
      BY <2>7, Writer DEF Closes, Close, Holds
    <3>2. CASE unresolved = None \/ journal[lease.op].of # None
      BY <2>1, <3>1, <3>2, StageIs, StageWillBe DEF StageEffect
    <3>3. CASE unresolved # None /\ journal[lease.op].of = None
      <4>1. ~journal[Op(p)].planned
        BY <3>1, <3>3 DEF UnresolvedBlocks
      <4>2. pc[p] \notin {"resolve", "retain"}
        BY <4>1 DEF Courses, CourseAt, Undoes, Undoing, Op
      <4>3. UNCHANGED unresolved
        BY <2>7, <4>2 DEF Closes
      <4>. QED BY <2>1, <3>1, <3>3, <4>3, StageIs, StageWillBe DEF StageEffect
    <3>. QED BY <3>2, <3>3
  <2>. QED BY <1>1, <2>3, <2>4, <2>5, <2>6, <2>7 DEF Effect
<1>. QED BY <1>2, <1>3

\* So does every step.
LEMMA StepStage == ASSUME Safe, [Next]_vars PROVE StageEffect
<1>1. CASE UNCHANGED vars
  BY <1>1 DEF StageEffect, Stage, Members, vars
<1>2. ASSUME UNCHANGED <<rows, place, journal, unresolved>>,
             lease = NoLease <=> lease' = NoLease, lease # NoLease => lease'.op = lease.op
      PROVE  StageEffect
  BY <1>2, StageIs, StageWillBe DEF StageEffect, Members
<1>3. CASE Environment
  BY <1>2, <1>3, EnvironmentDoes DEF EnvironmentEffect, Safe, Orderly, Structured
<1>4. ASSUME NEW p \in Processes, Start(p) \/ Crash(p) PROVE StageEffect
  BY <1>2, <1>4, OutsideStay DEF Safe, Orderly, Structured, RowsStay
<1>. QED BY <1>1, <1>3, <1>4, WorkStage DEF Next

\* The rows, the files of the members and the journal behave as an atomic
\* addition in every automatic workspace, whatever fails, dies or is late: the
\* members change in one step, with the files in place, an addition that is being
\* undone is never published, and what is settled is in place.
THEOREM AdditionsAreAtomic == ASSUME Automatic PROVE Spec => AdditionIsAtomic
<1>1. ASSUME Init PROVE Atomic!AdditionInit
  <2>1. Safe
    BY <1>1, InitOrderly, InitLayout, InitContained DEF Safe
  <2>2. lease = NoLease /\ unresolved = None
    BY <1>1 DEF Init
  <2>3. InPlace
    BY <2>1, <2>2, SettledInPlace DEF InTime
  <2>4. InPlace = TRUE
    BY <2>3 DEF InPlace
  <2>5. Stage = "settled"
    BY <2>2, StageIs
  <2>6. [members |-> Members, place |-> place] \in [members: SUBSET New, place: {"root", "inside"}]
    BY <2>1 DEF Safe, Orderly, Structured, Typed, StoreTyped, Members
  <2>. QED BY <2>4, <2>5, <2>6 DEF Atomic!AdditionInit
<1>2. ASSUME Safe, Safe', [Next]_vars PROVE [Atomic!AdditionNext]_(Atomic!addition)
  <2>1. StageEffect
    BY <1>2, StepStage
  <2>2. Stage = "settled" => InPlace = TRUE
    <3>1. Stage = "settled" => lease = NoLease /\ unresolved = None
      BY StageIs
    <3>2. Stage = "settled" => InPlace
      BY <1>2, <3>1, SettledInPlace DEF InTime
    <3>. QED BY <3>2 DEF InPlace
  <2>3. Stage' = "settled" => InPlace' = TRUE
    <3>1. Stage' = "settled" => lease' = NoLease /\ unresolved' = None
      BY StageWillBe
    <3>2. Stage' = "settled" => InPlace'
      BY <1>2, <3>1, SettledWillBeInPlace DEF InTime
    <3>. QED BY <3>2 DEF InPlace
  <2>4. InPlace \in BOOLEAN /\ InPlace' \in BOOLEAN
    BY DEF InPlace
  <2>5. [members |-> Members', place |-> place']
          \in [members: SUBSET New, place: {"root", "inside"}]
    BY <1>2 DEF Safe, Orderly, Structured, Typed, StoreTyped, Members
  <2>6. CASE Stage' = Stage /\ Members' = Members /\ place' = place
    <3>1. CASE Stage = "settled"
      BY <2>2, <2>3, <2>6, <3>1 DEF Atomic!addition
    <3>2. CASE Stage # "settled"
      BY <2>4, <2>6, <3>2 DEF Atomic!AdditionNext, Atomic!Change
    <3>. QED BY <3>1, <3>2
  <2>7. CASE Stage = "adding" /\ Stage' = "settled"
    BY <2>3, <2>5, <2>7 DEF Atomic!AdditionNext, Atomic!Commit
  <2>8. CASE /\ Members' = Members /\ place' = place
             /\ Stage = "settled" /\ Stage' = "adding" /\ InPlace' = InPlace
    BY <2>8 DEF Atomic!AdditionNext, Atomic!Add
  <2>9. CASE /\ Members' = Members /\ place' = place
             /\ Stage # "undoing" /\ Stage' = "undoing" /\ InPlace' = InPlace
    BY <2>9 DEF Atomic!AdditionNext, Atomic!Undo
  <2>10. CASE /\ Members' = Members /\ place' = place
              /\ Stage # "unresolved" /\ Stage' = "settled"
    BY <2>3, <2>10 DEF Atomic!AdditionNext, Atomic!Settle
  <2>11. CASE /\ Members' = Members /\ place' = place
              /\ Stage \in {"adding", "undoing"} /\ Stage' = "unresolved"
    BY <2>4, <2>11 DEF Atomic!AdditionNext, Atomic!Retain
  <2>. QED BY <2>1, <2>6, <2>7, <2>8, <2>9, <2>10, <2>11 DEF StageEffect
<1>3. Spec => []Safe
  BY AdditionContained DEF Safe
<1>. QED BY <1>1, <1>2, <1>3, PTL DEF Spec, AdditionIsAtomic, Atomic!AdditionSpec

-----------------------------------------------------------------------------
(* What is over leaves nothing behind.                                       *)

\* Git lists no worktree that no addition created, and an addition knows of a
\* directory before it creates it, and of the worktree in it.
Traces ==
    /\ \A r \in New : tree[r].listed => tree[r].dir \in Operations
    /\ \A p \in Processes : pc[p] \in {"identity", "attach"} => tree[mem[p].cur].dir = mem[p].op
    /\ \A p \in Processes : pc[p] \in {"mkdir", "identity", "attach"} =>
         mem[p].cur \in journal[mem[p].op].intended

\* The operation whose work is not over: it is unresolved, or at work.
Open(e) == \/ unresolved # None /\ e = Evidence[unresolved]
           \/ lease # NoLease /\ journal[lease.op].planned /\ e = Evidence[lease.op]

\* What a process that undoes has yet to remove.
Removing(p) == Undoes(pc[p], mem[p]) /\ pc[p] \notin {"compensate", "retain"}
Left(p, r)  == \/ pc[p] \in {"remove", "detach"} /\ r \in mem[p].todo
               \/ pc[p] = "detach" /\ r = mem[p].cur

\* A directory of an addition belongs to one that is not over, unless it is a
\* member's; the failed rows are those of what is unresolved; and what an
\* undoing has passed is gone.
Remains == NoneLate =>
    /\ \A r \in New, e \in Operations : r \notin Members /\ tree[r].dir = e =>
         Open(e) /\ r \in journal[e].plan.adds /\ r \in journal[e].intended
    /\ \A r \in New : rows[r] = "failed" =>
         /\ unresolved # None /\ r \in journal[unresolved].plan.adds
         /\ rowId[r] = Evidence[unresolved]
    /\ \A p \in Processes : Removing(p) =>
         \A r \in journal[mem[p].op].plan.adds :
           tree[r].dir = Evidence[mem[p].op] => Left(p, r)

\* The evidence of an operation that has a plan is that of an addition with the
\* same plan.
LEMMA EvidenceOf ==
    ASSUME Orderly, NEW o \in Operations, journal[o].planned
    PROVE  /\ Evidence[o] \in Operations /\ journal[Evidence[o]].planned
           /\ journal[Evidence[o]].plan = journal[o].plan /\ Used(Evidence[o])
           /\ journal[o].of = None => Evidence[o] = o
           /\ journal[o].of # None => Evidence[o] = Evidence[journal[o].of]
<1>. USE DEF Orderly, Structured
<1>1. /\ \A q \in Operations : Evidence[q] \in Operations
      /\ \A q \in Operations :
           Evidence[q] = IF journal[q].of = None THEN q ELSE Evidence[journal[q].of]
  BY ChainedEvidence DEF EvidenceType
<1>. DEFINE Good(q) == /\ journal[Evidence[q]].planned
                       /\ journal[Evidence[q]].plan = journal[q].plan
            S == {q \in Operations : journal[q].planned /\ ~Good(q)}
<1>2. S = {}
  <2>1. SUFFICES ASSUME S # {} PROVE FALSE
    OBVIOUS
  <2>2. PICK q \in S : \A k \in S : q <= k
    BY <2>1, Least
  <2>3. journal[q].of # None
    BY <1>1, <2>2
  <2>4. journal[q].of \in Operations /\ journal[q].of < q
    BY <2>2, <2>3, JournalEntry DEF Numbered, Typed, JournalType
  <2>5. journal[journal[q].of].planned /\ journal[q].plan = journal[journal[q].of].plan
    BY <2>2, <2>3 DEF Lineage, Abandoned
  <2>6. journal[q].of \notin S
    BY <2>2, <2>4, AdditionAssumption DEF Operations
  <2>7. Good(journal[q].of)
    BY <2>4, <2>5, <2>6
  <2>. QED BY <1>1, <2>2, <2>3, <2>5, <2>7
<1>3. Good(o)
  BY <1>2
<1>. QED BY <1>1, <1>3 DEF Numbered, NoJournal, Used

\* If something is unresolved and nothing is late, an operation with a plan is
\* the recovery of what is unresolved.
LEMMA RecoversUnresolved ==
    ASSUME Orderly, Recovery, NoneLate, unresolved # None, lease # NoLease,
           journal[lease.op].planned
    PROVE  /\ unresolved \in Operations /\ journal[lease.op].of = unresolved
           /\ Evidence[lease.op] = Evidence[unresolved]
           /\ journal[lease.op].plan = journal[unresolved].plan
<1>. USE DEF Orderly, Structured
<1>1. lease.op \in Operations /\ journal[lease.op].of # None
  BY LeaseOperation DEF UnresolvedBlocks, Typed
<1>2. journal[lease.op].of \in Operations
  BY <1>1, JournalEntry DEF Typed, JournalType
<1>3. journal[lease.op].of = unresolved
  <2>1. \A o \in Operations, e \in Operations :
          lease.op = e /\ journal[e].of = o => o = unresolved \/ Late(e)
    BY DEF Recovery
  <2>. QED BY <1>1, <1>2, <2>1 DEF NoneLate
<1>4. Evidence[lease.op] = Evidence[unresolved]
  BY <1>1, <1>3, EvidenceOf
<1>. QED BY <1>1, <1>2, <1>3, <1>4 DEF Lineage

\* A step of a process keeps the traces.
LEMMA WorkTraces ==
    ASSUME NEW p \in Processes, Orderly, Traces, Work(p)
    PROVE  Traces'
<1>. USE DEF Orderly, Structured
<1>1. /\ \A l, m : Step(p, l, m) => pc'[p] = l /\ mem'[p] = m
      /\ \A l : GiveUp(p, l) => pc'[p] = l
      /\ mem[p] \in MemoryType /\ tree \in [New -> TreeType]
  BY StepIs DEF Typed, Control, StoreTyped, GiveUp
<1>2. mem[p].cur # None => mem[p].cur \in New
  BY <1>1 DEF MemoryType
<1>3. ASSUME NEW r \in New, tree'[r].listed PROVE tree'[r].dir \in Operations
  <2>1. CASE FilesStay \/ Relocates(p) \/ Boxes(p) \/ Unboxes(p)
    BY <1>3, <2>1 DEF FilesStay, Relocates, Boxes, Unboxes, Traces
  <2>2. CASE Makes(p)
    <3>1. Op(p) \in Operations
      BY <2>2, Holder DEF Makes
    <3>. QED BY <1>1, <1>3, <2>2, <3>1 DEF Makes, TreeType, Traces
  <2>3. CASE Attaches(p)
    <3>1. tree[mem[p].cur].dir = Op(p) /\ Op(p) \in Operations
      BY <2>3, Holder DEF Attaches, Traces, Op
    <3>. QED BY <1>1, <1>3, <2>3, <3>1 DEF Attaches, Traces, NoTree
  <2>4. CASE \E s \in New : Drops(p, s)
    BY <1>1, <1>3, <2>4 DEF Drops, Traces, NoTree
  <2>. QED BY <2>1, <2>2, <2>3, <2>4, WorkFiles DEF FileEffect
<1>4. ASSUME NEW q \in Processes, q # p, pc'[q] \in {"mkdir", "identity", "attach"}
      PROVE  /\ pc'[q] \in {"identity", "attach"} => tree'[mem'[q].cur].dir = mem'[q].op
             /\ mem'[q].cur \in journal'[mem'[q].op].intended
  <2>1. pc[q] = pc'[q] /\ mem'[q] = mem[q]
    BY <1>4, Others
  <2>2. Holds(q)
    BY <1>4, <2>1, Holder
  <2>. QED BY <1>4, <2>1, <2>2, Others DEF FilesStay, Traces
<1>5. ASSUME pc'[p] \in {"mkdir", "identity", "attach"}
      PROVE  /\ pc'[p] \in {"identity", "attach"} => tree'[mem'[p].cur].dir = mem'[p].op
             /\ mem'[p].cur \in journal'[mem'[p].op].intended
  <2>1. RecordMove(p) => pc'[p] \in {"box", "additions", "unbox", "restored"}
    <3>1. RecordMove(p) => mem[p].leg \in {"out", "in", "home", "back"} /\ pc'[p] = Leg(p).then
      BY <1>1, Subject DEF RecordMove, Moving, Typed
    <3>. QED BY <3>1 DEF Leg, Legs
  <2>2. IntendAddition(p) \/ CreateDirectory(p) \/ RecordDirectory(p)
    BY <1>5, <2>1, WorkGoes DEF Goes, OnFailure, Typed
  <2>3. Op(p) \in Operations /\ journal \in [Operations -> JournalType] /\ Used(Op(p))
    <3>1. pc[p] \in {"additions", "mkdir", "identity"}
      BY <2>2 DEF IntendAddition, CreateDirectory, RecordDirectory
    <3>. QED BY <3>1, Holder DEF Typed, StoreTyped
  <2>4. CASE IntendAddition(p)
    <3>1. PICK r \in mem[p].todo :
            /\ Record(p, [journal[Op(p)] EXCEPT !.intended = @ \cup {r}])
            /\ Step(p, "mkdir", [mem[p] EXCEPT !.cur = r, !.todo = @ \ {r}])
      BY <1>1, <1>5, <2>4 DEF IntendAddition
    <3>2. pc'[p] = "mkdir" /\ mem'[p].cur = r /\ mem'[p].op = mem[p].op
      BY <1>1, <3>1 DEF MemoryType
    <3>3. r \in journal'[Op(p)].intended
      BY <2>3, <3>1 DEF Record, JournalType
    <3>. QED BY <3>2, <3>3 DEF Op
  <2>5. CASE CreateDirectory(p)
    <3>1. /\ tree' = [tree EXCEPT ![mem[p].cur].dir = Op(p)]
          /\ mem'[p] = mem[p] /\ pc'[p] = "identity" /\ pc[p] = "mkdir" /\ UNCHANGED journal
      BY <1>1, <1>5, <2>5 DEF CreateDirectory, store
    <3>2. mem[p].cur \in New
      BY <1>2, <3>1 DEF Typed, Control, LocalOK
    <3>. QED BY <1>1, <3>1, <3>2 DEF Traces, Op, TreeType
  <2>6. CASE RecordDirectory(p)
    <3>1. /\ Record(p, [journal[Op(p)] EXCEPT !.made = @ \cup {mem[p].cur}])
          /\ mem'[p] = mem[p] /\ pc'[p] = "attach" /\ pc[p] = "identity" /\ UNCHANGED tree
      BY <1>1, <2>6 DEF RecordDirectory, files
    <3>2. journal'[Op(p)].intended = journal[Op(p)].intended
      BY <2>3, <3>1 DEF Record, JournalType
    <3>. QED BY <3>1, <3>2 DEF Traces, Op
  <2>. QED BY <2>2, <2>4, <2>5, <2>6
<1>. QED BY <1>3, <1>4, <1>5 DEF Traces

\* The steps of a process that is still removing, or begins to.
LEMMA WorkRemoving ==
    ASSUME NEW p \in Processes, Orderly, Work(p), Removing(p)'
    PROVE  /\ mem'[p].op = mem[p].op /\ Undoes(pc[p], mem[p])
           /\ \/ pc'[p] = "remove" /\ mem'[p].todo = Plan(p).adds /\ FilesStay
              \/ /\ Removing(p)
                 /\ \A r \in New : \/ Left(p, r) => Left(p, r)'
                                   \/ pc[p] = "remove" /\ r \in mem[p].todo
                                        /\ r \notin journal[Source(p)].intended
                                   \/ tree'[r].dir = None
<1>. USE DEF Orderly, Structured
<1>0. Removing(p) => Undoes(pc[p], mem[p])
  BY DEF Removing
<1>1. /\ \A l, m : Step(p, l, m) => pc'[p] = l /\ mem'[p] = m
      /\ \A l : GiveUp(p, l) => pc'[p] = l
      /\ mem[p] \in MemoryType /\ tree \in [New -> TreeType]
  BY StepIs DEF Typed, Control, StoreTyped, GiveUp
<1>2. pc'[p] \in {"remove", "detach", "unbox", "restored", "resolve"} \/ pc'[p] \in Moving
  BY DEF Removing, Undoes, Undoing
<1>3. pc'[p] \in Moving => mem'[p].leg \in {"home", "back"}
  BY DEF Removing, Undoes, Undoing, Moving
<1>4. \/ Compensate(p) \/ RemoveAddition(p) \/ DetachWorktree(p) \/ RestoreOriginal(p)
      \/ RemoveContainer(p) \/ RecordRestoration(p) \/ MoveOriginal(p) \/ RecordMove(p)
  <2>1. ~RecordContainer(p)
    <3>1. RecordContainer(p) => pc'[p] = "move" /\ mem'[p].leg = "in"
      BY <1>1 DEF RecordContainer, MemoryType
    <3>. QED BY <1>3, <3>1 DEF Moving
  <2>2. ~RecordPlan(p)
    <3>. DEFINE m(l) == [mem[p] EXCEPT !.leg = l, !.todo = mem[p].plan.adds, !.plan = NoPlan]
    <3>1. RecordPlan(p) => Step(p, "move", m("out")) \/ Step(p, "additions", m("none"))
      BY DEF RecordPlan
    <3>2. m("out").leg = "out"
      BY <1>1 DEF MemoryType
    <3>. HIDE DEF m
    <3>. QED BY <1>1, <1>2, <1>3, <3>1, <3>2 DEF Moving
  <2>. QED BY <1>2, <2>1, <2>2, WorkGoes DEF Goes, Typed, Moving
<1>5. CASE Compensate(p)
  <2>. DEFINE m(b) == [mem[p] EXCEPT !.todo = Plan(p).adds, !.mutated = b]
  <2>1. \E b : Step(p, "remove", m(b))
    BY <1>5 DEF Compensate
  <2>2. \A b : m(b).todo = Plan(p).adds /\ m(b).op = mem[p].op
    BY <1>1 DEF MemoryType
  <2>. HIDE DEF m
  <2>. QED BY <1>1, <1>5, <2>1, <2>2 DEF Compensate, FilesStay, files, Undoes, Undoing
<1>6. CASE RemoveAddition(p)
  <2>1. PICK r \in mem[p].todo :
          \/ /\ NothingToRemove(p, r)
             /\ Step(p, "remove", [mem[p] EXCEPT !.todo = @ \ {r}])
             /\ UNCHANGED tree
          \/ /\ Step(p, "remove", [mem[p] EXCEPT !.todo = @ \ {r}])
             /\ tree' = [tree EXCEPT ![r] = NoTree]
          \/ /\ Step(p, "detach", [mem[p] EXCEPT !.todo = @ \ {r}, !.cur = r])
             /\ UNCHANGED tree
    BY <1>1, <1>2, <1>6 DEF RemoveAddition, Moving
  <2>2. pc[p] = "remove" /\ Removing(p) /\ mem[p].cur = None /\ r \in New
    BY <1>1, <1>6 DEF RemoveAddition, Removing, Undoes, Undoing, Typed, Control, LocalOK, MemoryType
  <2>3. CASE /\ NothingToRemove(p, r)
             /\ Step(p, "remove", [mem[p] EXCEPT !.todo = @ \ {r}])
             /\ UNCHANGED tree
    <3>1. pc'[p] = "remove" /\ mem'[p].todo = mem[p].todo \ {r} /\ mem'[p].op = mem[p].op
      BY <1>1, <2>3 DEF MemoryType
    <3>2. tree'[r].dir = None \/ r \notin journal[Source(p)].intended
      BY <2>3 DEF NothingToRemove
    <3>. QED BY <1>0, <2>2, <3>1, <3>2 DEF Left
  <2>4. CASE /\ Step(p, "remove", [mem[p] EXCEPT !.todo = @ \ {r}])
             /\ tree' = [tree EXCEPT ![r] = NoTree]
    <3>1. pc'[p] = "remove" /\ mem'[p].todo = mem[p].todo \ {r} /\ mem'[p].op = mem[p].op
      BY <1>1, <2>4 DEF MemoryType
    <3>2. tree'[r].dir = None
      BY <1>1, <2>2, <2>4 DEF NoTree
    <3>. QED BY <1>0, <2>2, <3>1, <3>2 DEF Left
  <2>5. CASE /\ Step(p, "detach", [mem[p] EXCEPT !.todo = @ \ {r}, !.cur = r])
             /\ UNCHANGED tree
    <3>1. /\ pc'[p] = "detach" /\ mem'[p].todo = mem[p].todo \ {r} /\ mem'[p].cur = r
          /\ mem'[p].op = mem[p].op
      BY <1>1, <2>5 DEF MemoryType
    <3>. QED BY <1>0, <2>2, <3>1 DEF Left
  <2>. QED BY <2>1, <2>3, <2>4, <2>5
<1>7. CASE DetachWorktree(p)
  <2>1. /\ tree' = [tree EXCEPT ![mem[p].cur] = NoTree]
        /\ Step(p, "remove", [mem[p] EXCEPT !.cur = None])
    BY <1>1, <1>2, <1>7 DEF DetachWorktree, Moving
  <2>2. pc[p] = "detach" /\ Removing(p) /\ mem[p].cur \in New
    BY <1>1, <1>7 DEF DetachWorktree, Removing, Undoes, Undoing, Typed, Control, LocalOK, MemoryType
  <2>3. pc'[p] = "remove" /\ mem'[p].todo = mem[p].todo /\ mem'[p].op = mem[p].op
    BY <1>1, <2>1 DEF MemoryType
  <2>4. tree'[mem[p].cur].dir = None
    BY <1>1, <2>1, <2>2 DEF NoTree
  <2>. QED BY <1>0, <2>2, <2>3, <2>4 DEF Left
<1>8. CASE RestoreOriginal(p)
  <2>1. pc[p] = "remove" /\ mem[p].todo = {} /\ Removing(p)
    BY <1>8 DEF RestoreOriginal, Removing, Undoes, Undoing
  <2>2. \/ Step(p, "restored", mem[p]) \/ Step(p, "unbox", mem[p])
        \/ Step(p, "move", [mem[p] EXCEPT !.leg = "home"])
    BY <1>8 DEF RestoreOriginal
  <2>3. mem'[p].op = mem[p].op
    BY <1>1, <2>2 DEF MemoryType
  <2>. QED BY <1>0, <2>1, <2>3 DEF Left
<1>9. CASE RemoveContainer(p)
  <2>1. pc[p] = "unbox" /\ Removing(p)
    BY <1>9 DEF RemoveContainer, Removing, Undoes, Undoing
  <2>2. Step(p, "move", [mem[p] EXCEPT !.leg = "back"]) \/ GiveUp(p, "retain")
    BY <1>9 DEF RemoveContainer
  <2>3. mem'[p].op = mem[p].op
    BY <1>1, <1>2, <2>2 DEF MemoryType, Moving
  <2>. QED BY <1>0, <2>1, <2>3 DEF Left
<1>10. CASE RecordRestoration(p)
  <2>1. pc[p] = "restored" /\ Removing(p) /\ mem'[p] = mem[p]
    BY <1>1, <1>10 DEF RecordRestoration, Removing, Undoes, Undoing
  <2>. QED BY <1>0, <2>1 DEF Left
<1>11. CASE MoveOriginal(p) \/ RecordMove(p)
  <2>1. pc[p] \in Moving /\ mem'[p] = mem[p]
    BY <1>1, <1>2, <1>11 DEF MoveOriginal, RecordMove, OnFailure, Moving
  <2>2. mem[p].leg \in {"home", "back"}
    <3>1. mem[p].leg \in {"out", "in", "home", "back"}
      BY <1>1, <2>1 DEF Typed, Control, LocalOK, MemoryType
    <3>2. RecordMove(p) /\ mem[p].leg \in {"out", "in"} => pc'[p] \in {"box", "additions"}
      BY <1>1 DEF RecordMove, Leg, Legs
    <3>3. MoveOriginal(p) => pc'[p] = "moved"
      BY <1>1, <1>2 DEF MoveOriginal, OnFailure, Moving
    <3>. QED BY <1>2, <1>3, <1>11, <2>1, <3>1, <3>2, <3>3 DEF Moving
  <2>. QED BY <2>1, <2>2 DEF Left, Removing, Undoes, Moving
<1>. QED BY <1>4, <1>5, <1>6, <1>7, <1>8, <1>9, <1>10, <1>11 DEF Removing

\* A step of a process leaves nothing of what is over.
LEMMA WorkRemains ==
    ASSUME NEW p \in Processes, Safe, Traces, Remains, Work(p)
    PROVE  Remains'
<1>. USE DEF Safe, Orderly, Structured, Layout
<1>1. SUFFICES ASSUME NoneLate'
               PROVE  /\ \A r \in New, e \in Operations : r \notin Members' /\ tree'[r].dir = e =>
                           /\ Open(e)' /\ r \in journal'[e].plan.adds
                           /\ r \in journal'[e].intended
                      /\ \A r \in New : rows'[r] = "failed" =>
                           /\ unresolved' # None /\ r \in journal'[unresolved'].plan.adds
                           /\ rowId'[r] = Evidence'[unresolved']
                      /\ \A q \in Processes : Removing(q)' =>
                           \A r \in journal'[mem'[q].op].plan.adds :
                             tree'[r].dir = Evidence'[mem'[q].op] => Left(q, r)'
  BY DEF Remains
<1>2. NoneLate /\ InTime
  BY <1>1, LateStays DEF InTime
<1>3. /\ \A r \in New, e \in Operations : r \notin Members /\ tree[r].dir = e =>
           Open(e) /\ r \in journal[e].plan.adds /\ r \in journal[e].intended
      /\ \A r \in New : rows[r] = "failed" =>
           /\ unresolved # None /\ r \in journal[unresolved].plan.adds
           /\ rowId[r] = Evidence[unresolved]
      /\ \A q \in Processes : Removing(q) =>
           \A r \in journal[mem[q].op].plan.adds :
             tree[r].dir = Evidence[mem[q].op] => Left(q, r)
  BY <1>2 DEF Remains
<1>4. Effect(p)
  BY WorkEffect, NextTyped
<1>5. \A o \in Operations : Used(o) => Evidence'[o] = Evidence[o]
  BY WorkChained
<1>6. tree \in [New -> TreeType]
  BY DEF Typed, StoreTyped
<1>7. unresolved # None => /\ unresolved \in Operations /\ Used(unresolved)
                           /\ journal[unresolved].planned
                           /\ Evidence'[unresolved] = Evidence[unresolved]
  BY <1>5 DEF Lineage, Abandoned, Used, Typed, StoreTyped
\* What is open stays open until it is published or undone.
<1>8. ASSUME NEW e \in Operations, Open(e), ~Open(e)'
      PROVE  /\ Publishes(p) \/ Resolves(p)
             /\ e = Evidence[Op(p)]
  <2>1. CASE Quiet(p) \/ Writes(p) \/ Plans(p)
    <3>1. UNCHANGED <<lease, unresolved>>
      BY <2>1 DEF Quiet, Writes, Plans
    <3>2. lease # NoLease => lease.op \in Operations /\ Used(lease.op)
      BY LeaseOperation DEF Held, Used, Typed
    <3>3. lease # NoLease /\ journal[lease.op].planned =>
            journal'[lease.op].planned /\ Evidence'[lease.op] = Evidence[lease.op]
      BY <1>5, <3>2, JournalGrows
    <3>. QED BY <1>7, <1>8, <3>1, <3>3 DEF Open
  <2>2. CASE Admits(p)
    BY <1>7, <1>8, <2>2 DEF Admits, Open
  <2>3. CASE Closes(p)
    <3>1. lease # NoLease /\ lease.op = Op(p) /\ Op(p) \in Operations /\ Used(Op(p))
      BY <2>3, Writer DEF Holds, Used
    <3>2. CASE pc[p] \in {"finish", "republish"}
      <4>1. Publishes(p) /\ unresolved = None
        BY <2>3, <3>2, WorkRows, WorkMembers DEF RowEffect
      <4>. QED BY <1>8, <3>1, <4>1 DEF Open
    <3>3. CASE pc[p] \in {"resolve", "retain"}
      <4>1. journal[Op(p)].planned
        BY <3>3 DEF Courses, CourseAt, Undoes, Undoing, Op
      <4>2. unresolved # None => Evidence[Op(p)] = Evidence[unresolved]
        BY <1>2, <3>1, <4>1, RecoversUnresolved
      <4>3. e = Evidence[Op(p)]
        BY <1>8, <3>1, <4>2 DEF Open
      <4>4. CASE pc[p] = "resolve"
        BY <2>3, <4>3, <4>4, WorkRows DEF RowEffect
      <4>5. CASE pc[p] = "retain"
        <5>1. unresolved' = Op(p) /\ Evidence'[Op(p)] = Evidence[Op(p)]
          BY <1>5, <2>3, <3>1, <4>5 DEF Closes
        <5>. QED BY <1>8, <3>1, <4>3, <5>1, NoneIsNothing DEF Open
      <4>. QED BY <3>3, <4>4, <4>5
    <3>4. CASE pc[p] \in {"prepare", "origins", "decide"}
      <4>1. ~journal[Op(p)].planned /\ UNCHANGED unresolved
        BY <2>3, <3>4 DEF Closes, Courses, CourseAt, Planning, Op
      <4>. QED BY <1>7, <1>8, <3>1, <4>1 DEF Open
    <3>. QED BY <2>3, <3>2, <3>3, <3>4 DEF Closes
  <2>. QED BY <1>4, <2>1, <2>2, <2>3 DEF Effect
\* Directories.
<1>9. ASSUME NEW r \in New, NEW e \in Operations, r \notin Members', tree'[r].dir = e
      PROVE  /\ Open(e)' /\ r \in journal'[e].plan.adds /\ r \in journal'[e].intended
  <2>1. r \notin Members
    BY <1>9, WorkMembers
  <2>2. CASE tree[r].dir = e
    <3>1. Open(e) /\ r \in journal[e].plan.adds /\ r \in journal[e].intended
      BY <1>3, <2>1, <2>2
    <3>2. journal[e].planned /\ Used(e)
      <4>1. lease # NoLease => lease.op \in Operations
        BY LeaseOperation DEF Typed
      <4>. QED BY <1>7, <3>1, <4>1, EvidenceOf DEF Open
    <3>3. r \in journal'[e].plan.adds /\ r \in journal'[e].intended
      BY <3>1, <3>2, JournalGrows
    <3>4. Open(e)'
      <4>1. SUFFICES ASSUME ~Open(e)' PROVE FALSE
        OBVIOUS
      <4>2. e = Evidence[Op(p)] /\ (Publishes(p) \/ Resolves(p))
        BY <1>8, <3>1, <4>1
      <4>3. /\ lease # NoLease /\ lease.op = Op(p) /\ Op(p) \in Operations
            /\ journal[Op(p)].planned
        BY <4>2, Holder DEF Publishes, Resolves, Holds, Courses, CourseAt, Adds, Adding,
           Undoes, Undoing, Op
      <4>4. journal[e].plan = Plan(p)
        BY <4>2, <4>3, EvidenceOf DEF Plan
      <4>5. CASE Publishes(p)
        BY <1>9, <3>1, <4>4, <4>5, WorkMembers
      <4>6. CASE Resolves(p)
        <5>1. Removing(p) /\ ~Left(p, r)
          BY <4>6 DEF Resolves, Removing, Undoes, Undoing, Left
        <5>. QED BY <1>3, <2>2, <3>1, <4>2, <4>4, <5>1 DEF Plan, Op
      <4>. QED BY <4>2, <4>5, <4>6
    <3>. QED BY <3>3, <3>4
  <2>3. CASE tree[r].dir # e
    <3>1. Makes(p) /\ r = mem[p].cur /\ e = Op(p)
      <4>1. None \notin Operations
        BY NoneIsNothing
      <4>2. CASE FilesStay \/ Relocates(p) \/ Boxes(p) \/ Unboxes(p)
        BY <1>9, <2>3, <4>2 DEF FilesStay, Relocates, Boxes, Unboxes
      <4>3. CASE Makes(p)
        BY <1>6, <1>9, <2>3, <4>3 DEF Makes, TreeType
      <4>4. CASE Attaches(p)
        BY <1>6, <1>9, <2>3, <4>1, <4>4 DEF Attaches, NoTree
      <4>5. CASE \E s \in New : Drops(p, s)
        BY <1>6, <1>9, <2>3, <4>1, <4>5 DEF Drops, NoTree
      <4>. QED BY <4>2, <4>3, <4>4, <4>5, WorkFiles DEF FileEffect
    <3>2. /\ lease # NoLease /\ lease.op = e /\ Used(e) /\ journal[e].planned
          /\ journal[e].of = None /\ r \in journal[e].plan.adds
      <4>1. mem[p].cur # None
        BY <3>1, NoneIsNothing
      <4>. QED BY <3>1, <4>1, Holder DEF Makes, Holds, Courses, CourseAt, Adds, Adding, Op
    <3>3. r \in journal[e].intended
      BY <3>1 DEF Traces, Makes, Op
    <3>4. UNCHANGED <<lease, unresolved, journal>>
      BY <1>4, <3>1 DEF Makes, Effect, Quiet, Admits, Writes, Plans, Closes
    <3>5. Evidence'[e] = e
      BY <1>5, <3>2, EvidenceOf
    <3>. QED BY <3>2, <3>3, <3>4, <3>5 DEF Open
  <2>. QED BY <2>2, <2>3
\* Failed rows.
<1>10. ASSUME NEW r \in New, rows'[r] = "failed"
       PROVE  /\ unresolved' # None /\ r \in journal'[unresolved'].plan.adds
              /\ rowId'[r] = Evidence'[unresolved']
  <2>1. CASE Resolves(p) \/ Retains(p)
    <3>1. /\ lease # NoLease /\ lease.op = Op(p) /\ Op(p) \in Operations /\ Used(Op(p))
          /\ journal[Op(p)].planned
      BY <2>1, Holder DEF Resolves, Retains, Holds, Courses, CourseAt, Undoes, Undoing, Op
    <3>2. rows[r] = "failed" => r \in Plan(p).adds /\ rowId[r] = Source(p)
      BY <1>2, <1>3, <3>1, RecoversUnresolved DEF Plan, Source, Op
    <3>3. CASE Resolves(p)
      BY <1>10, <3>2, <3>3 DEF Resolves, Failed
    <3>4. CASE Retains(p)
      <4>1. unresolved' = Op(p) /\ Op(p) # None
        BY <3>1, <3>4, NoneIsNothing DEF Retains, Closes
      <4>2. r \in Plan(p).adds /\ rowId'[r] = Source(p)
        BY <1>10, <3>2, <3>4 DEF Retains, Remaining
      <4>3. journal'[Op(p)].plan = journal[Op(p)].plan /\ Evidence'[Op(p)] = Evidence[Op(p)]
        BY <1>5, <3>1, JournalGrows
      <4>. QED BY <4>1, <4>2, <4>3 DEF Plan, Source, Op
    <3>. QED BY <2>1, <3>3, <3>4
  <2>2. CASE Publishes(p)
    <3>1. rows[r] = "failed" /\ unresolved = None
      BY <1>10, <2>2, WorkMembers DEF Publishes, Publish
    <3>. QED BY <1>3, <3>1
  <2>3. CASE RowsStay /\ ~(Resolves(p) \/ Retains(p))
    <3>1. UNCHANGED unresolved
      BY <1>4, <2>3, WorkRows DEF RowEffect, Effect, Quiet, Admits, Writes, Plans, Closes
    <3>2. /\ unresolved # None /\ r \in journal[unresolved].plan.adds
          /\ rowId'[r] = Evidence[unresolved]
      BY <1>3, <1>10, <2>3 DEF RowsStay
    <3>3. journal'[unresolved].plan = journal[unresolved].plan
      BY <1>7, <3>2, JournalGrows
    <3>. QED BY <1>7, <3>1, <3>2, <3>3
  <2>. QED BY <2>1, <2>2, <2>3, WorkRows DEF RowEffect
\* What is yet to be removed.
<1>11. ASSUME NEW q \in Processes, Removing(q)', NEW r \in journal'[mem'[q].op].plan.adds,
              tree'[r].dir = Evidence'[mem'[q].op]
       PROVE  Left(q, r)'
  <2>1. CASE q = p
    <3>1. /\ mem'[p].op = Op(p) /\ Undoes(pc[p], mem[p])
          /\ \/ pc'[p] = "remove" /\ mem'[p].todo = Plan(p).adds /\ FilesStay
             \/ /\ Removing(p)
                /\ \A s \in New : \/ Left(p, s) => Left(p, s)'
                                  \/ pc[p] = "remove" /\ s \in mem[p].todo
                                       /\ s \notin journal[Source(p)].intended
                                  \/ tree'[s].dir = None
      BY <1>11, <2>1, WorkRemoving DEF Op
    <3>2. /\ lease # NoLease /\ lease.op = Op(p) /\ Op(p) \in Operations /\ Used(Op(p))
          /\ journal[Op(p)] \in JournalType /\ journal[Op(p)].planned
      BY <3>1, Holder DEF Undoes, Undoing, Moving, Holds, Courses, CourseAt, Op
    <3>3. /\ r \in Plan(p).adds /\ r \in New /\ tree'[r].dir = Source(p)
          /\ Source(p) \in Operations
      <4>1. journal'[Op(p)].plan = Plan(p) /\ Evidence'[Op(p)] = Source(p)
        BY <1>5, <3>2, JournalGrows DEF Plan, Source
      <4>2. Plan(p).adds \subseteq New
        BY <3>2 DEF Plan, JournalType, PlanType
      <4>. QED BY <1>11, <2>1, <3>1, <3>2, <4>1, <4>2, EvidenceOf DEF Source
    <3>4. CASE pc'[p] = "remove" /\ mem'[p].todo = Plan(p).adds
      BY <2>1, <3>3, <3>4 DEF Left
    <3>5. CASE /\ Removing(p)
               /\ \A s \in New : \/ Left(p, s) => Left(p, s)'
                                 \/ pc[p] = "remove" /\ s \in mem[p].todo
                                      /\ s \notin journal[Source(p)].intended
                                 \/ tree'[s].dir = None
      <4>1. tree'[r].dir # None
        BY <3>3, NoneIsNothing
      <4>2. tree[r].dir = Source(p)
        <5>1. ~Makes(p) /\ ~Attaches(p)
          BY <3>1 DEF Makes, Attaches, Undoes, Undoing, Moving
        <5>2. CASE FilesStay \/ Relocates(p) \/ Boxes(p) \/ Unboxes(p)
          BY <3>3, <5>2 DEF FilesStay, Relocates, Boxes, Unboxes
        <5>3. CASE \E s \in New : Drops(p, s)
          BY <1>6, <3>3, <4>1, <5>3 DEF Drops, NoTree
        <5>. QED BY <5>1, <5>2, <5>3, WorkFiles DEF FileEffect
      <4>3. Left(p, r)
        BY <1>3, <3>3, <3>5, <4>2 DEF Plan, Source, Op
      <4>4. ~(pc[p] = "remove" /\ r \in mem[p].todo /\ r \notin journal[Source(p)].intended)
        <5>1. SUFFICES ASSUME pc[p] = "remove", r \in mem[p].todo
                       PROVE  r \in journal[Source(p)].intended
          OBVIOUS
        <5>2. r \notin Members
          BY <1>2, <5>1, WorksFreely
        <5>. QED BY <1>3, <3>3, <4>2, <5>2
      <4>. QED BY <2>1, <3>3, <3>5, <4>1, <4>3, <4>4
    <3>. QED BY <3>1, <3>4, <3>5
  <2>2. CASE q # p
    <3>1. pc'[q] = pc[q] /\ mem'[q] = mem[q]
      BY <2>2, Others
    <3>2. Removing(q)
      BY <1>11, <3>1 DEF Removing, Undoes
    <3>3. Holds(q) /\ mem[q].op \in Operations /\ Used(mem[q].op)
      BY <3>2, Holder DEF Removing, Undoes, Undoing, Moving, Op
    <3>4. FilesStay /\ UNCHANGED journal /\ Evidence'[mem[q].op] = Evidence[mem[q].op]
      BY <1>5, <2>2, <3>3, Others
    <3>5. Left(q, r)
      BY <1>3, <1>11, <3>1, <3>2, <3>4 DEF FilesStay
    <3>. QED BY <3>1, <3>5 DEF Left
  <2>. QED BY <2>1, <2>2
<1>. QED BY <1>9, <1>10, <1>11

\* What others do leaves nothing behind.
LEMMA OutsideRemains ==
    ASSUME Safe, Traces, Remains,
           UNCHANGED <<rows, rowId, place, journal, unresolved>>,
           lease = NoLease <=> lease' = NoLease, lease # NoLease => lease'.op = lease.op,
           \A p \in Processes : \/ pc'[p] = pc[p] /\ mem'[p] = mem[p]
                                \/ pc'[p] \in {"idle", "locate", "decide"},
           \A r \in New :
             \/ tree'[r].listed = tree[r].listed
                /\ (tree'[r].dir = tree[r].dir \/ (tree[r].dir = None /\ tree'[r].dir = 0))
             \/ unresolved # None /\ lease = NoLease /\ tree'[r] = NoTree
    PROVE  Traces' /\ Remains'
<1>. USE DEF Safe, Orderly, Structured
<1>1. Members' = Members /\ UNCHANGED Evidence
  BY StillChained DEF Members
<1>2. NoneLate' => NoneLate
  BY DEF NoneLate, Late
<1>3. None \notin Operations /\ 0 \notin Operations
  BY NoneIsNothing, AdditionAssumption DEF Operations
<1>4. \A r \in New, e \in Operations : tree'[r].dir = e => tree[r].dir = e
  BY <1>3 DEF NoTree
<1>5. ASSUME NEW p \in Processes,
             pc'[p] \in {"mkdir", "identity", "attach"} \/ Removing(p)'
      PROVE  /\ pc'[p] = pc[p] /\ mem'[p] = mem[p] /\ lease # NoLease
             /\ mem[p].op \in Operations /\ journal[mem[p].op] \in JournalType
  <2>1. pc'[p] = pc[p] /\ mem'[p] = mem[p]
    BY <1>5 DEF Removing, Undoes, Undoing, Moving
  <2>2. pc[p] \notin {"idle", "locate", "admit", "fail"}
    BY <1>5, <2>1 DEF Removing, Undoes, Undoing, Moving
  <2>. QED BY <2>1, <2>2, Holder DEF Holds, Op
<1>6. Traces'
  <2>1. \A r \in New : tree'[r].listed => tree'[r].dir \in Operations
    BY <1>3 DEF Traces, NoTree
  <2>2. ASSUME NEW p \in Processes, pc'[p] \in {"identity", "attach"}
        PROVE  tree'[mem'[p].cur].dir = mem'[p].op
    <3>1. /\ pc'[p] = pc[p] /\ mem'[p] = mem[p] /\ lease # NoLease /\ mem[p].op \in Operations
      BY <1>5, <2>2
    <3>2. mem[p].cur \in New
      BY <2>2, <3>1 DEF Typed, Control, LocalOK, MemoryType
    <3>3. tree[mem[p].cur].dir = mem[p].op
      BY <2>2, <3>1 DEF Traces
    <3>. QED BY <1>3, <3>1, <3>2, <3>3
  <2>3. \A p \in Processes : pc'[p] \in {"mkdir", "identity", "attach"} =>
          mem'[p].cur \in journal'[mem'[p].op].intended
    BY <1>5 DEF Traces
  <2>. QED BY <2>1, <2>2, <2>3 DEF Traces
<1>7. Remains'
  <2>1. SUFFICES ASSUME NoneLate'
                 PROVE  /\ \A r \in New, e \in Operations : r \notin Members' /\ tree'[r].dir = e =>
                             /\ Open(e)' /\ r \in journal'[e].plan.adds
                             /\ r \in journal'[e].intended
                        /\ \A r \in New : rows'[r] = "failed" =>
                             /\ unresolved' # None /\ r \in journal'[unresolved'].plan.adds
                             /\ rowId'[r] = Evidence'[unresolved']
                        /\ \A q \in Processes : Removing(q)' =>
                             \A r \in journal'[mem'[q].op].plan.adds :
                               tree'[r].dir = Evidence'[mem'[q].op] => Left(q, r)'
    BY DEF Remains
  <2>2. \A e \in Operations : Open(e) => Open(e)'
    BY <1>1 DEF Open
  <2>3. \A r \in New, e \in Operations : r \notin Members /\ tree[r].dir = e =>
          Open(e) /\ r \in journal[e].plan.adds /\ r \in journal[e].intended
    BY <1>2, <2>1 DEF Remains
  <2>4. ASSUME NEW q \in Processes, Removing(q)', NEW r \in journal'[mem'[q].op].plan.adds,
               tree'[r].dir = Evidence'[mem'[q].op]
        PROVE  Left(q, r)'
    <3>1. /\ pc'[q] = pc[q] /\ mem'[q] = mem[q] /\ mem[q].op \in Operations
          /\ journal[mem[q].op] \in JournalType
      BY <1>5, <2>4
    <3>2. r \in journal[mem[q].op].plan.adds /\ r \in New
      BY <2>4, <3>1 DEF JournalType, PlanType
    <3>3. Evidence[mem[q].op] \in Operations
      BY <3>1, ChainedEvidence DEF EvidenceType
    <3>4. Removing(q) /\ tree[r].dir = Evidence[mem[q].op]
      BY <1>1, <1>4, <2>4, <3>1, <3>2, <3>3 DEF Removing, Undoes
    <3>5. Left(q, r)
      BY <1>2, <2>1, <3>2, <3>4 DEF Remains
    <3>. QED BY <3>1, <3>5 DEF Left
  <2>5. \A r \in New : rows'[r] = "failed" =>
          /\ unresolved' # None /\ r \in journal'[unresolved'].plan.adds
          /\ rowId'[r] = Evidence'[unresolved']
    BY <1>1, <1>2, <2>1 DEF Remains
  <2>. QED BY <1>1, <1>4, <2>2, <2>3, <2>4, <2>5
<1>. QED BY <1>6, <1>7

\* Every step leaves nothing of what is over.
LEMMA StepRemains == ASSUME Safe, Traces, Remains, [Next]_vars PROVE Traces' /\ Remains'
<1>1. CASE UNCHANGED vars
  BY <1>1, OutsideRemains DEF vars
<1>2. CASE Environment
  <2>1. EnvironmentEffect
    BY <1>2, EnvironmentDoes DEF Safe, Orderly, Structured
  <2>2. \A r \in New :
          \/ tree'[r].listed = tree[r].listed
             /\ (tree'[r].dir = tree[r].dir \/ (tree[r].dir = None /\ tree'[r].dir = 0))
          \/ unresolved # None /\ lease = NoLease /\ tree'[r] = NoTree
    BY <2>1 DEF EnvironmentEffect, FilesStay
  <2>3. /\ UNCHANGED <<rows, rowId, place, journal, unresolved, pc, mem>>
        /\ lease = NoLease <=> lease' = NoLease
        /\ lease # NoLease => lease'.op = lease.op
    BY <2>1 DEF EnvironmentEffect
  <2>. QED BY <2>2, <2>3, OutsideRemains
<1>3. ASSUME NEW p \in Processes, Start(p) \/ Crash(p) PROVE Traces' /\ Remains'
  <2>1. /\ UNCHANGED <<tree, rows, rowId, place, journal, unresolved>>
        /\ \A q \in Processes : \/ pc'[q] = pc[q] /\ mem'[q] = mem[q]
                                \/ pc'[q] \in {"idle", "locate", "decide"}
        /\ lease = NoLease <=> lease' = NoLease
        /\ lease # NoLease => lease'.op = lease.op
    BY <1>3, OutsideStay DEF Safe, Orderly, Structured, FilesStay, RowsStay
  <2>. QED BY <2>1, OutsideRemains
<1>4. ASSUME NEW p \in Processes, Work(p) PROVE Traces' /\ Remains'
  BY <1>4, WorkTraces, WorkRemains DEF Safe
<1>. QED BY <1>1, <1>2, <1>3, <1>4 DEF Next

\* There is nothing at first.
LEMMA InitRemains == ASSUME Init PROVE Traces /\ Remains
<1>1. /\ \A r \in New : rows[r] = "none" /\ tree[r] = NoTree
      /\ \A p \in Processes : pc[p] = "idle"
  BY DEF Init
<1>2. ~NoTree.listed /\ NoTree.dir \notin Operations
  BY NoneIsNothing DEF NoTree
<1>. QED BY <1>1, <1>2 DEF Traces, Remains, Removing, Undoes, Undoing, Moving

\* All the parts of the invariant hold in every state.
THEOREM AdditionRemains == Spec => [](Safe /\ Traces /\ Remains)
<1>1. Init => Safe /\ Traces /\ Remains
  BY InitOrderly, InitLayout, InitContained, InitRemains DEF Safe
<1>2. Safe /\ Traces /\ Remains /\ [Next]_vars => (Safe /\ Traces /\ Remains)'
  BY StepOrderly, StepLayout, StepContained, StepRemains DEF Safe
<1>. QED BY <1>1, <1>2, PTL DEF Spec

\* An addition that is over and not unresolved has left all of itself or nothing,
\* whatever failed or died, and however often its undoing was itself interrupted
\* and resumed by others, unless a recovery is late (compensate, recover).
THEOREM AdditionsSettle == Spec => []Settled
<1>1. ASSUME Safe, Traces, Remains PROVE Settled
  <2>1. SUFFICES ASSUME lease = NoLease, unresolved = None, NoneLate
                 PROVE  InPlace /\ NoResidue
    BY DEF Settled, NoneLate
  <2>2. InPlace
    BY <1>1, <2>1, SettledInPlace DEF InTime
  <2>3. ASSUME NEW r \in New, r \notin Members
        PROVE  rows[r] = "none" /\ tree[r].dir \in {None, 0} /\ ~tree[r].listed
    <3>1. rows[r] \in RowStates /\ tree[r].dir \in {None} \cup 0..MaxOperations
      BY <1>1 DEF Safe, Orderly, Structured, Typed, StoreTyped, TreeType
    <3>2. rows[r] # "failed" /\ rows[r] # "attached"
      BY <1>1, <2>1, <2>3 DEF Remains, Members
    <3>3. tree[r].dir \notin Operations
      BY <1>1, <2>1, <2>3 DEF Remains, Open
    <3>4. tree[r].dir \in {None, 0}
      BY <3>1, <3>3, AdditionAssumption DEF Operations
    <3>. QED BY <1>1, <3>1, <3>2, <3>3, <3>4 DEF RowStates, Traces
  <2>. QED BY <2>2, <2>3 DEF NoResidue
<1>. QED BY <1>1, AdditionRemains, PTL
===============================================================================
