------------------------------- MODULE Origins --------------------------------
(***************************************************************************)
(* Origin repositories: the clones that trees makes and the rows that      *)
(* record a repository.                                                    *)
(*                                                                         *)
(* A URL that no valid row has is cloned under the file lock of the URL.   *)
(* The intent to clone is a row of pending_origin_clones, the files are    *)
(* proved to belong to it by a marker file in their directory, and the     *)
(* publication replaces the intent by a row of origin_repositories.  What  *)
(* a process that failed or died left behind is removed by the next        *)
(* process that wants the URL, if the marker proves whose it is.           *)
(*                                                                         *)
(* Abstractions.  One URL: URLs have locks, intents and directories of     *)
(* their own.  A repository is the number of the intent that made it, and  *)
(* Own is a repository that a user cloned from the same URL.  Of a clone   *)
(* the model tells the directory ("bare"), the directory with its marker   *)
(* ("marked") and the repository in it ("cloned"); a marker that is not    *)
(* complete proves nothing, which is "bare".  The identity of a repository *)
(* does not change.  A reference is a worktree or a pool that names a row. *)
(***************************************************************************)
EXTENDS Naturals, FiniteSets

CONSTANTS
    Cloners,   \* the concurrent processes that use origin repositories
    Nobody,    \* no process
    MaxIds,    \* bound: identifiers drawn
    MaxFaults  \* bound: steps that fail, processes that die, clones lost

Own == 0
Clones == 1..MaxIds
Repositories == {Own} \cup Clones

ASSUME OriginsAssumption ==
    /\ Nobody \notin Cloners
    /\ MaxIds \in Nat /\ MaxFaults \in Nat

VARIABLES
    urlLock,  \* who holds the lock file of the URL
    pending,  \* pending_origin_clones: the intent for the URL, 0 for none
    row,      \* origin_repositories: the id that records a repository, or 0
    refs,     \* the ids that repo_worktrees and pools refer to
    clone,    \* what is on disk of a repository
    ids,      \* the identifiers drawn so far
    opc,      \* the next step of each process
    subject,  \* the repository or the id that a process works on
    ofaults   \* faults left

originStore == <<pending, row, refs, ids>>
originVars  == <<urlLock, pending, row, refs, clone, ids, opc, subject, ofaults>>

OriginsInit ==
    /\ urlLock = Nobody /\ pending = 0 /\ refs = {} /\ ids = 0
    /\ row = [r \in Repositories |-> 0]
    /\ clone = [r \in Repositories |-> IF r = Own THEN "cloned" ELSE "absent"]
    /\ opc = [p \in Cloners |-> "idle"]
    /\ subject = [p \in Cloners |-> 0]
    /\ ofaults = MaxFaults

Recorded == {row[r] : r \in Repositories} \ {0}

\* find_url: the recorded repositories that are there and have the URL.
Known == {r \in Repositories : row[r] # 0 /\ clone[r] = "cloned"}

Step(p, from, to) == opc[p] = from /\ opc' = [opc EXCEPT ![p] = to]
On(p, r) == subject' = [subject EXCEPT ![p] = r]
Fault == ofaults > 0 /\ ofaults' = ofaults - 1
Unlock(p) == urlLock' = IF urlLock = p THEN Nobody ELSE urlLock

(***************************************************************************)
(* A command resolves its repositories.                                    *)
(***************************************************************************)

\* The catalogue is read before the lock: a URL it has is used as it is, and
\* one that it has twice is refused.
Resolve(p) ==
    /\ \/ /\ Known = {}
          /\ Step(p, "idle", "reserve") /\ UNCHANGED subject
       \/ /\ Cardinality(Known) = 1
          /\ Step(p, "idle", "ensure") /\ \E r \in Known : On(p, r)
    /\ UNCHANGED <<urlLock, originStore, clone, ofaults>>

\* A user names a repository by its path, a clone of trees too.
Name(p) ==
    /\ Step(p, "idle", "ensure")
    /\ \E r \in Repositories : clone[r] = "cloned" /\ On(p, r)
    /\ UNCHANGED <<urlLock, originStore, clone, ofaults>>

\* ensure_origin_repository: by identity, and a new row has a new id.
Ensure(p) ==
    LET r == subject[p] IN
    /\ \/ /\ row[r] # 0
          /\ Step(p, "ensure", "refer") /\ On(p, row[r]) /\ UNCHANGED <<row, ids>>
       \/ /\ row[r] = 0 /\ ids < MaxIds
          /\ ids' = ids + 1 /\ Step(p, "ensure", "refer") /\ On(p, ids')
          /\ row' = [row EXCEPT ![r] = ids']
       \/ /\ row[r] = 0 /\ ids = MaxIds \* the bound: the command fails
          /\ Step(p, "ensure", "idle") /\ On(p, 0) /\ UNCHANGED <<row, ids>>
    /\ UNCHANGED <<urlLock, pending, refs, clone, ofaults>>

\* Mutant: a connection that does not turn the foreign keys on.
ForeignKeysOff(id) == TRUE
\* The row of a reference has to exist: PRAGMA foreign_keys is on.
ForeignKey(id) == id \in Recorded

\* A creation or an addition registers its worktrees, in a later transaction.
Refer(p) ==
    /\ Step(p, "refer", "idle") /\ On(p, 0)
    /\ refs' = refs \cup {id \in {subject[p]} : ForeignKey(id)}
    /\ UNCHANGED <<urlLock, pending, row, clone, ids, ofaults>>

(***************************************************************************)
(* Provisioning.                                                           *)
(***************************************************************************)

\* Mutant: the lock is advisory and a process that finds it taken goes on.
LockIgnored(p) == TRUE
LockFree(p) == urlLock = Nobody

\* reserve: the lock of the URL, or "provisioning is already in progress".
Reserve(p) ==
    /\ IF LockFree(p)
       THEN Step(p, "reserve", "lookup") /\ urlLock' = p
       ELSE Step(p, "reserve", "idle") /\ UNCHANGED urlLock
    /\ UNCHANGED <<originStore, clone, subject, ofaults>>

\* Mutant: the lookup is not repeated once the lock is held.
KnownBefore == {}
\* The catalogue as it is under the lock.
KnownUnderLock == Known

\* reserve, under the lock: a row, the abandoned intent, or a new intent.
Lookup(p) ==
    /\ \/ /\ Cardinality(KnownUnderLock) = 1
          /\ Step(p, "lookup", "ensure") /\ Unlock(p)
          /\ \E r \in KnownUnderLock : On(p, r)
          /\ UNCHANGED <<pending, ids>>
       \/ /\ Cardinality(KnownUnderLock) > 1
          /\ Step(p, "lookup", "idle") /\ Unlock(p)
          /\ UNCHANGED <<subject, pending, ids>>
       \/ /\ KnownUnderLock = {} /\ pending = 0 /\ ids = MaxIds \* the bound
          /\ Step(p, "lookup", "idle") /\ Unlock(p)
          /\ UNCHANGED <<subject, pending, ids>>
       \/ /\ KnownUnderLock = {} /\ pending # 0
          /\ Step(p, "lookup", "clean") /\ On(p, pending)
          /\ UNCHANGED <<urlLock, pending, ids>>
       \/ /\ KnownUnderLock = {} /\ pending = 0 /\ ids < MaxIds
          /\ ids' = ids + 1 /\ pending' = ids' /\ On(p, ids')
          /\ Step(p, "lookup", "create") /\ UNCHANGED urlLock
    /\ UNCHANGED <<row, refs, clone, ofaults>>

\* Mutant: a row is not found once its intent is consumed.
FoundWithIntent(c) == row[c] = c /\ pending = c
\* origin::find, by the id of the intent.
Found(c) == row[c] = c

\* Mutant: the marker is never found to prove the owner of a directory.
NeverProvable(c) == FALSE
\* clean_partial: whose row is published, or whose directory is not there,
\* has nothing to clean; without its marker a directory is left alone.
Nothing(c) == Found(c) \/ clone[c] = "absent"
Provable(c) == clone[c] \in {"marked", "cloned"}

CleanPartial(p, from, to) ==
    LET c == subject[p] IN
    /\ opc[p] = from
    /\ \/ /\ Nothing(c)
          /\ Step(p, from, to) /\ UNCHANGED <<urlLock, clone, subject, ofaults>>
       \/ /\ ~Nothing(c) /\ Provable(c)
          /\ Step(p, from, to) /\ clone' = [clone EXCEPT ![c] = "absent"]
          /\ UNCHANGED <<urlLock, subject, ofaults>>
       \/ /\ ~Nothing(c) /\ ~Provable(c)
          /\ Step(p, from, "idle") /\ Unlock(p) /\ On(p, 0)
          /\ UNCHANGED <<clone, ofaults>>
       \/ /\ ~Nothing(c) /\ Provable(c) /\ Fault
          \* remove_dir_all stops half-way, before or after the marker.
          /\ Step(p, from, "idle") /\ Unlock(p) /\ On(p, 0)
          /\ \E left \in {"bare", "marked"} : clone' = [clone EXCEPT ![c] = left]
    /\ UNCHANGED originStore

\* clone_reserved: its steps, each of which may fail.
Make(p, from, needs, makes, to) ==
    LET c == subject[p] IN
    /\ opc[p] = from
    /\ \/ /\ clone[c] = needs
          /\ Step(p, from, to) /\ clone' = [clone EXCEPT ![c] = makes]
          /\ UNCHANGED ofaults
       \/ /\ clone[c] # needs
          /\ Step(p, from, "failed") /\ UNCHANGED <<clone, ofaults>>
       \/ Fault /\ Step(p, from, "failed") /\ UNCHANGED clone
    /\ UNCHANGED <<urlLock, originStore, subject>>

Clean(p) == CleanPartial(p, "clean", "create")
CreateContainer(p) == Make(p, "create", "absent", "bare", "mark")
WriteMarker(p) == Make(p, "mark", "bare", "marked", "clone")
GitClone(p) == Make(p, "clone", "marked", "cloned", "publish")

\* publish_clone: one transaction, refused when the repository has a row; its
\* acknowledgement may be lost.
Publish(p) ==
    LET c == subject[p] IN
    /\ opc[p] = "publish"
    /\ \/ /\ row[c] = 0
          /\ row' = [row EXCEPT ![c] = c] /\ pending' = 0
          /\ \/ Step(p, "publish", "ensure") /\ Unlock(p) /\ UNCHANGED ofaults
             \/ Fault /\ Step(p, "publish", "failed") /\ UNCHANGED urlLock
       \/ /\ \/ row[c] # 0 /\ UNCHANGED ofaults
             \/ Fault
          /\ Step(p, "publish", "failed") /\ UNCHANGED <<row, pending, urlLock>>
    /\ UNCHANGED <<refs, clone, ids, subject>>

\* provision: the failure may have been that of an acknowledgement.
AfterFailure(p) ==
    /\ \/ /\ Found(subject[p])
          /\ Step(p, "failed", "ensure") /\ Unlock(p)
       \/ /\ ~Found(subject[p])
          /\ Step(p, "failed", "undo") /\ UNCHANGED urlLock
    /\ UNCHANGED <<originStore, clone, subject, ofaults>>

Undo(p) == CleanPartial(p, "undo", "forget")

\* delete_pending.
Forget(p) ==
    /\ Step(p, "forget", "idle") /\ Unlock(p) /\ On(p, 0)
    /\ \/ /\ pending' = IF pending = subject[p] THEN 0 ELSE pending
          /\ UNCHANGED ofaults
       \/ Fault /\ UNCHANGED pending
    /\ UNCHANGED <<row, refs, clone, ids>>

(***************************************************************************)
(* `trees remove` of the id of an origin repository: its row only.         *)
(***************************************************************************)

Preflight(p) ==
    /\ Step(p, "idle", "confirm")
    /\ \E id \in Recorded \ refs : On(p, id)
    /\ UNCHANGED <<urlLock, originStore, clone, ofaults>>

RemoveOrigin(p) ==
    /\ Step(p, "confirm", "idle") /\ On(p, 0)
    /\ row' = [r \in Repositories |->
                 IF row[r] = subject[p] /\ subject[p] \notin refs THEN 0 ELSE row[r]]
    /\ UNCHANGED <<urlLock, pending, refs, clone, ids, ofaults>>

(***************************************************************************)
(* A process dies, which gives its lock back; a user deletes a repository. *)
(***************************************************************************)

Die(p) ==
    /\ opc[p] # "idle" /\ Fault
    /\ opc' = [opc EXCEPT ![p] = "idle"] /\ On(p, 0) /\ Unlock(p)
    /\ UNCHANGED <<originStore, clone>>

Lose ==
    /\ Fault
    /\ \E r \in Repositories :
          clone[r] = "cloned" /\ clone' = [clone EXCEPT ![r] = "absent"]
    /\ UNCHANGED <<urlLock, originStore, opc, subject>>

Provision(p) ==
    \/ Reserve(p) \/ Lookup(p) \/ Clean(p) \/ CreateContainer(p)
    \/ WriteMarker(p) \/ GitClone(p) \/ Publish(p) \/ AfterFailure(p)
    \/ Undo(p) \/ Forget(p)

OriginWork(p) == Provision(p) \/ Ensure(p) \/ Refer(p) \/ RemoveOrigin(p)

OriginsNext ==
    \/ \E p \in Cloners :
          Resolve(p) \/ Name(p) \/ OriginWork(p) \/ Preflight(p) \/ Die(p)
    \/ Lose

\* A URL that has no usable origin is asked for.
Ask == \E p \in Cloners : Resolve(p) /\ Known = {}

-------------------------------------------------------------------------------

OriginsTypeOK ==
    /\ urlLock \in Cloners \cup {Nobody}
    /\ pending \in {0} \cup Clones
    /\ row \in [Repositories -> {0} \cup Clones]
    /\ refs \in SUBSET Clones
    /\ clone \in [Repositories -> {"absent", "bare", "marked", "cloned"}]
    /\ ids \in 0..MaxIds
    /\ opc \in [Cloners -> {"idle", "reserve", "lookup", "clean", "create", "mark",
                            "clone", "publish", "failed", "undo", "forget",
                            "ensure", "refer", "confirm"}]
    /\ subject \in [Cloners -> Repositories]
    /\ ofaults \in 0..MaxFaults

\* The published clones of the URL that can be used.
Published == {c \in Clones : row[c] = c /\ clone[c] = "cloned"}

\* Trees never clones a URL twice: of the clones that provisioning published,
\* at most one is recorded and usable, whoever raced for the lock, whatever
\* failed and whichever retry finished the work (reservation.rs reserve, whose
\* lookup is repeated under the lock).
OneManagedClone == Cardinality(Published) <= 1

\* Those who are at work on the directory of an intent.
Building(c) ==
    {p \in Cloners : subject[p] = c /\
        opc[p] \in {"clean", "create", "mark", "clone", "publish", "failed",
                    "undo", "forget"}}

\* Recovery does not take over a live operation: an intent that looks abandoned
\* is cleaned by a process only when no other process is building or undoing it
\* (the lock of the URL outlives the reservation, CloneReservation._lock).
NoTakeover == \A c \in Clones : Cardinality(Building(c)) <= 1

\* No process removes files of a clone that is recorded under the id it was
\* published with: not by the undoing of a publication whose acknowledgement was
\* lost, nor by a recovery (recovery.rs clean_partial, provision.rs provision).
CloneSurvives ==
    [][(\E p \in Cloners : OriginWork(p)) =>
         \A c \in Published : clone'[c] = "cloned"]_originVars

\* A worktree never refers to a repository that has no row, although a row may
\* be removed between the command that found it and the transaction that
\* registers the worktree (storage/removal.rs remove_origin).
ReferencesResolve == refs \subseteq Recorded

\* An intent does not stay for ever: it is published or given up, unless no
\* marker proves whose its directory is, or the URL has a usable origin so that
\* nothing asks for the clone any more (recovery.rs; the retry is assumed).
IntentsEnd ==
    pending # 0 ~> \/ pending = 0
                   \/ clone[pending] = "bare"
                   \/ Known # {}

OriginsSpec == OriginsInit /\ [][OriginsNext]_originVars
===============================================================================
