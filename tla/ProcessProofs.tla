----------------------------- MODULE ProcessProofs -----------------------------
(*****************************************************************************)
(* The safety properties of the parts that run beside one another, or beside *)
(* other processes: the clones of an origin repository, the session of a     *)
(* workspace, the query of a hook and the observation of processes.  They are *)
(* proved for every value of the constants, the bounds included.             *)
(*                                                                           *)
(* Each section has the inductive invariant of one part, the steps that keep *)
(* it, and what follows from it.                                             *)
(*****************************************************************************)
EXTENDS Origins, Sessions, HookRunner, ProcessProbe, FiniteSetTheorems, TLAPS

(*****************************************************************************)
(* Origin repositories.  The lock of the URL belongs to the one process that *)
(* is between its reservation and the end of its provisioning.  That process *)
(* alone moves the intent, and until it publishes no clone of the URL is     *)
(* recorded and usable: the lookup under the lock said so, and an identifier *)
(* is never drawn twice.                                                     *)
(*****************************************************************************)

Provisioning == {"lookup", "clean", "create", "mark", "clone", "publish", "failed",
                 "undo", "forget"}

\* Whoever provisions the URL holds its lock, and nobody else does.
LockOK == \A p \in Cloners : opc[p] \in Provisioning <=> urlLock = p

\* What has an identifier has one that was drawn.
IdsOK ==
    /\ pending <= ids
    /\ \A p \in Cloners : subject[p] <= ids
    /\ \A r \in Repositories : row[r] <= ids /\ (clone[r] # "absent" => r <= ids)

\* The intent is not published, and who makes its clone knows that there is no
\* other one.
IntentOK ==
    /\ pending # 0 => row[pending] # pending
    /\ \A p \in Cloners : opc[p] \in {"clean", "create", "mark", "clone", "publish"} =>
          subject[p] = pending /\ pending # 0 /\ Published = {}
    /\ \A c, d \in Published : c = d

OriginsInv == OriginsTypeOK /\ LockOK /\ IdsOK /\ IntentOK /\ ReferencesResolve

\* Nobody works and nothing is recorded to begin with.
LEMMA OriginsInitInv == OriginsInit => OriginsInv
<1>. SUFFICES ASSUME OriginsInit PROVE OriginsInv
  OBVIOUS
<1>1. OriginsTypeOK
  BY OriginsAssumption DEF OriginsInit, OriginsTypeOK, Repositories, Own, Clones
<1>2. LockOK
  BY OriginsAssumption DEF OriginsInit, LockOK, Provisioning
<1>3. IdsOK
  BY DEF OriginsInit, IdsOK, Repositories, Own, Clones
<1>4. IntentOK /\ ReferencesResolve
  BY OriginsAssumption
  DEF OriginsInit, IntentOK, Published, ReferencesResolve, Repositories, Own, Clones
<1>. QED BY <1>1, <1>2, <1>3, <1>4 DEF OriginsInv

(***************************************************************************)
(* Types.                                                                  *)
(***************************************************************************)

\* Every step of a process keeps the types.
LEMMA ActionTypes ==
    ASSUME NEW p \in Cloners, OriginsTypeOK,
           Resolve(p) \/ Name(p) \/ OriginWork(p) \/ Preflight(p) \/ Die(p)
    PROVE  OriginsTypeOK'
<1>. USE OriginsAssumption DEF OriginsTypeOK, originStore, Repositories, Own, Clones, Step, On,
         Unlock, Fault
<1>1. CASE Resolve(p)
  BY <1>1 DEF Resolve, Known
<1>2. CASE Name(p)
  BY <1>2 DEF Name
<1>3. CASE Ensure(p)
  BY <1>3 DEF Ensure
<1>4. CASE Refer(p)
  BY <1>4 DEF Refer, ForeignKey, Recorded
<1>5. CASE Reserve(p)
  BY <1>5 DEF Reserve
<1>6. CASE Lookup(p)
  BY <1>6 DEF Lookup, KnownUnderLock, Known
<1>7. CASE Clean(p)
  BY <1>7 DEF Clean, CleanPartial
<1>8. CASE CreateContainer(p)
  BY <1>8 DEF CreateContainer, Make
<1>9. CASE WriteMarker(p)
  BY <1>9 DEF WriteMarker, Make
<1>10. CASE GitClone(p)
  BY <1>10 DEF GitClone, Make
<1>11. CASE Publish(p)
  BY <1>11 DEF Publish
<1>12. CASE AfterFailure(p)
  BY <1>12 DEF AfterFailure
<1>13. CASE Undo(p)
  BY <1>13 DEF Undo, CleanPartial
<1>14. CASE Forget(p)
  BY <1>14 DEF Forget
<1>15. CASE RemoveOrigin(p)
  BY <1>15 DEF RemoveOrigin
<1>16. CASE Preflight(p)
  BY <1>16 DEF Preflight, Recorded
<1>17. CASE Die(p)
  BY <1>17 DEF Die
<1>. QED
  BY <1>1, <1>2, <1>3, <1>4, <1>5, <1>6, <1>7, <1>8, <1>9, <1>10, <1>11, <1>12, <1>13,
     <1>14, <1>15, <1>16, <1>17 DEF OriginWork, Provision

(***************************************************************************)
(* The lock and the identifiers.                                           *)
(***************************************************************************)

\* A step of a process moves its own program counter, from where the action
\* starts; every action but a reservation is of one who has the lock, and keeps
\* it, or gives it back, or is of one who does not have it.
LEMMA ActionLock ==
    ASSUME NEW p \in Cloners, OriginsTypeOK, LockOK,
           Resolve(p) \/ Name(p) \/ OriginWork(p) \/ Preflight(p) \/ Die(p)
    PROVE  LockOK'
<1>. USE OriginsAssumption DEF OriginsTypeOK, LockOK, Provisioning, Step, Unlock
<1>1. CASE Resolve(p)
  BY <1>1 DEF Resolve
<1>2. CASE Name(p)
  BY <1>2 DEF Name
<1>3. CASE Ensure(p)
  BY <1>3 DEF Ensure
<1>4. CASE Refer(p)
  BY <1>4 DEF Refer
<1>5. CASE Reserve(p)
  BY <1>5 DEF Reserve, LockFree
<1>6. CASE Lookup(p)
  BY <1>6 DEF Lookup
<1>7. CASE Clean(p)
  BY <1>7 DEF Clean, CleanPartial
<1>8. CASE CreateContainer(p)
  BY <1>8 DEF CreateContainer, Make
<1>9. CASE WriteMarker(p)
  BY <1>9 DEF WriteMarker, Make
<1>10. CASE GitClone(p)
  BY <1>10 DEF GitClone, Make
<1>11. CASE Publish(p)
  BY <1>11 DEF Publish
<1>12. CASE AfterFailure(p)
  BY <1>12 DEF AfterFailure
<1>13. CASE Undo(p)
  BY <1>13 DEF Undo, CleanPartial
<1>14. CASE Forget(p)
  BY <1>14 DEF Forget
<1>15. CASE RemoveOrigin(p)
  BY <1>15 DEF RemoveOrigin
<1>16. CASE Preflight(p)
  BY <1>16 DEF Preflight
<1>17. CASE Die(p)
  BY <1>17 DEF Die
<1>. QED
  BY <1>1, <1>2, <1>3, <1>4, <1>5, <1>6, <1>7, <1>8, <1>9, <1>10, <1>11, <1>12, <1>13,
     <1>14, <1>15, <1>16, <1>17 DEF OriginWork, Provision

\* Identifiers are drawn by Ensure and by Lookup; the other steps move them.
LEMMA ActionIds ==
    ASSUME NEW p \in Cloners, OriginsTypeOK, IdsOK,
           Resolve(p) \/ Name(p) \/ OriginWork(p) \/ Preflight(p) \/ Die(p)
    PROVE  IdsOK'
<1>. USE OriginsAssumption
     DEF OriginsTypeOK, IdsOK, originStore, Repositories, Own, Clones, Step, On
<1>1. CASE Resolve(p)
  BY <1>1 DEF Resolve, Known
<1>2. CASE Name(p)
  BY <1>2 DEF Name
<1>3. CASE Ensure(p)
  BY <1>3 DEF Ensure
<1>4. CASE Refer(p)
  BY <1>4 DEF Refer
<1>5. CASE Reserve(p)
  BY <1>5 DEF Reserve
<1>6. CASE Lookup(p)
  BY <1>6 DEF Lookup, KnownUnderLock, Known
<1>7. CASE Clean(p)
  BY <1>7 DEF Clean, CleanPartial
<1>8. CASE CreateContainer(p)
  BY <1>8 DEF CreateContainer, Make
<1>9. CASE WriteMarker(p)
  BY <1>9 DEF WriteMarker, Make
<1>10. CASE GitClone(p)
  BY <1>10 DEF GitClone, Make
<1>11. CASE Publish(p)
  BY <1>11 DEF Publish
<1>12. CASE AfterFailure(p)
  BY <1>12 DEF AfterFailure
<1>13. CASE Undo(p)
  BY <1>13 DEF Undo, CleanPartial
<1>14. CASE Forget(p)
  BY <1>14 DEF Forget
<1>15. CASE RemoveOrigin(p)
  BY <1>15 DEF RemoveOrigin
<1>16. CASE Preflight(p)
  BY <1>16 DEF Preflight, Recorded
<1>17. CASE Die(p)
  BY <1>17 DEF Die
<1>. QED
  BY <1>1, <1>2, <1>3, <1>4, <1>5, <1>6, <1>7, <1>8, <1>9, <1>10, <1>11, <1>12, <1>13,
     <1>14, <1>15, <1>16, <1>17 DEF OriginWork, Provision

(***************************************************************************)
(* The intent and the published clones.                                    *)
(***************************************************************************)

\* The publication that the lookup under the lock allows is the only one: the
\* intent is moved by the holder of the lock, an identifier that Ensure draws is
\* not the one of a clone, and the removals only remove.
LEMMA ActionIntent ==
    ASSUME NEW p \in Cloners, OriginsTypeOK, LockOK, IdsOK, IntentOK,
           Resolve(p) \/ Name(p) \/ OriginWork(p) \/ Preflight(p) \/ Die(p)
    PROVE  IntentOK'
<1>. USE OriginsAssumption
     DEF OriginsTypeOK, IntentOK, originStore, Repositories, Own, Clones, Step, On, Published
<1>1. CASE Resolve(p)
  BY <1>1 DEF Resolve
<1>2. CASE Name(p)
  BY <1>2 DEF Name
<1>3. CASE Ensure(p)
  BY <1>3 DEF Ensure, IdsOK
<1>4. CASE Refer(p)
  BY <1>4 DEF Refer
<1>5. CASE Reserve(p)
  BY <1>5 DEF Reserve
<1>6. CASE Lookup(p)
  BY <1>6 DEF Lookup, KnownUnderLock, Known, IdsOK, LockOK, Provisioning
<1>7. CASE Clean(p)
  BY <1>7 DEF Clean, CleanPartial
<1>8. CASE CreateContainer(p)
  BY <1>8 DEF CreateContainer, Make
<1>9. CASE WriteMarker(p)
  BY <1>9 DEF WriteMarker, Make
<1>10. CASE GitClone(p)
  BY <1>10 DEF GitClone, Make
<1>11. CASE Publish(p)
  BY <1>11 DEF Publish, LockOK, Provisioning
<1>12. CASE AfterFailure(p)
  BY <1>12 DEF AfterFailure
<1>13. CASE Undo(p)
  BY <1>13 DEF Undo, CleanPartial
<1>14. CASE Forget(p)
  BY <1>14 DEF Forget, LockOK, Provisioning
<1>15. CASE RemoveOrigin(p)
  BY <1>15 DEF RemoveOrigin
<1>16. CASE Preflight(p)
  BY <1>16 DEF Preflight
<1>17. CASE Die(p)
  BY <1>17 DEF Die
<1>. QED
  BY <1>1, <1>2, <1>3, <1>4, <1>5, <1>6, <1>7, <1>8, <1>9, <1>10, <1>11, <1>12, <1>13,
     <1>14, <1>15, <1>16, <1>17 DEF OriginWork, Provision

\* A reference is made to a recorded id, and only the removal of an origin takes a
\* row away, which it does not do to an id that is referred to.
LEMMA ActionReferences ==
    ASSUME NEW p \in Cloners, OriginsTypeOK, IntentOK, ReferencesResolve,
           Resolve(p) \/ Name(p) \/ OriginWork(p) \/ Preflight(p) \/ Die(p)
    PROVE  ReferencesResolve'
<1>. USE OriginsAssumption DEF OriginsTypeOK, ReferencesResolve, originStore, Repositories,
         Own, Clones, Recorded
<1>1. CASE UNCHANGED <<row, refs>>
  BY <1>1
<1>2. CASE Ensure(p)
  BY <1>2 DEF Ensure
<1>3. CASE Refer(p)
  BY <1>3 DEF Refer, ForeignKey
<1>4. CASE Publish(p)
  BY <1>4 DEF Publish
<1>5. CASE RemoveOrigin(p)
  BY <1>5 DEF RemoveOrigin
<1>. QED
  BY <1>1, <1>2, <1>3, <1>4, <1>5 DEF Resolve, Name, Preflight, Die, OriginWork, Provision,
     Reserve, Lookup, Clean, CleanPartial, CreateContainer, WriteMarker, GitClone, Make,
     AfterFailure, Undo, Forget

(***************************************************************************)
(* The invariant and what follows from it.                                 *)
(***************************************************************************)

\* Every step keeps the invariant of the origin repositories.
LEMMA OriginsNextInv == OriginsInv /\ [OriginsNext]_originVars => OriginsInv'
<1>. SUFFICES ASSUME OriginsInv, [OriginsNext]_originVars PROVE OriginsInv'
  OBVIOUS
<1>1. CASE \E p \in Cloners :
              Resolve(p) \/ Name(p) \/ OriginWork(p) \/ Preflight(p) \/ Die(p)
  BY <1>1, ActionTypes, ActionLock, ActionIds, ActionIntent, ActionReferences DEF OriginsInv
<1>2. CASE Lose
  BY <1>2, OriginsAssumption
  DEF OriginsInv, OriginsTypeOK, LockOK, IdsOK, IntentOK, ReferencesResolve, Published,
      Recorded, Lose, Fault, originStore, Repositories, Own, Clones
<1>3. CASE UNCHANGED originVars
  BY <1>3
  DEF originVars, OriginsInv, OriginsTypeOK, LockOK, IdsOK, IntentOK, ReferencesResolve,
      Published, Recorded
<1>. QED BY <1>1, <1>2, <1>3 DEF OriginsNext

\* The lock, the identifiers and the intent fit together in every state
\* (origin/reservation.rs, origin/provision.rs, origin/recovery.rs).
THEOREM OriginsInvariant == OriginsSpec => []OriginsInv
BY OriginsInitInv, OriginsNextInv, PTL DEF OriginsSpec

\* The types of the variables (the rows of origin_repositories and
\* pending_origin_clones, what is on disk, and the step of each process).
THEOREM OriginsTypes == OriginsSpec => []OriginsTypeOK
<1>1. OriginsInv => OriginsTypeOK
  BY DEF OriginsInv
<1>. QED BY <1>1, OriginsInvariant, PTL

\* trees never has two clones of its own of one URL, however many processes ask
\* for it and whatever fails (origin/reservation.rs reserve, whose lookup is
\* repeated under the lock).
THEOREM OriginIsManagedOnce == OriginsSpec => []OneManagedClone
<1>1. ASSUME OriginsInv PROVE OneManagedClone
  <2>1. CASE Published = {}
    BY <2>1, FS_EmptySet DEF OneManagedClone
  <2>2. CASE Published # {}
    <3>1. PICK c \in Published : TRUE
      BY <2>2
    <3>2. Published = {c}
      BY <1>1, <3>1 DEF OriginsInv, IntentOK
    <3>3. Cardinality({c}) = 1
      BY FS_Singleton, Zenon
    <3>. QED BY <3>2, <3>3 DEF OneManagedClone
  <2>. QED BY <2>1, <2>2
<1>. QED BY <1>1, OriginsInvariant, PTL

\* The clone of an intent is built, cleaned or undone by one process at a time,
\* since all of that is done under the lock of the URL, which outlives the
\* reservation (origin/reservation.rs CloneReservation).
THEOREM OriginIsNotTakenOver == OriginsSpec => []NoTakeover
<1>1. ASSUME OriginsInv PROVE NoTakeover
  <2>. SUFFICES ASSUME NEW c \in Clones PROVE Cardinality(Building(c)) <= 1
    BY DEF NoTakeover
  <2>1. Building(c) \subseteq {urlLock}
    BY <1>1 DEF OriginsInv, LockOK, Provisioning, Building
  <2>2. Building(c) = {} \/ Building(c) = {urlLock}
    BY <2>1
  <2>3. Cardinality({urlLock}) = 1 /\ Cardinality({}) = 0
    BY FS_EmptySet, FS_Singleton, Zenon
  <2>. QED BY <2>2, <2>3
<1>. QED BY <1>1, OriginsInvariant, PTL

\* A worktree or a pool refers to a row that exists, although the row may be
\* removed between the command that found it and the transaction that refers to
\* it (storage/removal.rs remove_origin).
THEOREM OriginReferencesResolve == OriginsSpec => []ReferencesResolve
<1>1. OriginsInv => ReferencesResolve
  BY DEF OriginsInv
<1>. QED BY <1>1, OriginsInvariant, PTL

\* A process that cleans or undoes a clone leaves those that are published, its
\* own too when only the acknowledgement was lost (origin/recovery.rs
\* clean_partial).
THEOREM OriginClonesSurvive == OriginsSpec => CloneSurvives
<1>1. ASSUME OriginsTypeOK, NEW p \in Cloners, OriginWork(p), NEW c \in Published
      PROVE  clone'[c] = "cloned"
  <2>. USE <1>1 DEF OriginsTypeOK, Published, Repositories, Clones, Own
  <2>1. CASE UNCHANGED clone
    BY <2>1
  <2>2. CASE Clean(p) \/ Undo(p)
    BY <2>2 DEF Clean, Undo, CleanPartial, Nothing, Found
  <2>3. CASE CreateContainer(p) \/ WriteMarker(p) \/ GitClone(p)
    BY <2>3 DEF CreateContainer, WriteMarker, GitClone, Make
  <2>. QED
    BY <2>1, <2>2, <2>3 DEF OriginWork, Provision, Reserve, Lookup, Publish, AfterFailure,
       Forget, Ensure, Refer, RemoveOrigin
<1>2. OriginsTypeOK =>
        [(\E p \in Cloners : OriginWork(p)) =>
           \A c \in Published : clone'[c] = "cloned"]_originVars
  BY <1>1
<1>. QED BY <1>2, OriginsTypes, PTL DEF CloneSurvives, OriginsSpec

(*****************************************************************************)
(* Sessions.  What the loop knows of the program and of its claim is so, and *)
(* whatever it has not seen will wake it.                                    *)
(*****************************************************************************)

\* Outside of the supervision no program runs, a session that has an exit code is
\* over, and a handler has recorded its request before it writes.
Supervised ==
    /\ spc \in {"new", "install", "spawn", "release", "check"} =>
          child \in {"none", "reaped"}
    /\ code # "none" => spc = "over"
    /\ \A h \in handlers : h[2] = "write"

\* The loop never goes to sleep over news: while it sleeps, or is about to, the
\* end of the program and a request to terminate that it has not seen have left
\* a byte in the pipe, or a handler that is about to write one.
NoLostWakeup ==
    \/ spc \in {"swap", "kill", "poll"} /\ child = "zombie"
    \/ spc \in {"kill", "poll"} /\ terminate
    => wakeup \/ \E h \in handlers : h[2] = "write"

SessionInv == SessionTypeOK /\ Supervised /\ ZeroMeansReleased /\ NoLostWakeup

\* A session starts with nothing acquired and nothing to hear of.
LEMMA SessionInitInv == SessionInit => SessionInv
<1>1. 0 \in 0..MaxErrors /\ MaxErrors \in 0..MaxErrors /\ MaxSignals \in 0..MaxSignals
  BY SessionAssumption
<1>2. SessionInit => SessionTypeOK
  BY <1>1 DEF SessionInit, SessionTypeOK
<1>. QED
  BY <1>2 DEF SessionInit, SessionInv, Supervised, ZeroMeansReleased, NoLostWakeup

\* Every step of a session keeps the types.
LEMMA SessionTypes ==
    ASSUME SessionTypeOK, SessionNext
    PROVE  SessionTypeOK'
<1>. USE DEF SessionTypeOK, Goes, notices, ExitCode
<1>. Errs => errors' \in 0..MaxErrors
  BY SessionAssumption DEF Errs
<1>1. CASE ResetRequests
  BY <1>1 DEF ResetRequests
<1>2. CASE Install
  <2>1. spc' \in {"spawn", "release"} /\ installed' \in BOOLEAN /\ errors' \in 0..MaxErrors
        /\ outcome' \in {"none", "zero", "nonzero", "supervision", "start", "wait"}
    BY <1>2 DEF Install
  <2>. QED BY <1>2, <2>1 DEF Install
<1>3. CASE SpawnChild
  BY <1>3 DEF SpawnChild
<1>4. CASE TryWait
  BY <1>4 DEF TryWait, Waited, CanRelease
<1>5. CASE Swap
  BY <1>5 DEF Swap
<1>6. CASE KillChild
  BY <1>6 DEF KillChild, Waited, CanRelease
<1>7. CASE Poll
  BY <1>7 DEF Poll, Waited, CanRelease
<1>8. CASE Drain
  BY <1>8 DEF Drain
<1>9. CASE Release
  BY <1>9 DEF Release
<1>10. CASE CheckClaim
  <2>1. shells' \in 0..MaxErrors
    BY <1>10, SessionAssumption DEF CheckClaim
  <2>. QED BY <1>10, <2>1 DEF CheckClaim
<1>11. CASE Signal
  <2>1. signals' \in 0..MaxSignals
    BY <1>11, SessionAssumption DEF Signal
  <2>2. PICK signal \in {"term", "int"} :
          /\ terminate' = (terminate \/ signal = "term")
          /\ handlers' = handlers \cup {<<signal, "write">>} /\ UNCHANGED wakeup
          /\ told' = (told /\ signal # "term")
    BY <1>11 DEF Signal, Notify, StoreFirst, Handled
  <2>. QED BY <1>11, <2>1, <2>2 DEF Signal
<1>12. CASE HandlerEnds
  BY <1>12 DEF HandlerEnds
<1>13. CASE ChildExits
  BY <1>13 DEF ChildExits, Notify, StoreFirst, Handled
<1>14. CASE Others
  BY <1>14 DEF Others
<1>. QED
  BY <1>1, <1>2, <1>3, <1>4, <1>5, <1>6, <1>7, <1>8, <1>9, <1>10, <1>11, <1>12, <1>13,
     <1>14 DEF SessionNext, SessionStep

\* Every step keeps the claims about the exit code, the program and the wakeup.
LEMMA SessionInvNext ==
    ASSUME SessionInv, SessionNext
    PROVE  Supervised' /\ ZeroMeansReleased' /\ NoLostWakeup'
<1>. USE DEF SessionInv, SessionTypeOK, Supervised, ZeroMeansReleased, NoLostWakeup, Goes,
         Errs, notices, ExitCode
<1>1. CASE ResetRequests
  BY <1>1 DEF ResetRequests
<1>2. CASE Install
  BY <1>2 DEF Install
<1>3. CASE SpawnChild
  BY <1>3 DEF SpawnChild
<1>4. CASE TryWait
  BY <1>4 DEF TryWait, Waited, CanRelease
<1>5. CASE Swap
  BY <1>5 DEF Swap
<1>6. CASE KillChild
  BY <1>6 DEF KillChild, Waited, CanRelease
<1>7. CASE Poll
  BY <1>7 DEF Poll, Waited, CanRelease
<1>8. CASE Drain
  BY <1>8 DEF Drain
<1>9. CASE Release
  BY <1>9 DEF Release, OwnerOnly
<1>10. CASE CheckClaim
  BY <1>10 DEF CheckClaim, ReadFailureIsError
<1>11. CASE Signal
  <2>1. PICK signal \in {"term", "int"} : handlers' = handlers \cup {<<signal, "write">>}
    BY <1>11 DEF Signal, Notify, StoreFirst, Handled
  <2>2. <<signal, "write">> \in handlers' /\ <<signal, "write">>[2] = "write"
    BY <2>1
  <2>3. \A h \in handlers' : h[2] = "write"
    BY <2>1
  <2>. QED BY <1>11, <2>2, <2>3 DEF Signal
<1>12. CASE HandlerEnds
  <2>1. PICK h \in handlers : handlers' = handlers \ {h}
                               /\ wakeup' = (wakeup \/ h[2] = "write")
                               /\ terminate' = (terminate \/ h = <<"term", "store">>)
    BY <1>12 DEF HandlerEnds
  <2>2. h[2] = "write" /\ <<"term", "store">>[2] # "write"
    OBVIOUS
  <2>3. wakeup' /\ terminate' = terminate
    BY <2>1, <2>2
  <2>. QED BY <1>12, <2>1, <2>3 DEF HandlerEnds
<1>13. CASE ChildExits
  <2>1. <<"child", "write">> \in handlers' /\ <<"child", "write">>[2] = "write"
    BY <1>13 DEF ChildExits, Notify, StoreFirst, Handled
  <2>2. \A h \in handlers' : h[2] = "write"
    BY <1>13 DEF ChildExits, Notify, StoreFirst, Handled
  <2>. QED BY <1>13, <2>1, <2>2 DEF ChildExits
<1>14. CASE Others
  BY <1>14 DEF Others
<1>. QED
  BY <1>1, <1>2, <1>3, <1>4, <1>5, <1>6, <1>7, <1>8, <1>9, <1>10, <1>11, <1>12, <1>13,
     <1>14 DEF SessionNext, SessionStep

\* Every step, and none, keeps the invariant of the session.
LEMMA SessionInvStep == SessionInv /\ [SessionNext]_sessionVars => SessionInv'
<1>1. SessionInv /\ UNCHANGED sessionVars => SessionInv'
  BY DEF SessionInv, SessionTypeOK, Supervised, ZeroMeansReleased, NoLostWakeup, sessionVars
<1>. QED BY <1>1, SessionTypes, SessionInvNext DEF SessionInv

\* The invariant of a session holds in every state.
THEOREM SessionInvariant == SessionSpec => []SessionInv
  BY SessionInitInv, SessionInvStep, PTL DEF SessionSpec

\* A session exits with zero only when its program succeeded and its claim is
\* released, whatever failed or was interrupted (exit_code, cleanup_after).
THEOREM SessionTellsTheTruth == SessionSpec => []ZeroMeansReleased
<1>1. SessionInv => ZeroMeansReleased
  BY DEF SessionInv
<1>. QED BY <1>1, SessionInvariant, PTL

\* A session releases its claim only when no program of it may run any more, and
\* only its own claim (cleanup_after, release_original).
THEOREM SessionReleasesItsOwn == SessionSpec => ReleasesOnlyItsOwn
<1>1. SessionInv =>
        [Release /\ claimed' # claimed =>
            child \in {"none", "reaped"} /\ claimed = "mine"]_sessionVars
  BY DEF SessionInv, Supervised, Release, OwnerOnly
<1>. QED BY <1>1, SessionInvariant, PTL DEF ReleasesOnlyItsOwn

\* While the loop of a session sleeps, a signal that it has not seen has left a
\* byte in its pipe, or has a handler that is about to: no news is slept over.
THEOREM SessionHearsEverything == SessionSpec => []NoLostWakeup
<1>1. SessionInv => NoLostWakeup
  BY DEF SessionInv
<1>. QED BY <1>1, SessionInvariant, PTL

(*****************************************************************************)
(* The query of a hook.  The threads report once, the main thread goes on only *)
(* with output that is whole, and the guard knows every process that is left. *)
(*****************************************************************************)

\* The report of a thread was received.
Reported(t) == thread[t] = "ended" /\ \A e \in reports : e.pipe # t
Count(t) == IF Reported(t) THEN 1 ELSE 0

\* Every thread reports once, and the main thread counts what it received.
ReportsOK ==
    /\ \A e \in reports : thread[e.pipe] = "ended"
    /\ \A e, f \in reports : e.pipe = f.pipe => e = f
    /\ completed = Count("input") + Count("output") + Count("errors")

\* While the query goes on, nothing is cut off, and the output that was received
\* is neither too long nor a failure that was not noted.
GoesOn == main \in {"spawn", "threads", "check", "receive"}
OutputOK ==
    GoesOn =>
        /\ ~cancelled /\ answer = NoAnswer
        /\ \A e \in reports : e.outcome # "cut"
        /\ output = "none" => ~Reported("output")
        /\ output \in {"none", "whole", "failed"} /\ (output = "failed" => failed)

ProcessesOK ==
    /\ main = "spawn" => hook = "none"
    /\ hook = "none" => descendant = "none" /\ main \in {"spawn", "done"}
    /\ main \in {"wait", "done"} => hook # "running" /\ descendant # "group"
    /\ main = "done" => hook \in {"none", "reaped"}

HookInv ==
    HookTypeOK /\ ReportsOK /\ OutputOK /\ ProcessesOK /\ AnswersAreWhole

\* A query starts with no process, thread or report.
LEMMA HookInitInv == HookInit => HookInv
<1>. SUFFICES ASSUME HookInit PROVE HookInv
  OBVIOUS
<1>1. HookTypeOK
  <2>1. thread \in [Pipes -> {"none", "running", "ended"}]
    BY DEF HookInit
  <2>2. answer.entries \subseteq Asked /\ reports \subseteq [pipe : Pipes, outcome : Outcomes]
        /\ completed \in 0..3
    BY DEF HookInit, NoAnswer
  <2>. QED BY <2>1, <2>2 DEF HookInit, HookTypeOK
<1>2. \A t \in Pipes : thread[t] = "none"
  BY DEF HookInit
<1>3. ReportsOK
  BY <1>2 DEF HookInit, ReportsOK, Count, Reported, Pipes
<1>4. OutputOK /\ ProcessesOK /\ AnswersAreWhole
  BY <1>2 DEF HookInit, OutputOK, ProcessesOK, AnswersAreWhole, NoAnswer, Reported, Pipes
<1>. QED BY <1>1, <1>3, <1>4 DEF HookInv

\* Every step of a query keeps the types; a report that is received was sent.
LEMMA HookTypes ==
    ASSUME HookTypeOK, ReportsOK, HookNext
    PROVE  HookTypeOK'
<1>. USE DEF HookTypeOK, processes
<1>1. CASE Spawn
  BY <1>1 DEF Spawn, Unavailable
<1>2. CASE StartThread
  <2>1. main' \in {"threads", "check", "cancel"} /\ answer' \in {answer, Unavailable}
    BY <1>2 DEF StartThread
  <2>3. answer'.entries \subseteq Asked
    BY <2>1 DEF Unavailable
  <2>2. thread' \in [Pipes -> {"none", "running", "ended"}]
    BY <1>2 DEF StartThread
  <2>. QED BY <1>2, <2>1, <2>2, <2>3 DEF StartThread
<1>3. CASE Check
  <2>1. answer' \in Decoded \/ answer' = Unavailable \/ answer' = answer
    BY <1>3 DEF Check
  <2>2. answer'.entries \subseteq Asked
    BY <2>1 DEF Decoded, Unavailable
  <2>3. main' \in {"cancel", "receive"} /\ hook' \in {"reaped", hook}
    BY <1>3 DEF Check
  <2>. QED BY <1>3, <2>2, <2>3 DEF Check
<1>4. CASE Receive
  <2>1. ASSUME NEW e \in reports,
               reports' = reports \ {e}, completed' = completed + 1,
               failed' = (failed \/ e.outcome = "failed"),
               output' = IF e.pipe = "output" THEN e.outcome ELSE output,
               IF e.outcome = "overflow"
               THEN main' = "cancel" /\ answer' = Unavailable
               ELSE main' = "check" /\ UNCHANGED answer
        PROVE  HookTypeOK'
    <3>1. ~Reported(e.pipe) /\ e.pipe \in Pipes /\ e.outcome \in Outcomes
      BY DEF Reported
    <3>2. completed' \in 0..3
      BY <2>1, <3>1 DEF ReportsOK, Count, Pipes
    <3>3. answer'.entries \subseteq Asked
      BY <2>1 DEF Unavailable
    <3>. QED BY <1>4, <2>1, <3>1, <3>2, <3>3 DEF Receive
  <2>2. CASE main' = "check" /\ UNCHANGED <<reports, completed, failed, output, answer>>
    BY <1>4, <2>2 DEF Receive
  <2>. QED BY <1>4, <2>1, <2>2 DEF Receive
<1>5. CASE Cancel
  BY <1>5 DEF Cancel, Cancelled
<1>6. CASE Kill
  BY <1>6 DEF Kill, KillGroup
<1>7. CASE Wait
  BY <1>7 DEF Wait
<1>8. CASE Expire
  BY <1>8 DEF Expire
<1>9. ASSUME NEW t \in Pipes, ThreadEnds(t) PROVE HookTypeOK'
  <2>1. \A e \in Ends(t) : e \in [pipe : Pipes, outcome : Outcomes]
    BY DEF Ends
  <2>. QED BY <1>9, <2>1 DEF ThreadEnds
<1>10. CASE HookExits
  BY <1>10 DEF HookExits
<1>11. CASE Fork
  BY <1>11 DEF Fork
<1>12. CASE DescendantExits
  BY <1>12 DEF DescendantExits
<1>. QED
  BY <1>1, <1>2, <1>3, <1>4, <1>5, <1>6, <1>7, <1>8, <1>9, <1>10, <1>11, <1>12
  DEF HookNext, MainStep

\* What is left of the group of a hook is known to the guard until it is killed
\* and waited for (runner.rs Guard).
LEMMA HookProcesses ==
    ASSUME HookTypeOK, ProcessesOK, HookNext
    PROVE  ProcessesOK'
  BY DEF HookNext, MainStep, Spawn, StartThread, Check, Receive, Cancel, Kill, KillGroup,
     Wait, Expire, ThreadEnds, HookExits, Fork, DescendantExits, processes, ProcessesOK,
     HookTypeOK

\* A thread of the query reports once, and the main thread counts what it takes.
LEMMA HookReports ==
    ASSUME HookTypeOK, ReportsOK, HookNext
    PROVE  ReportsOK'
<1>. USE DEF HookTypeOK
<1>1. CASE UNCHANGED <<thread, reports, completed>>
  BY <1>1 DEF ReportsOK, Count, Reported
<1>2. ASSUME NEW t \in Pipes, thread[t] = "none",
             thread' = [thread EXCEPT ![t] = "running"], UNCHANGED <<reports, completed>>
      PROVE  ReportsOK'
  <2>1. \A u \in Pipes : Reported(u)' <=> Reported(u)
    BY <1>2 DEF Reported
  <2>2. \A e \in reports : e.pipe # t
    BY <1>2 DEF ReportsOK
  <2>. QED BY <1>2, <2>1, <2>2 DEF ReportsOK, Count, Pipes
<1>3. ASSUME NEW e \in reports, reports' = reports \ {e}, completed' = completed + 1,
             UNCHANGED thread
      PROVE  ReportsOK'
  <2>1. e.pipe \in Pipes /\ ~Reported(e.pipe) /\ Reported(e.pipe)'
    BY <1>3 DEF Reported, ReportsOK
  <2>2. \A u \in Pipes : u # e.pipe => (Reported(u)' <=> Reported(u))
    BY <1>3 DEF Reported
  <2>3. completed' = Count("input")' + Count("output")' + Count("errors")'
    BY <1>3, <2>1, <2>2 DEF ReportsOK, Count, Pipes
  <2>. QED BY <1>3, <2>3 DEF ReportsOK
<1>4. ASSUME NEW t \in Pipes, ThreadEnds(t) PROVE ReportsOK'
  <2>1. PICK e \in Ends(t) : reports' = reports \cup {e}
    BY <1>4 DEF ThreadEnds
  <2>2. e.pipe = t /\ thread[t] = "running" /\ thread' = [thread EXCEPT ![t] = "ended"]
        /\ completed' = completed
    BY <1>4, <2>1 DEF Ends, ThreadEnds
  <2>3. \A u \in Pipes : Reported(u)' <=> Reported(u)
    BY <2>1, <2>2 DEF Reported
  <2>4. \A f \in reports : f.pipe # t
    BY <2>2 DEF ReportsOK
  <2>5. completed' = Count("input")' + Count("output")' + Count("errors")'
    BY <2>2, <2>3 DEF ReportsOK, Count, Pipes
  <2>. QED BY <2>1, <2>2, <2>4, <2>5 DEF ReportsOK
<1>5. \/ UNCHANGED <<thread, reports, completed>>
      \/ \E t \in Pipes : thread[t] = "none" /\ thread' = [thread EXCEPT ![t] = "running"]
                          /\ UNCHANGED <<reports, completed>>
      \/ \E e \in reports : reports' = reports \ {e} /\ completed' = completed + 1
                            /\ UNCHANGED thread
      \/ \E t \in Pipes : ThreadEnds(t)
  BY DEF HookNext, MainStep, Spawn, StartThread, Check, Receive, Cancel, Kill, Wait,
     Expire, HookExits, Fork, DescendantExits
<1>. QED BY <1>1, <1>2, <1>3, <1>4, <1>5

\* The main thread goes on only with output that is neither too long nor cut off.
LEMMA HookOutput ==
    ASSUME HookTypeOK, ReportsOK, OutputOK, HookNext
    PROVE  OutputOK'
<1>. USE DEF HookTypeOK, OutputOK, GoesOn, processes
<1>1. CASE Spawn
  BY <1>1 DEF Spawn, Reported
<1>2. CASE StartThread
  BY <1>2 DEF StartThread, Reported, Pipes
<1>3. CASE Check
  BY <1>3 DEF Check, Reported
<1>4. CASE Receive
  <2>1. ASSUME NEW e \in reports,
               reports' = reports \ {e},
               failed' = (failed \/ e.outcome = "failed"),
               output' = IF e.pipe = "output" THEN e.outcome ELSE output,
               IF e.outcome = "overflow"
               THEN main' = "cancel" /\ answer' = Unavailable
               ELSE main' = "check" /\ UNCHANGED answer,
               UNCHANGED <<thread, cancelled>>
        PROVE  OutputOK'
    <3>1. e.outcome \in Outcomes /\ e.pipe \in Pipes
      OBVIOUS
    <3>2. main = "receive" /\ main' \in {"check", "cancel"}
      BY <1>4, <2>1 DEF Receive
    <3>3. CASE e.pipe = "output"
      BY <2>1, <3>1, <3>2, <3>3 DEF Outcomes
    <3>4. CASE e.pipe # "output"
      <4>1. Reported("output")' => Reported("output")
        BY <2>1, <3>4 DEF Reported
      <4>. QED BY <2>1, <3>1, <3>2, <3>4, <4>1
    <3>. QED BY <3>3, <3>4
  <2>2. CASE main' = "check" /\ UNCHANGED <<reports, completed, failed, output, answer>>
    BY <1>4, <2>2 DEF Receive, Reported
  <2>. QED BY <1>4, <2>1, <2>2 DEF Receive
<1>5. CASE Cancel \/ Kill \/ Wait
  BY <1>5 DEF Cancel, Kill, Wait
<1>6. CASE Expire \/ HookExits \/ Fork \/ DescendantExits
  BY <1>6 DEF Expire, HookExits, Fork, DescendantExits, Reported
<1>7. ASSUME NEW t \in Pipes, ThreadEnds(t) PROVE OutputOK'
  <2>1. PICK e \in Ends(t) : reports' = reports \cup {e}
    BY <1>7 DEF ThreadEnds
  <2>2. e.pipe = t /\ thread[t] = "running" /\ thread' = [thread EXCEPT ![t] = "ended"]
    BY <1>7, <2>1 DEF Ends, ThreadEnds
  <2>3. ~cancelled => e.outcome # "cut"
    BY <2>1 DEF Ends
  <2>4. Reported("output")' => Reported("output")
    BY <2>1, <2>2 DEF Reported, Pipes
  <2>. QED BY <1>7, <2>1, <2>3, <2>4 DEF ThreadEnds
<1>. QED BY <1>1, <1>2, <1>3, <1>4, <1>5, <1>6, <1>7 DEF HookNext, MainStep

\* An answer is taken only from a hook that succeeded, whose output was read whole.
LEMMA HookAnswers ==
    ASSUME HookTypeOK, ReportsOK, OutputOK, AnswersAreWhole, HookNext
    PROVE  AnswersAreWhole'
<1>. USE DEF HookTypeOK, AnswersAreWhole, processes
<1>1. CASE Check
  <2>1. CASE answer'.status \in {"complete", "partial"} /\ answer' # answer
    <3>1. ~expired /\ completed = 3 /\ hook' = "reaped" /\ success /\ ~failed
      BY <1>1, <2>1 DEF Check, Unavailable, AllReports
    <3>2. Reported("output")
      BY <3>1 DEF ReportsOK, Count
    <3>3. output = "whole"
      BY <1>1, <3>1, <3>2 DEF OutputOK, GoesOn, Check
    <3>. QED BY <1>1, <3>1, <3>3 DEF Check
  <2>2. CASE answer' = answer
    BY <1>1, <2>2 DEF Check
  <2>. QED BY <2>1, <2>2
<1>2. CASE Spawn \/ StartThread \/ Receive
  <2>1. answer' \in {answer, Unavailable} /\ GoesOn
    BY <1>2 DEF Spawn, StartThread, Receive, GoesOn
  <2>. QED BY <2>1 DEF OutputOK, NoAnswer, Unavailable
<1>3. CASE Cancel \/ Kill \/ Wait \/ Expire \/ HookExits \/ Fork \/ DescendantExits
  BY <1>3 DEF Cancel, Kill, Wait, Expire, HookExits, Fork, DescendantExits
<1>4. ASSUME NEW t \in Pipes, ThreadEnds(t) PROVE AnswersAreWhole'
  BY <1>4 DEF ThreadEnds
<1>. QED BY <1>1, <1>2, <1>3, <1>4 DEF HookNext, MainStep

\* Every step, and none, keeps the invariant of the query.
LEMMA HookInvStep == HookInv /\ [HookNext]_hookVars => HookInv'
<1>1. HookInv /\ UNCHANGED hookVars => HookInv'
  BY DEF HookInv, HookTypeOK, ReportsOK, Count, Reported, OutputOK, GoesOn, ProcessesOK,
     AnswersAreWhole, hookVars
<1>. QED
  BY <1>1, HookTypes, HookProcesses, HookReports, HookOutput, HookAnswers DEF HookInv

\* The invariant of a query holds in every state.
THEOREM HookInvariant == HookSpec => []HookInv
  BY HookInitInv, HookInvStep, PTL DEF HookSpec

\* An answer that is reported is the whole output of a hook that succeeded,
\* however its threads, its descendants and the deadline are interleaved
\* (runner.rs run).
THEOREM HookAnswersAreWhole == HookSpec => []AnswersAreWhole
<1>1. HookInv => AnswersAreWhole
  BY DEF HookInv
<1>. QED BY <1>1, HookInvariant, PTL

\* A query that is over has left no process of the hook's group and no zombie
\* (runner.rs Guard::drop).
THEOREM HookLeavesNothing == HookSpec => []NothingIsLeft
<1>1. HookInv => NothingIsLeft
  BY DEF HookInv, ProcessesOK, NothingIsLeft
<1>. QED BY <1>1, HookInvariant, PTL

(*****************************************************************************)
(* The observation of processes.  A PID with a start time is one process for *)
(* ever, so that what was read of it under that start time, at different times, *)
(* is of one process; and what stays where it is cannot be missed by a read. *)
(*****************************************************************************)

\* The world is well-formed: directories have their place, and what was cut off
\* from its place never comes back to it.
WorldOK ==
    /\ ProbeTypeOK
    /\ folder["inside"] \in 0..3 /\ folder["nested"] = 2
    /\ folder["outside"] \in 0..3 /\ folder["deleted"] \in {0, 4}
    /\ \A s, t \in Spots : folder[s] = folder[t] /\ folder[s] # 0 => s = t
    /\ \A n \in Pids :
          /\ holder[n].start \in 0..starts
          /\ holder[n].start # 0 => holder[n].cwd # 0
          /\ holder[n].start = 0 => holder[n] = NoHolder

\* The process that is looked at is still the one whose start time was read, or
\* its PID never has that start time again.
Same == holder[pid].start = before

\* Everything that is there now is in the history of the observation.
HistoryOK ==
    probe # "list" => WhereTheyAre \subseteq present /\ Users \subseteq users

Looking == probe \in {"user", "link", "stat", "path", "again", "user_again"}

\* What was read of the process so far was so at some moment of the observation.
ReadOK ==
    /\ probe = "list" => found = {}
    /\ Looking => pid \in Pids /\ before \in 1..starts
    /\ probe = "user" /\ Same /\ holder[pid].mine => <<pid, before>> \in users
    /\ probe \in {"link", "stat", "path", "again", "user_again"} /\ Same =>
          <<pid, before>> \in users
    /\ probe \in {"stat", "path"} /\ Same /\ link \notin {"none", "deleted"} =>
          <<pid, before, link>> \in present
    /\ probe = "path" /\ Same /\ link = "deleted" /\ inode = 4 /\ folder["deleted"] = 4 =>
          <<pid, before, link>> \in present
    /\ probe = "again" /\ Same /\ inode # 0 => <<pid, before, link>> \in present
    /\ probe = "user_again" =>
          /\ <<pid, before>> \in users
          /\ inode # 0 => <<pid, before, link>> \in present

\* A process that stays in the workspace is still to be looked at, was reported,
\* was counted, or is being looked at and nothing speaks against it.
UnderWay(w) ==
    /\ pid = w[1]
    /\ \/ probe \in {"user", "link"} /\ before = w[2]
       \/ probe = "stat" /\ before = w[2] /\ link \in {w[3], "none"}
       \/ /\ probe = "path" /\ before = w[2]
          /\ link = "none" \/ (link = w[3] /\ inode = folder[w[3]])
       \/ /\ probe \in {"again", "user_again"} /\ before = w[2]
          /\ inode = 0 \/ link = w[3]
       \/ probe = "confirm"

FollowsOK ==
    /\ steady \subseteq Working
    /\ probe = "list" => verdict = "none" /\ steady = {}
    /\ verdict # "none" => probe = "done"
    /\ verdict = "complete" => probe = "done" /\ todo = {} /\ ~trouble
    /\ probe # "list" /\ verdict # "unavailable" =>
          \A w \in steady : Boundaries(w[3]) = <<"target">> =>
              w[1] \in todo \/ w \in found \/ trouble \/ UnderWay(w)

ProbeInv ==
    WorldOK /\ HistoryOK /\ ReadOK /\ ReportedProcessWasThere /\ FollowsOK

\* An observation starts in a well-formed world with nothing read.
LEMMA ProbeInitInv == ProbeInit => ProbeInv
<1>. SUFFICES ASSUME ProbeInit PROVE ProbeInv
  OBVIOUS
<1>1. PICK n0 \in Pids, d \in Folders :
        holder = [q \in Pids |->
                    IF q = n0 THEN [start |-> 1, mine |-> TRUE, cwd |-> d, exited |-> FALSE]
                    ELSE NoHolder]
  BY DEF ProbeInit, Holders
<1>2. ProbeTypeOK
  <2>1. holder \in [Pids -> [start : 0..MaxStarts, mine : BOOLEAN,
                            cwd : {0} \cup Folders, exited : BOOLEAN]]
    BY <1>1, ProbeAssumption DEF NoHolder
  <2>2. folder \in [Spots -> {0} \cup Folders]
    BY DEF ProbeInit, Spots, Folders
  <2>3. starts \in 0..MaxStarts /\ events \in 0..MaxEvents /\ before \in 0..MaxStarts
    BY ProbeAssumption DEF ProbeInit
  <2>. QED BY <2>1, <2>2, <2>3 DEF ProbeInit, ProbeTypeOK
<1>3. WorldOK
  BY <1>1, <1>2 DEF ProbeInit, WorldOK, NoHolder, Spots, Folders
<1>4. HistoryOK /\ ReadOK
  BY DEF ProbeInit, HistoryOK, ReadOK, Looking
<1>5. ReportedProcessWasThere /\ FollowsOK
  BY DEF ProbeInit, ReportedProcessWasThere, FollowsOK
<1>. QED BY <1>3, <1>4, <1>5 DEF ProbeInv

\* A step that only reads leaves what is there as it is.
LEMMA ReadsKeep ==
    UNCHANGED world => /\ WhereTheyAre' = WhereTheyAre /\ Users' = Users
                       /\ Working' = Working
  BY DEF world, WhereTheyAre, Users, Working, Live

\* A read of the observation keeps the types.
LEMMA ReadTypes ==
    ASSUME ProbeTypeOK, ReadOK, ProbeStep
    PROVE  ProbeTypeOK'
<1>1. CASE List
  BY <1>1 DEF List, ProbeTypeOK, world
<1>2. CASE ReadIdentity
  BY <1>2 DEF ReadIdentity, ProbeTypeOK, Reads, world
<1>3. CASE ReadUser
  BY <1>3 DEF ReadUser, ProbeTypeOK, Reads, world, reading
<1>4. CASE ReadLink
  <2>1. \A d : NameOf(d) \in Spots
    BY DEF NameOf, Spots
  <2>. QED BY <1>4, <2>1 DEF ReadLink, ProbeTypeOK, Reads, world
<1>5. CASE StatLink
  BY <1>5 DEF StatLink, ProbeTypeOK, ReadOK, Looking, Reads, world
<1>6. CASE ResolvePath
  BY <1>6 DEF ResolvePath, ProbeTypeOK, Reads, world
<1>7. CASE ReadIdentityAgain
  BY <1>7 DEF ReadIdentityAgain, ProbeTypeOK, Reads, world, reading
<1>8. CASE ReadUserAgain
  BY <1>8 DEF ReadUserAgain, ProbeTypeOK, Reads, world
<1>9. CASE ConfirmExit
  BY <1>9 DEF ConfirmExit, ProbeTypeOK, Reads, world, Counted
<1>10. CASE Conclude
  BY <1>10 DEF Conclude, ProbeTypeOK, world
<1>. QED
  BY <1>1, <1>2, <1>3, <1>4, <1>5, <1>6, <1>7, <1>8, <1>9, <1>10 DEF ProbeStep

\* An event of the system changes the world and nothing of the probe.
Event ==
    \/ \E n \in Pids :
          Exits(n) \/ Reaped(n) \/ Starts(n) \/ ChangesUser(n) \/ ChangesDirectory(n)
    \/ Deleted("inside") \/ Deleted("deleted")
    \/ Renamed("inside", "outside") \/ Renamed("outside", "inside")

\* What an event does to the processes and the directories.
Moved ==
    /\ Changes /\ starts \in 0..starts'
    /\ \/ /\ folder' = folder
          /\ \E n \in Pids :
                /\ \A m \in Pids \ {n} : holder'[m] = holder[m]
                /\ \/ holder'[n].start \notin 0..starts /\ holder[n].start = 0
                   \/ holder'[n] = NoHolder
                   \/ /\ holder'[n].start = holder[n].start
                      /\ holder'[n].mine => holder[n].mine
       \/ holder' = holder /\ folder'["deleted"] \in {0, folder["deleted"]}

Process == [start : 0..MaxStarts, mine : BOOLEAN, cwd : {0} \cup Folders,
            exited : BOOLEAN]

\* A change of what a PID is keeps the world well-formed.
LEMMA HolderWorld ==
    ASSUME WorldOK, NEW n \in Pids, NEW h \in Process, SetHolder(n, h), Changes,
           folder' = folder, starts' \in starts..MaxStarts, h.start \in 0..starts',
           h.start # 0 => h.cwd # 0, h.start = 0 => h = NoHolder
    PROVE  WorldOK'
<1>1. holder' \in [Pids -> Process] /\ starts' \in 0..MaxStarts
  BY DEF WorldOK, ProbeTypeOK, SetHolder, Process
<1>2. ProbeTypeOK'
  <2>1. events' \in 0..MaxEvents
    BY ProbeAssumption DEF WorldOK, ProbeTypeOK, Changes
  <2>2. UNCHANGED reading /\ UNCHANGED probe
    BY DEF Changes
  <2>. QED BY <1>1, <2>1, <2>2 DEF WorldOK, ProbeTypeOK, reading, Process
<1>3. \A m \in Pids :
          /\ holder'[m].start \in 0..starts'
          /\ holder'[m].start # 0 => holder'[m].cwd # 0
          /\ holder'[m].start = 0 => holder'[m] = NoHolder
  <2>1. TAKE m \in Pids
  <2>2. CASE m = n
    BY <2>2 DEF WorldOK, ProbeTypeOK, SetHolder
  <2>3. CASE m # n
    <3>1. holder'[m] = holder[m]
      BY <2>3 DEF WorldOK, ProbeTypeOK, SetHolder
    <3>2. holder[m].start \in 0..starts /\ starts \in 0..MaxStarts
      BY DEF WorldOK, ProbeTypeOK
    <3>3. holder[m].start \in 0..starts'
      BY <3>2
    <3>. QED BY <3>1, <3>3 DEF WorldOK
  <2>. QED BY <2>2, <2>3
<1>. QED BY <1>2, <1>3 DEF WorldOK

\* A rename or a deletion of a directory keeps the world well-formed.
LEMMA FolderWorld ==
    ASSUME WorldOK, Changes, UNCHANGED <<holder, starts>>,
           NEW s \in Spots, NEW t \in Spots,
           \/ s \in {"inside", "deleted"} /\ folder' = [folder EXCEPT ![s] = 0]
           \/ /\ s \in {"inside", "outside"} /\ t \in {"inside", "outside"} /\ s # t
              /\ folder' = [folder EXCEPT ![s] = 0, ![t] = folder[s]]
    PROVE  WorldOK'
<1>1. folder' \in [Spots -> {0} \cup Folders]
  BY DEF WorldOK, ProbeTypeOK
<1>2. ProbeTypeOK'
  <2>1. events' \in 0..MaxEvents
    BY ProbeAssumption DEF WorldOK, ProbeTypeOK, Changes
  <2>2. UNCHANGED reading /\ UNCHANGED probe
    BY DEF Changes
  <2>. QED BY <1>1, <2>1, <2>2 DEF WorldOK, ProbeTypeOK, reading, Process
<1>3. /\ folder'["inside"] \in 0..3 /\ folder'["nested"] = 2
      /\ folder'["outside"] \in 0..3 /\ folder'["deleted"] \in {0, 4}
  BY DEF WorldOK, ProbeTypeOK, Spots
<1>4. \A u, v \in Spots : folder'[u] = folder'[v] /\ folder'[u] # 0 => u = v
  BY DEF WorldOK, ProbeTypeOK, Spots
<1>. QED BY <1>2, <1>3, <1>4 DEF WorldOK

\* Whatever happens beside the observation keeps the world well-formed.
LEMMA EventWorld ==
    ASSUME WorldOK, Event
    PROVE  WorldOK'
<1>. USE DEF WorldOK, ProbeTypeOK, Process
<1>1. ASSUME NEW n \in Pids, Exits(n) PROVE WorldOK'
  <2>. DEFINE h == [holder[n] EXCEPT !.exited = TRUE]
  <2>1. h \in Process /\ h.start = holder[n].start /\ h.cwd = holder[n].cwd /\ h.start # 0
    BY <1>1 DEF Exits, Live
  <2>2. starts \in starts..MaxStarts /\ h.start \in 0..starts
    BY <2>1
  <2>. QED BY <1>1, <2>1, <2>2, HolderWorld DEF Exits
<1>2. ASSUME NEW n \in Pids, Reaped(n) PROVE WorldOK'
  <2>1. NoHolder \in Process /\ NoHolder.start = 0 /\ starts \in starts..MaxStarts
        /\ 0 \in 0..starts
    BY ProbeAssumption DEF NoHolder, Folders
  <2>. QED BY <1>2, <2>1, HolderWorld DEF Reaped
<1>3. ASSUME NEW n \in Pids, Starts(n) PROVE WorldOK'
  <2>1. PICK mine \in BOOLEAN, s \in Spots :
          folder[s] # 0 /\ SetHolder(n, [start |-> starts', mine |-> mine,
                                         cwd |-> folder[s], exited |-> FALSE])
    BY <1>3 DEF Starts
  <2>. DEFINE h == [start |-> starts', mine |-> mine, cwd |-> folder[s], exited |-> FALSE]
  <2>2. starts' = starts + 1 /\ starts' \in starts..MaxStarts /\ starts' \in 0..starts' /\ starts' # 0
    BY <1>3, ProbeAssumption DEF Starts
  <2>3. h \in Process /\ h.start = starts' /\ h.cwd # 0
    BY <2>1, <2>2
  <2>. QED BY <1>3, <2>1, <2>2, <2>3, HolderWorld DEF Starts
<1>4. ASSUME NEW n \in Pids, ChangesUser(n) PROVE WorldOK'
  <2>. DEFINE h == [holder[n] EXCEPT !.mine = FALSE]
  <2>1. h \in Process /\ h.start = holder[n].start /\ h.cwd = holder[n].cwd /\ h.start # 0
    BY <1>4 DEF ChangesUser, Live
  <2>2. starts \in starts..MaxStarts /\ h.start \in 0..starts
    BY <2>1
  <2>. QED BY <1>4, <2>1, <2>2, HolderWorld DEF ChangesUser
<1>5. ASSUME NEW n \in Pids, ChangesDirectory(n) PROVE WorldOK'
  <2>1. PICK s \in Spots :
          folder[s] # 0 /\ SetHolder(n, [holder[n] EXCEPT !.cwd = folder[s]])
    BY <1>5 DEF ChangesDirectory
  <2>. DEFINE h == [holder[n] EXCEPT !.cwd = folder[s]]
  <2>2. h \in Process /\ h.start = holder[n].start /\ h.cwd # 0 /\ h.start # 0
    BY <1>5, <2>1 DEF ChangesDirectory, Live
  <2>3. starts \in starts..MaxStarts /\ h.start \in 0..starts
    BY <2>2
  <2>. QED BY <1>5, <2>1, <2>2, <2>3, HolderWorld DEF ChangesDirectory
<1>6. ASSUME NEW s \in {"inside", "deleted"}, Deleted(s) PROVE WorldOK'
  BY <1>6, FolderWorld DEF Deleted, Spots
<1>7. ASSUME NEW s \in {"inside", "outside"}, NEW t \in {"inside", "outside"}, Renamed(s, t)
      PROVE WorldOK'
  BY <1>7, FolderWorld DEF Renamed, Spots
<1>. QED BY <1>1, <1>2, <1>3, <1>4, <1>5, <1>6, <1>7 DEF Event

\* Whatever happens, time does not go back: a start time is not used twice, a
\* process does not become the user's, and a deleted directory stays deleted.
LEMMA EventMoves ==
    ASSUME WorldOK, Event
    PROVE  Moved
<1>. USE DEF WorldOK, ProbeTypeOK, Moved, SetHolder
<1>1. ASSUME NEW n \in Pids, Exits(n) PROVE Moved
  BY <1>1 DEF Exits
<1>2. ASSUME NEW n \in Pids, Reaped(n) PROVE Moved
  BY <1>2 DEF Reaped
<1>3. ASSUME NEW n \in Pids, Starts(n) PROVE Moved
  BY <1>3 DEF Starts
<1>4. ASSUME NEW n \in Pids, ChangesUser(n) PROVE Moved
  BY <1>4 DEF ChangesUser
<1>5. ASSUME NEW n \in Pids, ChangesDirectory(n) PROVE Moved
  BY <1>5 DEF ChangesDirectory
<1>6. ASSUME NEW s \in {"inside", "deleted"}, Deleted(s) PROVE Moved
  BY <1>6 DEF Deleted, Spots
<1>7. ASSUME NEW s \in {"inside", "outside"}, NEW t \in {"inside", "outside"}, Renamed(s, t)
      PROVE Moved
  BY <1>7 DEF Renamed, Spots
<1>. QED BY <1>1, <1>2, <1>3, <1>4, <1>5, <1>6, <1>7 DEF Event

\* A read of the observation changes nothing of what it reads.
LEMMA ReadWorld ==
    ASSUME WorldOK, ReadOK, ProbeStep
    PROVE  UNCHANGED world /\ WorldOK'
<1>1. UNCHANGED world
  BY DEF ProbeStep, List, ReadIdentity, ReadUser, ReadLink, StatLink, ResolvePath,
     ReadIdentityAgain, ReadUserAgain, ConfirmExit, Conclude, Reads
<1>2. ProbeTypeOK'
  BY ReadTypes DEF WorldOK
<1>. QED BY <1>1, <1>2 DEF WorldOK, world

\* A read starts the history, and leaves it as it is afterwards.
LEMMA ReadHistory ==
    ASSUME WorldOK, HistoryOK, ReadOK, ProbeStep
    PROVE  HistoryOK'
<1>1. UNCHANGED world
  BY ReadWorld
<1>2. WhereTheyAre' = WhereTheyAre /\ Users' = Users
  BY <1>1, ReadsKeep
<1>3. CASE List
  BY <1>2, <1>3 DEF List, HistoryOK
<1>4. CASE ~List
  <2>1. UNCHANGED history /\ probe # "list"
    BY <1>4 DEF ProbeStep, ReadIdentity, ReadUser, ReadLink, StatLink, ResolvePath,
       ReadIdentityAgain, ReadUserAgain, ConfirmExit, Conclude, Reads
  <2>. QED BY <1>2, <2>1 DEF HistoryOK, history
<1>. QED BY <1>3, <1>4

\* A process of the user that is there is in the history, and so is its place.
LEMMA SeenNow ==
    ASSUME WorldOK, HistoryOK, probe # "list", NEW n \in Pids, Live(n)
    PROVE  /\ holder[n].mine => <<n, holder[n].start>> \in users
           /\ \A s \in Spots : folder[s] = holder[n].cwd =>
                  <<n, holder[n].start, s>> \in present
<1>1. holder[n].start \in 1..MaxStarts
  BY ProbeAssumption DEF WorldOK, ProbeTypeOK, Live
<1>2. holder[n].mine => <<n, holder[n].start>> \in Users
  BY <1>1 DEF Users
<1>3. \A s \in Spots : folder[s] = holder[n].cwd =>
          <<n, holder[n].start, s>> \in WhereTheyAre
  BY <1>1 DEF WhereTheyAre
<1>. QED BY <1>2, <1>3 DEF HistoryOK

\* The name of a directory that has a place is its place.
LEMMA NameOfPlace ==
    ASSUME WorldOK, NEW d \in Folders
    PROVE  /\ NameOf(d) \in Spots
           /\ NameOf(d) # "deleted" => folder[NameOf(d)] = d
           /\ \A s \in Spots : folder[s] = d => NameOf(d) = s
  BY DEF NameOf, WorldOK, Spots, Folders

\* What a read adds to what is known of a process was true when it read, and what
\* is concluded from all reads is of one process that was there.
LEMMA ReadReads ==
    ASSUME WorldOK, HistoryOK, ReadOK, ReportedProcessWasThere, ProbeStep
    PROVE  ReadOK' /\ ReportedProcessWasThere'
<1>1. UNCHANGED world
  BY ReadWorld
<1>. USE DEF ReadOK, ReportedProcessWasThere, Looking, Same
<1>2. CASE List
  BY <1>2, <1>1 DEF List, HistoryOK, world
<1>3. CASE ReadIdentity
  <2>1. PICK n \in todo :
          /\ todo' = todo \ {n} /\ pid' = n /\ before' = holder[n].start
          /\ probe' = IF holder[n].start = 0 THEN "confirm"
                      ELSE IF holder[n].exited THEN "next" ELSE "user"
    BY <1>3 DEF ReadIdentity
  <2>2. n \in Pids /\ holder[n].start \in 0..starts
    BY DEF WorldOK, ProbeTypeOK
  <2>3. CASE probe' = "user"
    <3>1. Live(n) /\ before' \in 1..starts
      BY <2>1, <2>2, <2>3 DEF Live, WorldOK, ProbeTypeOK
    <3>2. holder[n].mine => <<n, holder[n].start>> \in users
      BY <1>3, <2>2, <3>1, SeenNow DEF ReadIdentity, Reads
    <3>. QED BY <1>1, <1>3, <2>1, <2>2, <2>3, <3>1, <3>2 DEF ReadIdentity, Reads, world, history
  <2>4. CASE probe' # "user"
    BY <1>1, <1>3, <2>1, <2>4 DEF ReadIdentity, Reads, world, history
  <2>. QED BY <2>3, <2>4
<1>4. CASE ReadUser
  BY <1>4, <1>1 DEF ReadUser, Reads, reading, world, history
<1>5. CASE ReadLink
  <2>1. pid \in Pids /\ before \in 1..starts
    BY <1>5 DEF ReadLink, Reads
  <2>2. CASE Live(pid) /\ link' = NameOf(holder[pid].cwd)
    <3>1. holder[pid].cwd \in Folders
      BY <2>1, <2>2 DEF WorldOK, ProbeTypeOK, Live
    <3>2. link' # "deleted" => <<pid, holder[pid].start, link'>> \in present
      BY <1>5, <2>1, <2>2, <3>1, NameOfPlace, SeenNow DEF ReadLink, Reads
    <3>. QED BY <1>1, <1>5, <2>1, <3>2 DEF ReadLink, Reads, world, history
  <2>3. CASE link' = "none"
    BY <1>1, <1>5, <2>1, <2>3 DEF ReadLink, Reads, world, history
  <2>. QED BY <1>5, <2>2, <2>3 DEF ReadLink
<1>6. CASE StatLink
  <2>1. pid \in Pids /\ before \in 1..starts
    BY <1>6 DEF StatLink, Reads
  <2>2. ASSUME Same, link = "deleted", inode' = 4, folder["deleted"] = 4
        PROVE  <<pid, before, link>> \in present
    <3>1. Live(pid) /\ holder[pid].cwd = 4 /\ "deleted" \in Spots
      BY <1>6, <2>2 DEF StatLink, Spots
    <3>. QED BY <1>6, <2>1, <2>2, <3>1, SeenNow DEF StatLink, Reads
  <2>. QED BY <1>1, <1>6, <2>1, <2>2 DEF StatLink, Reads, world, history
<1>7. CASE ResolvePath
  <2>1. link = "deleted" /\ inode' # 0 => inode = 4 /\ folder["deleted"] = 4
    BY <1>7 DEF ResolvePath, SameDirectory, WorldOK
  <2>. QED BY <1>1, <1>7, <2>1 DEF ResolvePath, Reads, world, history
<1>8. CASE ReadIdentityAgain
  BY <1>8, <1>1 DEF ReadIdentityAgain, Reads, reading, world, history, SameProcess
<1>9. CASE ReadUserAgain
  BY <1>9, <1>1 DEF ReadUserAgain, Reads, world, history
<1>10. CASE ConfirmExit
  BY <1>10, <1>1 DEF ConfirmExit, Reads, world, history
<1>11. CASE Conclude
  BY <1>11, <1>1 DEF Conclude, world, history
<1>. QED
  BY <1>2, <1>3, <1>4, <1>5, <1>6, <1>7, <1>8, <1>9, <1>10, <1>11 DEF ProbeStep

\* A process that stays in its place is listed, followed by every read and found,
\* or the observation is not complete.
LEMMA ReadFollows ==
    ASSUME WorldOK, HistoryOK, ReadOK, FollowsOK, ProbeStep
    PROVE  FollowsOK'
<1>1. UNCHANGED world /\ Working' = Working
  BY ReadWorld, ReadsKeep
<1>2. CASE List
  <2>1. \A w \in Working : w[1] \in {n \in Pids : holder[n].start # 0}
    BY DEF Working, WhereTheyAre, Live
  <2>2. steady' = Working
    BY <1>2 DEF List
  <2>3. verdict' \in {"none", "unavailable"}
        /\ (verdict' # "unavailable" => todo' = {n \in Pids : holder[n].start # 0})
    BY <1>2 DEF List, FollowsOK
  <2>. QED BY <1>1, <1>2, <2>1, <2>2, <2>3 DEF List, FollowsOK
<1>3. ASSUME ~List PROVE FollowsOK'
  <2>1. UNCHANGED history /\ probe # "list" /\ probe' # "list"
    BY <1>3 DEF ProbeStep, ReadIdentity, ReadUser, ReadLink, StatLink, ResolvePath,
       ReadIdentityAgain, ReadUserAgain, ConfirmExit, Conclude, Reads
  <2>2. steady' \subseteq Working'
    BY <1>1, <2>1 DEF FollowsOK, history
  <2>3. ASSUME NEW w \in steady, Boundaries(w[3]) = <<"target">>
        PROVE  /\ w[1] \in Pids /\ Live(w[1]) /\ holder[w[1]].start = w[2]
               /\ holder[w[1]].mine /\ w[3] \in Spots /\ folder[w[3]] = holder[w[1]].cwd
               /\ holder[w[1]].cwd \in Folders /\ w = <<w[1], w[2], w[3]>>
               /\ NameOf(holder[w[1]].cwd) = w[3] /\ Owned(w[3])
    <3>1. w \in WhereTheyAre /\ <<w[1], w[2]>> \in Users
      BY DEF FollowsOK, Working
    <3>2. w[1] \in Pids /\ Live(w[1]) /\ w[3] \in Spots /\ w = <<w[1], w[2], w[3]>>
          /\ folder[w[3]] = holder[w[1]].cwd /\ holder[w[1]].start = w[2]
      BY <3>1 DEF WhereTheyAre
    <3>3. holder[w[1]].cwd \in Folders
      BY <3>2 DEF WorldOK, ProbeTypeOK, Live
    <3>4. NameOf(holder[w[1]].cwd) = w[3]
      BY <3>2, <3>3, NameOfPlace
    <3>5. Owned(w[3])
      BY <2>3 DEF Owned
    <3>6. holder[w[1]].mine
      BY <3>1 DEF Users
    <3>. QED BY <3>2, <3>3, <3>4, <3>5, <3>6
  <2>. DEFINE Kept(w) == w[1] \in todo \/ w \in found \/ trouble \/ UnderWay(w)
  <2>4. ASSUME NEW w \in steady, Boundaries(w[3]) = <<"target">>, Kept(w)
        PROVE  Kept(w)'
    <3>. USE <2>4, <2>3 DEF UnderWay, Reads, Live
    <3>1. CASE ReadIdentity
      BY <3>1 DEF ReadIdentity
    <3>2. CASE ReadUser
      BY <3>2 DEF ReadUser, reading
    <3>3. CASE ReadLink
      BY <3>3 DEF ReadLink
    <3>4. CASE StatLink
      BY <3>4, <1>1 DEF StatLink, world
    <3>5. CASE ResolvePath
      BY <3>5, <1>1 DEF ResolvePath, SameDirectory, world
    <3>6. CASE ReadIdentityAgain
      BY <3>6 DEF ReadIdentityAgain, SameProcess, reading
    <3>7. CASE ReadUserAgain
      BY <3>7 DEF ReadUserAgain
    <3>8. CASE ConfirmExit
      BY <3>8 DEF ConfirmExit, Counted
    <3>9. CASE Conclude
      BY <3>9 DEF Conclude
    <3>. QED
      BY <1>3, <3>1, <3>2, <3>3, <3>4, <3>5, <3>6, <3>7, <3>8, <3>9 DEF ProbeStep
  <2>5. verdict' = verdict \/ (verdict' \in {"complete", "partial"} /\ Conclude)
    BY <1>3 DEF ProbeStep, ReadIdentity, ReadUser, ReadLink, StatLink, ResolvePath,
       ReadIdentityAgain, ReadUserAgain, ConfirmExit, Conclude, reading
  <2>6. verdict' = "complete" => probe' = "done" /\ todo' = {} /\ ~trouble'
    <3>1. CASE Conclude
      BY <3>1 DEF Conclude
    <3>2. CASE verdict' = verdict /\ ~Conclude
      BY <1>3, <3>2 DEF ProbeStep, ReadIdentity, ReadUser, ReadLink, StatLink, ResolvePath,
         ReadIdentityAgain, ReadUserAgain, ConfirmExit, Reads, FollowsOK
    <3>. QED BY <2>5, <3>1, <3>2
  <2>7. verdict = "none" /\ (verdict' # "none" => probe' = "done")
    BY <1>3 DEF ProbeStep, ReadIdentity, ReadUser, ReadLink, StatLink, ResolvePath,
       ReadIdentityAgain, ReadUserAgain, ConfirmExit, Conclude, reading, Reads, FollowsOK
  <2>. QED BY <2>1, <2>2, <2>4, <2>6, <2>7 DEF FollowsOK, history
<1>. QED BY <1>2, <1>3

\* An event keeps what the probe has read and adds to the history.
LEMMA EventKeeps ==
    ASSUME Event
    PROVE  /\ UNCHANGED <<probe, reading>> /\ probe # "done"
           /\ present' = present \cup WhereTheyAre' /\ users' = users \cup Users'
           /\ steady' = steady \cap Working'
  BY DEF Event, Exits, Reaped, Starts, ChangesUser, ChangesDirectory, Deleted, Renamed,
     Changes

\* No process gets a start time that was read before, nor the user back.
LEMMA EventSame ==
    ASSUME WorldOK, Moved, NEW n \in Pids, NEW b \in 1..starts, holder'[n].start = b
    PROVE  holder[n].start = b /\ (holder'[n].mine => holder[n].mine)
  BY DEF Moved, WorldOK, ProbeTypeOK, NoHolder

\* Whatever happens between two reads, what they found was so in the observation.
LEMMA EventReads ==
    ASSUME WorldOK, HistoryOK, ReadOK, ReportedProcessWasThere, Event
    PROVE  HistoryOK' /\ ReadOK' /\ ReportedProcessWasThere'
<1>1. Moved
  BY EventMoves
<1>2. HistoryOK' /\ ReportedProcessWasThere'
  BY EventKeeps DEF HistoryOK, ReportedProcessWasThere, reading
<1>3. starts' \in Nat /\ starts \in Nat /\ 1..starts \subseteq 1..starts'
  BY EventWorld, <1>1 DEF Moved, WorldOK, ProbeTypeOK
<1>4. ASSUME Looking PROVE Same' => Same /\ (holder'[pid].mine => holder[pid].mine)
  BY <1>1, <1>4, EventKeeps, EventSame DEF Same, ReadOK, reading
<1>5. folder'["deleted"] = 4 => folder["deleted"] = 4
  BY <1>1 DEF Moved, WorldOK
<1>. QED BY <1>2, <1>3, <1>4, <1>5, EventKeeps DEF ReadOK, Looking, reading

\* Whatever happens to others, a process that stays is still to be found.
LEMMA EventFollows ==
    ASSUME WorldOK, FollowsOK, Event
    PROVE  FollowsOK'
<1>. USE EventKeeps
<1>1. Moved
  BY EventMoves
<1>2. ASSUME NEW w \in steady' PROVE w \in steady /\ (UnderWay(w) => UnderWay(w)')
  <2>1. w \in steady /\ w \in Working /\ w \in Working'
    BY DEF FollowsOK
  <2>2. /\ w[1] \in Pids /\ w[3] \in Spots /\ holder[w[1]].start = w[2]
        /\ folder[w[3]] = holder[w[1]].cwd /\ folder'[w[3]] = holder'[w[1]].cwd
    BY <2>1 DEF Working, WhereTheyAre
  <2>3. folder'[w[3]] = folder[w[3]]
    BY <1>1, <2>2 DEF Moved
  <2>. QED BY <2>1, <2>3 DEF UnderWay, reading
<1>. QED BY <1>2 DEF FollowsOK, reading

\* Every step, and none, keeps the invariant of the observation.
LEMMA ProbeInvStep == ProbeInv /\ [ProbeNext]_probeVars => ProbeInv'
<1>. SUFFICES ASSUME ProbeInv, [ProbeNext]_probeVars PROVE ProbeInv'
  OBVIOUS
<1>1. CASE ProbeStep
  BY <1>1, ReadWorld, ReadHistory, ReadReads, ReadFollows DEF ProbeInv
<1>2. CASE Event
  BY <1>2, EventWorld, EventReads, EventFollows DEF ProbeInv
<1>3. CASE UNCHANGED probeVars
  BY <1>3 DEF probeVars, world, reading, history, ProbeInv, WorldOK, ProbeTypeOK, HistoryOK,
     ReadOK, ReportedProcessWasThere, FollowsOK, WhereTheyAre, Users, Working, Live, Same,
     Looking, UnderWay
<1>. QED BY <1>1, <1>2, <1>3 DEF ProbeNext, Event

\* The invariant of an observation holds in every state.
THEOREM ProbeInvariant == ProbeSpec => []ProbeInv
  BY ProbeInitInv, ProbeInvStep, PTL DEF ProbeSpec

\* The types of the observation (processes.rs collect, linux.rs read_process).
THEOREM ProbeTypes == ProbeSpec => []ProbeTypeOK
<1>1. ProbeInv => ProbeTypeOK
  BY DEF ProbeInv, WorldOK
<1>. QED BY <1>1, ProbeInvariant, PTL

\* A process that is reported was there: one process had the PID, worked in the
\* directory and was the user's in the observation, although PIDs are used again
\* and directories are exchanged between any two reads (linux.rs read_process).
THEOREM ProbeReportsTheLiving == ProbeSpec => []ReportedProcessWasThere
<1>1. ProbeInv => ReportedProcessWasThere
  BY DEF ProbeInv
<1>. QED BY <1>1, ProbeInvariant, PTL

\* An observation that is complete reports every process that worked in the
\* workspace all along (processes.rs collect and owner).
THEOREM ProbeIsComplete == ProbeSpec => []CompleteMissesNobody
<1>1. ProbeInv => CompleteMissesNobody
  BY DEF ProbeInv, FollowsOK, CompleteMissesNobody, UnderWay
<1>. QED BY <1>1, ProbeInvariant, PTL
===============================================================================
