--------------------------- MODULE TreesInvariants --------------------------
(***************************************************************************)
(* The safety of leases, claims and files, for any number of processes,    *)
(* workspaces, repositories and claims.  Leases and claims are proved      *)
(* against the kinds of steps of TreesProtocol; files against what every   *)
(* action does to them (WorkFiles).                                        *)
(***************************************************************************)
EXTENDS TreesProtocol

\* Nothing is recorded of a workspace without a row, and a process beyond its
\* first steps works on a workspace that has one.
Recorded ==
    /\ \A w \in Workspaces : wsState[w] = "none" =>
           lease[w] = NoLease /\ claim[w] = None /\ createOp[w] = "none"
    /\ \A p \in Processes : ~Unrecorded(pc[p], mem[p]) => wsState[Ws(p)] # "none"

\* A running creation has no outcome yet.
CreationsRun ==
    \A w \in Workspaces : lease[w].kind = "create" => createOp[w] = "running"

\* Whoever is beyond its admission has the lease.
Leased == \A p \in Processes : pc[p] \in OwnedLabel => Holds(p)

\* The claims that processes are about to insert are their own.
OwnClaims ==
    /\ \A p, q \in Processes :
           /\ p # q
           /\ mem[p].cmd \in Claiming /\ mem[q].cmd \in Claiming
           => mem[p].claim # mem[q].claim
    /\ \A p \in Processes :
           mem[p].cmd \in Claiming => held[mem[p].claim] = None

\* Claims that are active or held have been inserted.
ClaimsIssued ==
    /\ \A w \in Workspaces : claim[w] # None => claim[w] \in issued
    /\ \A c \in Claims : held[c] # None => c \in issued

\* What a process that still has its lease knows of the claim.
ClaimKnown ==
    \A p \in Processes : Holds(p) =>
        /\ pc[p] = "al_finish" => claim[Ws(p)] = mem[p].claim
        /\ pc[p] \in Removing /\ ~(mem[p].cmd = "remove" /\ mem[p].force) =>
               claim[Ws(p)] = None

ClaimsInv == OwnClaims /\ ClaimsIssued /\ ClaimKnown /\ HeldClaimsAreActive

-----------------------------------------------------------------------------
(* What a step of one process leaves alone. *)

Frame(p) == \A q \in Processes \ {p} : pc'[q] = pc[q] /\ mem'[q] = mem[q]

LEMMA StepFacts ==
  ASSUME Typed, NEW p \in Processes, NEW l, NEW m, Step(p, l, m)
  PROVE  pc'[p] = l /\ mem'[p] = m /\ Frame(p)
  BY DEF Typed, TypeOK, Step, Frame

LEMMA EndFacts ==
  ASSUME Typed, NEW p \in Processes, End(p)
  PROVE  pc'[p] = "idle" /\ mem'[p] = Blank /\ Frame(p)
  BY StepFacts DEF End

LEMMA CloseFacts ==
  ASSUME StoreTyped, NEW p, Ws(p) \in Workspaces, NEW o, CloseOperation(p, o)
  PROVE  /\ lease'[Ws(p)] = NoLease
         /\ createOp'[Ws(p)] = IF lease[Ws(p)].kind = "create" THEN o ELSE createOp[Ws(p)]
         /\ \A w \in Workspaces : w # Ws(p) =>
                lease'[w] = lease[w] /\ createOp'[w] = createOp[w]
  BY DEF StoreTyped, CloseOperation

LEMMA InsertFacts ==
  ASSUME StoreTyped, NEW p, Ws(p) \in Workspaces, NEW k, InsertLease(p, k)
  PROVE  /\ lease'[Ws(p)] = [kind |-> k, by |-> p, live |-> TRUE]
         /\ \A w \in Workspaces : w # Ws(p) => lease'[w] = lease[w]
  BY DEF StoreTyped, InsertLease

LEMMA AdmitFacts ==
  ASSUME Typed, NEW p \in Processes, Creates(p) \/ Admits(p)
  PROVE  /\ Ws(p) \in Workspaces
         /\ lease'[Ws(p)].by = p /\ lease'[Ws(p)].live = TRUE
         /\ Admits(p) => lease'[Ws(p)].kind # "create" \/ lease[Ws(p)].kind = "create"
<1>1. StoreTyped /\ Ws(p) \in Workspaces
  BY TypedHere DEF Creates, Admits, Unrecorded
<1>2. CASE Admits(p)
  <2>1. PICK k \in Kind : /\ InsertLease(p, k)
                          /\ (k # "create" \/ lease[Ws(p)].kind = k)
    BY <1>2 DEF Admits
  <2>2. lease'[Ws(p)] = [kind |-> k, by |-> p, live |-> TRUE]
    <3>1. InsertLease(p, k)
      BY <2>1
    <3>. QED BY <1>1, <3>1, InsertFacts
  <2>. QED BY <1>1, <2>1, <2>2
<1>3. CASE Creates(p) /\ ~Admits(p)
  <2>1. lease'[Ws(p)] = [kind |-> "create", by |-> p, live |-> TRUE]
    BY <1>1, <1>3, InsertFacts DEF Creates
  <2>. QED BY <1>1, <1>3, <2>1
<1>. QED BY <1>2, <1>3

\* A step of a process keeps the other processes, the tables of the other
\* workspaces, and the existence of rows.
LEMMA Footprint ==
  ASSUME Typed, NEW p \in Processes, ProtocolStep(p)
  PROVE  /\ Frame(p)
         /\ StateKept
         /\ \A w \in Workspaces : w # Ws(p) =>
                lease'[w] = lease[w] /\ claim'[w] = claim[w] /\ createOp'[w] = createOp[w]
<1>1. /\ StoreTyped /\ mem[p] \in Memory
      /\ pc[p] # "idle" => Ws(p) \in Workspaces
  BY TypedHere
<1>2. CASE Plain(p)
  BY <1>2, StepFacts, EndFacts DEF Plain, Continues
<1>3. CASE Starts(p)
  BY <1>3, StepFacts, KeptOK DEF Starts, db
<1>4. CASE Admits(p)
  BY <1>1, <1>4, StepFacts, InsertFacts DEF Admits, GoesOnOwning, Unrecorded
<1>5. CASE Closes(p)
  <2>1. pc[p] # "idle" \/ End(p)
    BY <1>5 DEF Closes, CanContinue
  <2>2. Frame(p) /\ StateKept /\ UNCHANGED claim
    BY <1>5, StepFacts, EndFacts DEF Closes
  <2>3. \A w \in Workspaces : w # Ws(p) => lease'[w] = lease[w] /\ createOp'[w] = createOp[w]
    BY <1>1, <1>5 DEF Closes, CloseOperation, StoreTyped
  <2>. QED BY <2>2, <2>3
<1>6. CASE Creates(p)
  <2>1. Frame(p)
    BY <1>6, StepFacts DEF Creates
  <2>2. StateKept
    BY <1>1, <1>6, SetKeptOK DEF Creates
  <2>. QED BY <1>1, <1>6, <2>1, <2>2, InsertFacts DEF Creates, StoreTyped
<1>7. CASE Inserts(p) \/ Withdraws(p)
  BY <1>1, <1>7, StepFacts, KeptOK DEF Inserts, Withdraws, StoreTyped
<1>8. CASE Confirms(p)
  BY <1>1, <1>8, EndFacts, CloseFacts DEF Confirms
<1>9. CASE Publishes(p)
  BY <1>1, <1>9, EndFacts, CloseFacts, KeptOK DEF Publishes, StoreTyped
<1>10. CASE Releases(p) \/ Buries(p)
  BY <1>1, <1>10, EndFacts, CloseFacts DEF Releases, Buries, StoreTyped
<1>. QED BY <1>2, <1>3, <1>4, <1>5, <1>6, <1>7, <1>8, <1>9, <1>10 DEF ProtocolStep

-----------------------------------------------------------------------------
(* Rows before leases and claims. *)

\* A step that changes a lease, a claim or an outcome works on a workspace that
\* has its row, before the step or through it.
LEMMA ChangesRecorded ==
  ASSUME Typed, Recorded, NEW p \in Processes, ProtocolStep(p)
  PROVE  \/ UNCHANGED <<lease, claim, createOp>>
         \/ wsState'[Ws(p)] # "none" /\ Ws(p) \in Workspaces
<1>1. StateKept /\ StoreTyped /\ (pc[p] # "idle" => Ws(p) \in Workspaces)
  BY Footprint, TypedHere
<1>2. CASE Creates(p)
  BY <1>1, <1>2 DEF Creates, SetWorkspace, StoreTyped
<1>3. CASE ~Unrecorded(pc[p], mem[p])
  <2>1. pc[p] # "idle" /\ wsState[Ws(p)] # "none"
    BY <1>3 DEF Recorded, Unrecorded
  <2>. QED BY <1>1, <2>1 DEF StateKept
<1>4. CASE Unrecorded(pc[p], mem[p]) /\ ~Creates(p)
  <2>1. CASE Plain(p) \/ Starts(p)
    BY <2>1 DEF Plain, Starts, db
  <2>2. CASE Closes(p)
    <3>1. Ws(p) \in Workspaces /\ Running(Ws(p))
      BY <1>1, <2>2 DEF Closes, Holds, Running, NoLease
    <3>2. wsState[Ws(p)] # "none"
      BY <3>1 DEF Recorded, Running
    <3>. QED BY <1>1, <3>1, <3>2 DEF StateKept
  <2>3. CASE Admits(p)
    BY <1>4, <2>3 DEF Admits
  <2>. QED BY <1>4, <2>1, <2>2, <2>3 DEF ProtocolStep, Inserts, Confirms, Publishes,
              Releases, Withdraws, Buries, Unrecorded
<1>. QED BY <1>2, <1>3, <1>4

LEMMA RecordedStep ==
  ASSUME Typed, Recorded, NEW p \in Processes, ProtocolStep(p)
  PROVE  Recorded'
<1>1. /\ StateKept /\ Frame(p)
      /\ \A w \in Workspaces : w # Ws(p) =>
             lease'[w] = lease[w] /\ claim'[w] = claim[w] /\ createOp'[w] = createOp[w]
  BY Footprint
<1>2. ASSUME NEW w \in Workspaces, wsState'[w] = "none"
      PROVE  lease'[w] = NoLease /\ claim'[w] = None /\ createOp'[w] = "none"
  <2>1. wsState[w] = "none"
    BY <1>1, <1>2 DEF StateKept
  <2>. QED BY <1>1, <1>2, <2>1, ChangesRecorded DEF Recorded
<1>3. ASSUME NEW q \in Processes, q # p, ~Unrecorded(pc'[q], mem'[q])
      PROVE  wsState'[mem'[q].ws] # "none"
  <2>1. pc'[q] = pc[q] /\ mem'[q] = mem[q]
    BY <1>1, <1>3 DEF Frame
  <2>2. pc[q] # "idle" /\ wsState[Ws(q)] # "none"
    BY <1>3, <2>1 DEF Recorded, Unrecorded
  <2>. QED BY <1>1, <2>1, <2>2, TypedHere DEF StateKept, Ws
<1>4. ASSUME ~Unrecorded(pc'[p], mem'[p])
      PROVE  wsState'[mem'[p].ws] # "none"
  <2>1. ~End(p)
    BY <1>4, EndFacts DEF Unrecorded
  <2>2. CASE Starts(p)
    <3>1. PICK l, m : Step(p, l, m) /\ CanStart(l, m)
      BY <2>2 DEF Starts
    <3>2. m.ws \in Workspaces /\ (wsState[m.ws] # "none" \/ claim[m.ws] # None)
      BY <1>4, <3>1, StepFacts DEF CanStart
    <3>3. wsState[m.ws] # "none"
      BY <3>2 DEF Recorded
    <3>. QED BY <1>1, <3>1, <3>2, <3>3, StepFacts DEF StateKept
  <2>3. CASE Plain(p) \/ Closes(p)
    <3>1. PICK l, m : Step(p, l, m) /\ CanContinue(p, l, m)
      BY <2>1, <2>3 DEF Plain, Continues, Closes
    <3>2. pc'[p] = l /\ mem'[p] = m /\ m.ws = Ws(p) /\ Ws(p) \in Workspaces
      BY <2>3, <3>1, StepFacts, TypedHere DEF CanContinue, SameCommand, Plain, Closes, Ws
    <3>3. ~Unrecorded(pc[p], mem[p]) \/ Running(Ws(p))
      BY <1>4, <3>1, <3>2 DEF CanContinue
    <3>4. wsState[Ws(p)] # "none"
      BY <3>2, <3>3 DEF Recorded, Running
    <3>. QED BY <1>1, <3>2, <3>4 DEF StateKept
  <2>4. CASE Admits(p)
    <3>1. PICK l, m : Step(p, l, m) /\ SameCommand(p, m)
      BY <2>4 DEF Admits, GoesOnOwning
    <3>2. mem'[p].ws = Ws(p) /\ wsState[Ws(p)] # "none" /\ Ws(p) \in Workspaces
      BY <2>4, <3>1, StepFacts, TypedHere DEF SameCommand, Admits, Recorded, Unrecorded, Ws
    <3>. QED BY <1>1, <3>2 DEF StateKept
  <2>5. CASE Creates(p)
    <3>1. mem'[p].ws = Ws(p) /\ Ws(p) \in Workspaces
      BY <2>5, StepFacts, TypedHere DEF Creates, SameCommand, Ws
    <3>. QED BY <2>5, <3>1, TypedHere DEF Creates, SetWorkspace, StoreTyped
  <2>6. CASE Inserts(p) \/ Withdraws(p)
    <3>1. mem'[p].ws = Ws(p) /\ wsState[Ws(p)] # "none" /\ Ws(p) \in Workspaces
      BY <2>6, StepFacts, TypedHere DEF Inserts, Withdraws, Recorded, Unrecorded, Ws
    <3>. QED BY <1>1, <3>1 DEF StateKept
  <2>. QED BY <2>1, <2>2, <2>3, <2>4, <2>5, <2>6 DEF ProtocolStep, Confirms, Publishes,
              Releases, Buries
<1>. QED BY <1>2, <1>3, <1>4 DEF Recorded, Ws
-----------------------------------------------------------------------------
(* Leases. *)

\* No step of a process ends the lease of another one, or gives it one.
LEMMA LeaseSurvives ==
  ASSUME Typed, Recorded, NEW p \in Processes, ProtocolStep(p),
         NEW q \in Processes \ {p}, pc[q] # "idle"
  PROVE  Holds(q)' <=> Holds(q)
<1>1. /\ pc'[q] = pc[q] /\ mem'[q] = mem[q] /\ Ws(q) \in Workspaces
      /\ Ws(q) # Ws(p) => lease'[Ws(q)] = lease[Ws(q)]
  BY Footprint, TypedHere DEF Frame
<1>2. CASE Ws(q) # Ws(p)
  BY <1>1, <1>2 DEF Holds, Ws
<1>3. CASE Ws(q) = Ws(p)
  <2>1. CASE UNCHANGED lease
    BY <1>1, <2>1 DEF Holds, Ws
  <2>2. CASE Holds(p)
    <3>1. ~Holds(q)
      BY <1>3, <2>2 DEF Holds
    <3>2. lease'[Ws(p)].by # q
      <4>1. CASE UNCHANGED lease
        BY <2>2, <4>1 DEF Holds
      <4>2. CASE lease'[Ws(p)] = NoLease
        BY <4>2, StoreAssumption DEF NoLease
      <4>3. \/ UNCHANGED lease \/ Creates(p) \/ Admits(p)
            \/ \E o : CloseOperation(p, o)
        BY DEF ProtocolStep, Plain, Starts, Closes, Inserts, Confirms, Publishes,
               Releases, Withdraws, Buries, db
      <4>4. CASE Creates(p) \/ Admits(p)
        BY <4>4, AdmitFacts
      <4>. QED BY <1>1, <1>3, <4>1, <4>2, <4>3, <4>4, CloseFacts, TypedHere
    <3>. QED BY <1>1, <1>3, <3>1, <3>2 DEF Holds, Ws
  <2>3. CASE Creates(p) \/ Admits(p)
    <3>1. ~lease[Ws(p)].live
      BY <1>1, <1>3, <2>3 DEF Creates, Admits, Recorded, NoLease
    <3>2. lease'[Ws(p)].by = p
      BY <2>3, AdmitFacts
    <3>. QED BY <1>1, <1>3, <3>1, <3>2 DEF Holds, Ws
  <2>. QED BY <2>1, <2>2, <2>3 DEF ProtocolStep, Plain, Starts, Closes, Inserts,
              Confirms, Publishes, Releases, Withdraws, Buries, db
<1>. QED BY <1>2, <1>3

LEMMA LeasedStep ==
  ASSUME Typed, Recorded, Leased, NEW p \in Processes, ProtocolStep(p)
  PROVE  Leased'
<1>1. ASSUME NEW q \in Processes \ {p}, pc'[q] \in OwnedLabel
      PROVE  Holds(q)'
  <2>1. pc[q] \in OwnedLabel
    BY <1>1, Footprint DEF Frame
  <2>. QED BY <2>1, LeaseSurvives DEF Leased, OwnedLabel
<1>2. ASSUME pc'[p] \in OwnedLabel
      PROVE  Holds(p)'
  <2>1. ~End(p)
    BY <1>2, EndFacts DEF OwnedLabel
  <2>2. CASE Plain(p)
    <3>1. PICK l, m : Step(p, l, m) /\ CanContinue(p, l, m)
      BY <2>1, <2>2 DEF Plain, Continues
    <3>2. pc[p] \in OwnedLabel /\ mem'[p].ws = Ws(p) /\ mem'[p].own = mem[p].own
      BY <1>2, <3>1, StepFacts DEF CanContinue, SameCommand, Ws
    <3>. QED BY <2>2, <3>2 DEF Leased, Holds, Plain, Ws
  <2>3. CASE Inserts(p) \/ Withdraws(p)
    <3>1. pc[p] \in OwnedLabel /\ mem'[p] = mem[p] /\ UNCHANGED lease
      BY <2>3, StepFacts DEF Inserts, Withdraws, OwnedLabel, Label
    <3>. QED BY <3>1 DEF Leased, Holds, Ws
  <2>4. CASE Creates(p) \/ Admits(p)
    <3>1. mem'[p].ws = Ws(p) /\ mem'[p].own = TRUE
      BY <2>4, StepFacts DEF Creates, Admits, GoesOnOwning, SameCommand, Ws
    <3>2. lease'[Ws(p)].by = p /\ lease'[Ws(p)].live
      BY <2>4, AdmitFacts
    <3>. QED BY <3>1, <3>2 DEF Holds, Ws
  <2>5. CASE Starts(p) \/ Closes(p)
    BY <1>2, <2>1, <2>5, StepFacts DEF Starts, CanStart, Closes, OwnedLabel
  <2>. QED BY <2>1, <2>2, <2>3, <2>4, <2>5 DEF ProtocolStep, Confirms, Publishes,
              Releases, Buries
<1>. QED BY <1>1, <1>2 DEF Leased

\* An operation that creates is running until it is closed, once.
LEMMA CreationStep ==
  ASSUME Typed, Recorded, CreationsRun, NEW p \in Processes, ProtocolStep(p)
  PROVE  /\ CreationsRun'
         /\ \A w \in Workspaces :
               createOp[w] \in {"succeeded", "failed", "rolled_back"} =>
                   createOp'[w] = createOp[w]
<1>1. \A w \in Workspaces : w # Ws(p) => lease'[w] = lease[w] /\ createOp'[w] = createOp[w]
  BY Footprint
<1>2. StoreTyped /\ (pc[p] # "idle" => Ws(p) \in Workspaces)
  BY TypedHere
<1>3. CASE UNCHANGED <<lease, createOp>>
  BY <1>3 DEF CreationsRun
<1>4. ASSUME pc[p] # "idle", NEW o, CloseOperation(p, o)
      PROVE  /\ CreationsRun'
             /\ \A w \in Workspaces :
                   createOp[w] \in {"succeeded", "failed", "rolled_back"} =>
                       createOp'[w] = createOp[w]
  BY <1>1, <1>2, <1>4, CloseFacts DEF CreationsRun, NoLease
<1>5. CASE Creates(p)
  <2>1. /\ createOp[Ws(p)] = "none" /\ createOp'[Ws(p)] = "running"
        /\ Ws(p) \in Workspaces
    BY <1>2, <1>5 DEF Creates, Recorded, StoreTyped
  <2>. QED BY <1>1, <2>1 DEF CreationsRun
<1>6. CASE Admits(p)
  <2>1. pc[p] # "idle" /\ UNCHANGED createOp
    BY <1>6 DEF Admits, Unrecorded
  <2>2. lease'[Ws(p)].kind = "create" => lease[Ws(p)].kind = "create"
    BY <1>6, AdmitFacts
  <2>. QED BY <1>1, <1>2, <2>1, <2>2 DEF CreationsRun
<1>. QED BY <1>3, <1>4, <1>5, <1>6 DEF ProtocolStep, Plain, Starts, Closes, Inserts,
            Confirms, Publishes, Releases, Withdraws, Buries, db

-----------------------------------------------------------------------------
(* Claims. *)

USE DEF Removing, Claiming

\* The workspace that a user holds, and that no claim is None.
LEMMA HeldFacts ==
  ASSUME Typed, HeldClaimsAreActive, NEW c \in Claims, held[c] # None
  PROVE  held[c] \in Workspaces /\ claim[held[c]] = c /\ c # None
  BY StoreAssumption DEF Typed, TypeOK, HeldClaimsAreActive

LEMMA ClaimOfCommand ==
  ASSUME Typed, NEW p \in Processes, mem[p].cmd \in Claiming
  PROVE  mem[p].claim \in Claims /\ mem[p].claim # None
  BY TypedHere, StoreAssumption DEF LocalOK

\* What users know changes only by these steps.
LEMMA HeldChanges ==
  ASSUME NEW p \in Processes, ProtocolStep(p)
  PROVE  \/ UNCHANGED held
         \/ Confirms(p) \/ Publishes(p) \/ Releases(p) \/ Buries(p)
  BY DEF ProtocolStep, Plain, Starts, Admits, Closes, Creates, Inserts, Withdraws, history

LEMMA HeldStep ==
  ASSUME Typed, Recorded, ClaimsInv, NEW p \in Processes, ProtocolStep(p)
  PROVE  HeldClaimsAreActive'
<1>. USE DEF ClaimsInv
<1>1. StoreTyped /\ (pc[p] # "idle" => Ws(p) \in Workspaces)
  BY TypedHere
<1>2. \A w \in Workspaces : w # Ws(p) => claim'[w] = claim[w]
  BY Footprint
<1>3. SUFFICES ASSUME NEW c \in Claims, held'[c] # None
               PROVE  claim'[held'[c]] = c
  BY DEF HeldClaimsAreActive
<1>4. CASE UNCHANGED <<claim, held>>
  BY <1>3, <1>4 DEF HeldClaimsAreActive
<1>5. CASE (Creates(p) \/ Inserts(p)) /\ UNCHANGED held
  <2>1. Ws(p) \in Workspaces /\ claim[Ws(p)] = None
    BY <1>1, <1>5 DEF Creates, Inserts, Recorded
  <2>. QED BY <1>2, <1>3, <1>5, <2>1, HeldFacts
<1>6. CASE Confirms(p)
  <2>1. Ws(p) \in Workspaces /\ claim[Ws(p)] = mem[p].claim /\ UNCHANGED claim
    BY <1>1, <1>6 DEF Confirms, ClaimKnown
  <2>2. held' = [held EXCEPT ![mem[p].claim] = Ws(p)]
    BY <1>6 DEF Confirms
  <2>. QED BY <1>1, <1>3, <2>1, <2>2 DEF HeldClaimsAreActive, StoreTyped
<1>7. CASE Publishes(p)
  <2>1. /\ Ws(p) \in Workspaces /\ claim[Ws(p)] = None
        /\ claim' = [claim EXCEPT ![Ws(p)] = mem[p].claim]
        /\ held' = [held EXCEPT ![mem[p].claim] = Ws(p)]
    BY <1>1, <1>7 DEF Publishes
  <2>2. CASE c = mem[p].claim
    BY <1>1, <2>1, <2>2 DEF StoreTyped
  <2>3. CASE c # mem[p].claim
    <3>1. held'[c] = held[c]
      BY <1>1, <2>1, <2>3 DEF StoreTyped
    <3>. QED BY <1>2, <1>3, <2>1, <3>1, HeldFacts
  <2>. QED BY <2>2, <2>3
<1>8. CASE Releases(p)
  <2>1. /\ Ws(p) \in Workspaces /\ claim[Ws(p)] = mem[p].claim
        /\ held' = [held EXCEPT ![mem[p].claim] = None]
    BY <1>1, <1>8 DEF Releases
  <2>2. c # mem[p].claim /\ held'[c] = held[c]
    BY <1>1, <1>3, <2>1 DEF StoreTyped
  <2>3. held[c] # Ws(p) /\ held[c] \in Workspaces /\ claim[held[c]] = c
    BY <1>3, <2>1, <2>2, HeldFacts
  <2>. QED BY <1>2, <2>2, <2>3
<1>9. CASE Withdraws(p)
  <2>1. /\ UNCHANGED held /\ mem[p].cmd \in Claiming
        /\ claim[Ws(p)] = mem[p].claim /\ held[mem[p].claim] = None
    BY <1>9 DEF Withdraws, OwnClaims, history
  <2>2. held[c] # Ws(p) /\ held[c] \in Workspaces /\ claim[held[c]] = c
    BY <1>3, <2>1, HeldFacts
  <2>. QED BY <1>2, <2>1, <2>2
<1>10. CASE Buries(p)
  <2>1. held[c] # None /\ held'[c] = held[c]
    BY <1>1, <1>3, <1>10 DEF Buries, StoreTyped
  <2>2. Ws(p) \in Workspaces /\ held[c] # Ws(p)
    <3>1. CASE mem[p].cmd = "remove" /\ mem[p].force
      BY <1>1, <1>3, <1>10, <3>1 DEF Buries
    <3>2. CASE ~(mem[p].cmd = "remove" /\ mem[p].force)
      <4>1. claim[Ws(p)] = None
        BY <1>10, <3>2 DEF Buries, ClaimKnown
      <4>. QED BY <1>1, <1>10, <2>1, <4>1, HeldFacts DEF Buries
    <3>. QED BY <3>1, <3>2
  <2>. QED BY <1>2, <2>1, <2>2, HeldFacts
<1>. QED BY <1>4, <1>5, <1>6, <1>7, <1>8, <1>9, <1>10 DEF ProtocolStep, Plain, Starts,
            Admits, Closes, Creates, Inserts, db, history

LEMMA OwnClaimsStep ==
  ASSUME Typed, Typed', ClaimsInv, NEW p \in Processes, ProtocolStep(p)
  PROVE  OwnClaims'
<1>. USE DEF ClaimsInv
<1>1. Frame(p)
  BY Footprint
<1>2. \/ mem'[p].cmd \notin Claiming
      \/ mem'[p].cmd = mem[p].cmd /\ mem'[p].claim = mem[p].claim
      \/ Starts(p) /\ FreshClaim(mem'[p].claim)
  <2>1. CASE End(p)
    BY <2>1, EndFacts DEF Blank
  <2>2. CASE Starts(p)
    BY <2>2, StepFacts DEF Starts, CanStart
  <2>3. CASE ~End(p) /\ ~Starts(p)
    <3>1. \E l, m : Step(p, l, m) /\ SameCommand(p, m)
      BY <2>3 DEF ProtocolStep, Plain, Continues, CanContinue, Closes, Admits,
                  GoesOnOwning, Creates, Inserts, Withdraws, Confirms, Publishes,
                  Releases, Buries, SameCommand
    <3>. QED BY <3>1, StepFacts DEF SameCommand
  <2>. QED BY <2>1, <2>2, <2>3
<1>3. ASSUME NEW q \in Processes \ {p}, mem'[p].cmd \in Claiming, mem'[q].cmd \in Claiming
      PROVE  mem'[p].claim # mem'[q].claim
  <2>1. mem'[q] = mem[q]
    BY <1>1 DEF Frame
  <2>. QED BY <1>2, <1>3, <2>1 DEF OwnClaims, FreshClaim
<1>4. ASSUME NEW q \in Processes, mem'[q].cmd \in Claiming
      PROVE  held'[mem'[q].claim] = None
  <2>1. mem'[q].claim \in Claims
    BY <1>4 DEF Typed, LocalOK
  <2>2. held[mem'[q].claim] = None
    <3>1. CASE q = p
      BY <1>2, <1>4, <2>1, <3>1 DEF OwnClaims, FreshClaim, ClaimsIssued
    <3>2. CASE q # p
      BY <1>1, <1>4, <3>2 DEF Frame, OwnClaims
    <3>. QED BY <3>1, <3>2
  <2>3. CASE UNCHANGED held
    BY <2>2, <2>3
  <2>4. CASE Confirms(p) \/ Publishes(p)
    <3>1. mem[p].cmd \in Claiming /\ End(p)
      BY <2>4 DEF Confirms, Publishes
    <3>2. q # p
      BY <1>4, <3>1, EndFacts DEF Blank
    <3>3. mem'[q].claim # mem[p].claim
      BY <1>1, <1>4, <3>1, <3>2 DEF Frame, OwnClaims
    <3>. QED BY <2>1, <2>2, <2>4, <3>3, TypedHere DEF Confirms, Publishes, StoreTyped
  <2>5. CASE Releases(p) \/ Buries(p)
    BY <2>1, <2>2, <2>5, TypedHere DEF Releases, Buries, StoreTyped
  <2>. QED BY <2>3, <2>4, <2>5, HeldChanges
<1>5. \A q, r \in Processes \ {p} :
         mem'[q].cmd = mem[q].cmd /\ mem'[q].claim = mem[q].claim
  BY <1>1 DEF Frame
<1>. QED BY <1>3, <1>4, <1>5 DEF OwnClaims

LEMMA ClaimsIssuedStep ==
  ASSUME Typed, ClaimsInv, NEW p \in Processes, ProtocolStep(p)
  PROVE  ClaimsIssued'
<1>. USE DEF ClaimsInv
<1>1. StoreTyped /\ (pc[p] # "idle" => Ws(p) \in Workspaces)
  BY TypedHere
<1>2. CASE UNCHANGED <<claim, history>>
  BY <1>2 DEF ClaimsIssued, history
<1>3. CASE Creates(p) \/ Inserts(p)
  BY <1>1, <1>3 DEF Creates, Inserts, ClaimsIssued, StoreTyped
<1>4. CASE Confirms(p)
  <2>1. mem[p].claim \in issued /\ UNCHANGED <<claim, issued>>
    <3>1. mem[p].cmd \in Claiming /\ claim[Ws(p)] = mem[p].claim /\ Ws(p) \in Workspaces
      BY <1>1, <1>4 DEF Confirms, ClaimKnown
    <3>. QED BY <1>4, <3>1, ClaimOfCommand DEF Confirms, ClaimsIssued
  <2>. QED BY <1>1, <1>4, <2>1 DEF Confirms, ClaimsIssued, StoreTyped
<1>5. CASE Publishes(p)
  BY <1>1, <1>5 DEF Publishes, ClaimsIssued, StoreTyped
<1>6. CASE Releases(p) \/ Withdraws(p) \/ Buries(p)
  BY <1>1, <1>6 DEF Releases, Withdraws, Buries, ClaimsIssued, StoreTyped, history
<1>. QED BY <1>2, <1>3, <1>4, <1>5, <1>6 DEF ProtocolStep, Plain, Starts, Admits,
            Closes, db

\* A step of one process keeps what another one knows.
LEMMA OthersKnow ==
  ASSUME Typed, Recorded, ClaimsInv, NEW p \in Processes, ProtocolStep(p),
         NEW q \in Processes \ {p}, Holds(q)', pc'[q] \in Removing \cup {"al_finish"}
  PROVE  /\ pc'[q] = "al_finish" => claim'[mem'[q].ws] = mem'[q].claim
         /\ pc'[q] \in Removing /\ ~(mem'[q].cmd = "remove" /\ mem'[q].force) =>
                claim'[mem'[q].ws] = None
<1>. USE DEF ClaimsInv
<1>1. /\ pc'[q] = pc[q] /\ mem'[q] = mem[q] /\ pc[q] # "idle"
      /\ Ws(q) \in Workspaces
  BY Footprint, TypedHere DEF Frame
<1>2. Holds(q)
  BY <1>1, LeaseSurvives
<1>3. /\ pc[q] = "al_finish" => claim[Ws(q)] = mem[q].claim
      /\ pc[q] \in Removing /\ ~(mem[q].cmd = "remove" /\ mem[q].force) =>
             claim[Ws(q)] = None
  BY <1>2 DEF ClaimKnown
<1>4. CASE claim'[Ws(q)] = claim[Ws(q)]
  BY <1>1, <1>3, <1>4 DEF Ws
<1>5. CASE claim'[Ws(q)] # claim[Ws(q)]
  <2>1. Ws(q) = Ws(p)
    BY <1>1, <1>5, Footprint
  <2>2. ~Holds(p)
    BY <1>2, <2>1 DEF Holds
  <2>3. wsState[Ws(p)] # "none"
    BY <1>1, <2>1 DEF Recorded, Unrecorded
  <2>4. Withdraws(p)
    BY <1>5, <2>2, <2>3 DEF ProtocolStep, Plain, Starts, Admits, Closes, Creates,
       Inserts, Confirms, Publishes, Releases, Buries, db
  <2>5. mem[p].cmd \in Claiming /\ claim[Ws(p)] = mem[p].claim /\ mem[p].claim # None
    BY <2>4, ClaimOfCommand DEF Withdraws
  <2>6. pc[q] # "al_finish"
    <3>1. pc[q] = "al_finish" => mem[q].cmd \in Claiming
      BY TypedHere DEF LocalOK, CommandAt
    <3>. QED BY <1>3, <2>1, <2>5, <3>1 DEF OwnClaims
  <2>. QED BY <1>1, <1>3, <2>1, <2>5, <2>6
<1>. QED BY <1>4, <1>5

LEMMA ClaimKnownStep ==
  ASSUME Typed, Recorded, ClaimsInv, NEW p \in Processes, ProtocolStep(p)
  PROVE  ClaimKnown'
<1>. USE DEF ClaimsInv
<1>1. ASSUME Holds(p)', pc'[p] \in Removing \cup {"al_finish"}
      PROVE  /\ pc'[p] = "al_finish" => claim'[mem'[p].ws] = mem'[p].claim
             /\ pc'[p] \in Removing /\ ~(mem'[p].cmd = "remove" /\ mem'[p].force) =>
                    claim'[mem'[p].ws] = None
  <2>1. ~End(p)
    BY <1>1, EndFacts
  <2>2. CASE Plain(p)
    <3>1. PICK l, m : Step(p, l, m) /\ CanContinue(p, l, m)
      BY <2>1, <2>2 DEF Plain, Continues
    <3>2. pc'[p] = l /\ SameCommand(p, mem'[p]) /\ (mem'[p].own => mem[p].own)
      BY <3>1, StepFacts DEF CanContinue
    <3>3. UNCHANGED <<lease, claim>>
      BY <2>2 DEF Plain
    <3>4. Holds(p)
      BY <1>1, <3>2, <3>3 DEF Holds, SameCommand, Ws
    <3>. QED BY <3>1, <3>2, <3>3, <3>4 DEF CanContinue, ClaimGuard, ClaimKnown, SameCommand, Ws
  <2>3. CASE Inserts(p)
    <3>1. /\ pc'[p] = "al_finish" /\ mem'[p] = mem[p] /\ Ws(p) \in Workspaces
          /\ claim' = [claim EXCEPT ![Ws(p)] = mem[p].claim]
      BY <2>3, StepFacts, TypedHere DEF Inserts
    <3>. QED BY <3>1, TypedHere DEF StoreTyped, Ws
  <2>4. CASE Withdraws(p) \/ Creates(p)
    BY <1>1, <2>4, StepFacts DEF Withdraws, Creates
  <2>5. CASE Starts(p)
    BY <1>1, <2>5, StepFacts DEF Starts, CanStart
  <2>6. CASE Admits(p)
    BY <1>1, <2>6, StepFacts DEF Admits, GoesOnOwning
  <2>7. CASE Closes(p)
    BY <1>1, <2>1, <2>7, StepFacts DEF Closes, OwnedLabel, Label
  <2>. QED BY <2>1, <2>2, <2>3, <2>4, <2>5, <2>6, <2>7 DEF ProtocolStep, Confirms,
              Publishes, Releases, Buries
<1>. QED BY <1>1, OthersKnow DEF ClaimKnown, Ws

-----------------------------------------------------------------------------
(* The invariant, and what follows from it. *)

Inv == Typed /\ Recorded /\ CreationsRun /\ ClaimsInv

LEMMA InitInv == Init => Inv
<1>. SUFFICES ASSUME Init PROVE Inv
  OBVIOUS
<1>1. Typed
  BY InitTyped
<1>2. Recorded /\ CreationsRun
  BY DEF Init, Recorded, CreationsRun, Unrecorded, NoLease
<1>3. \A p \in Processes : pc[p] = "idle" /\ mem[p].cmd = "none"
  BY DEF Init, Blank
<1>4. OwnClaims /\ ClaimsIssued /\ ClaimKnown /\ HeldClaimsAreActive
  BY <1>3 DEF Init, OwnClaims, ClaimsIssued, ClaimKnown, HeldClaimsAreActive
<1>. QED BY <1>1, <1>2, <1>4 DEF Inv, ClaimsInv

LEMMA WorkInv ==
  ASSUME Inv, NEW p \in Processes, Work(p)
  PROVE  Inv'
<1>1. ProtocolStep(p) /\ Typed'
  BY WorkProtocol, WorkTyped DEF Inv
<1>2. OwnClaims' /\ ClaimsIssued' /\ ClaimKnown' /\ HeldClaimsAreActive'
  BY <1>1, OwnClaimsStep, ClaimsIssuedStep, ClaimKnownStep, HeldStep DEF Inv
<1>3. Recorded' /\ CreationsRun'
  BY <1>1, RecordedStep, CreationStep DEF Inv
<1>. QED BY <1>1, <1>2, <1>3 DEF Inv, ClaimsInv

\* A death forgets what the process knew.
LEMMA CrashInv ==
  ASSUME Inv, NEW p \in Processes, Crash(p)
  PROVE  Inv'
<1>1. Typed' /\ pc'[p] = "idle" /\ mem'[p] = Blank /\ Frame(p)
  BY CrashTyped, EndFacts DEF Inv, Crash
<1>2. UNCHANGED <<wsState, lease, claim, createOp, issued, held>>
  BY DEF Crash, db, history
<1>3. Recorded' /\ CreationsRun'
  BY <1>1, <1>2 DEF Inv, Recorded, CreationsRun, Unrecorded, Frame, Ws
<1>4. OwnClaims' /\ ClaimsIssued' /\ HeldClaimsAreActive'
  BY <1>1, <1>2 DEF Inv, ClaimsInv, OwnClaims, ClaimsIssued, HeldClaimsAreActive, Frame, Blank
<1>5. ClaimKnown'
  BY <1>1, <1>2 DEF Inv, ClaimsInv, ClaimKnown, Frame, Holds, Ws
<1>. QED BY <1>1, <1>3, <1>4, <1>5 DEF Inv, ClaimsInv

LEMMA ExpireFacts ==
  ASSUME Typed, NEW w \in Workspaces, Expire(w)
  PROVE  /\ lease[w] # NoLease /\ lease'[w].kind = lease[w].kind
         /\ lease'[w].by = lease[w].by /\ lease'[w].live = FALSE
         /\ \A v \in Workspaces : v # w => lease'[v] = lease[v]
<1>1. lease \in [Workspaces -> Lease] /\ lease[w] \in Lease
  BY DEF Typed, TypeOK
<1>2. lease[w] \in [kind : Kind, by : Processes, live : BOOLEAN]
  BY <1>1 DEF Expire, Lease, NoLease
<1>3. lease' = [lease EXCEPT ![w].live = FALSE]
  BY DEF Expire
<1>. QED BY <1>1, <1>2, <1>3 DEF NoLease, Kind

LEMMA ExpireInv ==
  ASSUME Inv, NEW w \in Workspaces, Expire(w)
  PROVE  Inv'
<1>1. Typed'
  BY ExpireTyped DEF Inv
<1>2. UNCHANGED <<wsState, claim, createOp, pc, mem, issued, held>>
  BY DEF Expire, control, history
<1>3. Recorded' /\ CreationsRun'
  BY <1>2, ExpireFacts DEF Inv, Recorded, CreationsRun, Ws
<1>4. ClaimKnown'
  <2>1. ASSUME NEW p \in Processes, Holds(p)', pc[p] # "idle"
        PROVE  Holds(p)
    BY <1>2, <2>1, ExpireFacts, TypedHere DEF Inv, Holds, Ws
  <2>. QED BY <1>2, <2>1 DEF Inv, ClaimsInv, ClaimKnown, Ws
<1>5. OwnClaims' /\ ClaimsIssued' /\ HeldClaimsAreActive'
  BY <1>2 DEF Inv, ClaimsInv, OwnClaims, ClaimsIssued, HeldClaimsAreActive
<1>. QED BY <1>1, <1>3, <1>4, <1>5 DEF Inv, ClaimsInv

LEMMA QuietInv ==
  ASSUME Inv, Typed',
         UNCHANGED <<wsState, lease, claim, createOp, pc, mem, issued, held>>
  PROVE  Inv'
  BY DEF Inv, Recorded, CreationsRun, ClaimsInv, OwnClaims, ClaimsIssued, ClaimKnown,
         HeldClaimsAreActive, Holds, Ws

LEMMA NextInv ==
  ASSUME Inv, [Next]_vars
  PROVE  Inv'
<1>1. ASSUME NEW w \in Workspaces, NEW r \in Repos, UserEdit(w, r)
      PROVE  Inv'
  BY <1>1, UserEditTyped, QuietInv DEF Inv, UserEdit, db, control, history
<1>2. CASE UNCHANGED vars
  BY <1>2, StutterTyped, QuietInv DEF Inv, vars
<1>. QED BY <1>1, <1>2, WorkInv, CrashInv, ExpireInv DEF Next

THEOREM SpecInv == Spec => []Inv
  BY InitInv, NextInv, PTL DEF Spec

\* A claim that a user was given, and has not lost to a release of that claim
\* or to a forced removal, is the active claim of its workspace, whatever
\* processes die, are suspended or recover each other's operations
\* (src/workspace.rs, src/gc.rs, src/reconciliation.rs).
THEOREM SpecHeldClaimsAreActive == Spec => []HeldClaimsAreActive
<1>1. Inv => HeldClaimsAreActive
  BY DEF Inv, ClaimsInv
<1>. QED BY <1>1, SpecInv, PTL

\* A creation reaches one outcome and keeps it: nobody recovers or finalizes a
\* creation twice (claim_expired_operation, finish_operation_in_transaction).
THEOREM SpecOneCreationOutcome == Spec => OneCreationOutcome
<1>1. ASSUME Inv, [Next]_vars
      PROVE  [\A w \in Workspaces :
                createOp[w] \in {"succeeded", "failed", "rolled_back"} =>
                    createOp'[w] = createOp[w]]_vars
  <2>1. ASSUME NEW p \in Processes, Work(p)
        PROVE  \A w \in Workspaces :
                  createOp[w] \in {"succeeded", "failed", "rolled_back"} =>
                      createOp'[w] = createOp[w]
    BY <1>1, <2>1, WorkProtocol, CreationStep DEF Inv
  <2>2. CASE UNCHANGED createOp
    BY <2>2
  <2>3. CASE UNCHANGED vars
    BY <2>3 DEF vars
  <2>. QED BY <1>1, <2>1, <2>2, <2>3 DEF Next, Crash, Expire, UserEdit, db
<1>. QED BY <1>1, SpecInv, PTL DEF Spec, OneCreationOutcome

-----------------------------------------------------------------------------
(* Leases, if no process outlives its own. *)

LEMMA LeasedNext ==
  ASSUME Stalls = FALSE, Inv, Leased, [Next]_vars
  PROVE  Leased'
<1>1. ASSUME NEW p \in Processes, Work(p)
      PROVE  Leased'
  BY <1>1, WorkProtocol, LeasedStep DEF Inv
<1>2. ASSUME NEW p \in Processes, Crash(p)
      PROVE  Leased'
  <2>1. pc'[p] = "idle" /\ Frame(p) /\ UNCHANGED lease
    BY <1>2, EndFacts DEF Inv, Crash, db
  <2>. QED BY <2>1 DEF Leased, Frame, Holds, Ws, OwnedLabel
<1>3. ASSUME NEW w \in Workspaces, Expire(w)
      PROVE  Leased'
  <2>1. ASSUME NEW p \in Processes, pc'[p] \in OwnedLabel
        PROVE  Holds(p)'
    <3>1. Holds(p) /\ pc'[p] = pc[p] /\ mem'[p] = mem[p] /\ Ws(p) \in Workspaces
      BY <1>3, <2>1, TypedHere DEF Leased, Expire, control, OwnedLabel, Inv
    <3>2. Ws(p) # w
      BY <1>3, <3>1 DEF Expire, OwnerAlive, Holds
    <3>3. lease'[Ws(p)] = lease[Ws(p)]
      BY <1>3, <3>1, <3>2, ExpireFacts DEF Inv
    <3>. QED BY <3>1, <3>3 DEF Holds, Ws
  <2>. QED BY <2>1 DEF Leased
<1>4. CASE UNCHANGED <<lease, pc, mem>>
  BY <1>4 DEF Leased, Holds, Ws
<1>. QED BY <1>1, <1>2, <1>3, <1>4 DEF Next, UserEdit, db, control, vars

\* While no process outlives its lease, whoever is about to change files of a
\* workspace holds its operation lease, so two processes never do at once
\* (run_command_with_heartbeat and the renewals around it in src/git.rs).
THEOREM SpecPhysicalWorkIsLeased ==
  ASSUME Stalls = FALSE
  PROVE  Spec => []PhysicalWorkIsLeased
<1>1. Init => Leased
  BY DEF Init, Leased, OwnedLabel
<1>2. Leased => PhysicalWorkIsLeased
  BY DEF Leased, PhysicalWorkIsLeased, PhysicalLabel, OwnedLabel, Label
<1>3. Inv /\ Leased /\ [Next]_vars => Leased'
  BY LeasedNext
<1>. QED BY <1>1, <1>2, <1>3, SpecInv, PTL DEF Spec

-----------------------------------------------------------------------------
(* Files: which worktrees a process may delete, and which it has found. *)

USE DEF Reconciling, ReturnLabel

\* The steps of a creation that makes worktrees, those of an undo that still
\* has worktrees to look at, and those that lead an allocation, a release or a
\* claim from its inspection of the worktrees to its end.
Building == {"cr_mkdir", "cr_intent", "cr_add", "cr_attach", "cr_next", "cr_final"}
Undoing  == {"rv_observe", "rv_renew", "rv_remove", "rv_row", "rb_remove", "rb_row"}
Granting == {"align_step", "align_checkout", "align_record", "al_claim", "al_finish",
             "cl_publish"}

\* A reconciliation counts as the step it returns to.
Toward(l, m) == IF l \in Reconciling THEN m.ret ELSE l

Making(l, m) == Toward(l, m) \in Building \cup Undoing

\* Whoever makes worktrees or undoes them works for a creation.
CreationsAreLeased ==
    \A p \in Processes : Making(pc[p], mem[p]) => lease[Ws(p)].kind = "create"

\* No user holds a workspace whose creation is unfinished.
CreationsUnheld ==
    \A w \in Workspaces, c \in Claims : lease[w].kind = "create" => held[c] # w

\* The worktrees d of its workspace that a process knows to be there.
Found(l, m, d) ==
    /\ l = "cr_begin" => m.done = {}
    /\ l \in Granting => \A r \in Repos : d[r] # "absent"
    /\ Toward(l, m) \in Building => \A r \in m.done : d[r] # "absent"
    /\ l = "cr_attach" \/ Toward(l, m) = "cr_next" => d[m.cur] # "absent"
    /\ Toward(l, m) = "cr_final" => m.done = Repos

FoundStays == \A p \in Processes : Found(pc[p], mem[p], disk[Ws(p)])

\* A step that leaves every worktree and its local changes where they are, and
\* one that may not.
Spares ==
    \A w \in Workspaces, r \in Repos :
        /\ disk[w][r] # "absent" => disk'[w][r] # "absent"
        /\ disk[w][r] = "dirty" => disk'[w][r] = "dirty"

Deletes(p) ==
    /\ pc[p] \in {"rv_remove", "rb_remove", "rm_remove"}
    /\ \A w \in Workspaces \ {Ws(p)} : disk'[w] = disk[w]

\* What each step of a process does to the files and to what it knows of them.
Keeps(p) ==
    Found(pc[p], mem[p], disk[Ws(p)]) => Found(pc'[p], mem'[p], disk'[mem'[p].ws])

StaysLeased(p) ==
    Making(pc'[p], mem'[p]) =>
        \/ Making(pc[p], mem[p]) /\ mem'[p].ws = Ws(p) /\ UNCHANGED lease
        \/ lease'[mem'[p].ws].kind = "create"

FileStep(p) == Keeps(p) /\ StaysLeased(p) /\ (Spares \/ Deletes(p))

\* The kinds of steps: away from the worktrees, along a reconciliation, through
\* an undo, and from worktree to worktree.
Aside(p) ==
    Toward(pc'[p], mem'[p]) \notin Building \cup Undoing \cup Granting \cup {"cr_begin"}

Along(p) ==
    /\ pc[p] \in Reconciling
    /\ \/ pc'[p] \in Reconciling /\ mem'[p].ret = mem[p].ret
       \/ pc'[p] = mem[p].ret /\ mem[p].ret \in ReturnLabel
    /\ mem'[p].done = mem[p].done /\ mem'[p].cur = mem[p].cur

Undoes(p) == pc'[p] \in Undoing /\ Making(pc[p], mem[p])

Grants(p) ==
    /\ pc'[p] \in Granting
    /\ pc[p] \in Granting \/ Present(Ws(p)) = Repos

\* A process that goes on with its command stays with its workspace.
LEMMA SameWorkspace ==
  ASSUME Typed, NEW p \in Processes, ProtocolStep(p), pc[p] # "idle", pc'[p] # "idle"
  PROVE  mem'[p].ws = Ws(p)
<1>1. ~End(p) /\ ~Starts(p)
  BY EndFacts DEF Starts
<1>2. \E l, m : Step(p, l, m) /\ SameCommand(p, m)
  BY <1>1 DEF ProtocolStep, Plain, Continues, CanContinue, Closes, Admits, GoesOnOwning,
     Creates, Inserts, Withdraws, Confirms, Publishes, Releases, Buries, SameCommand
<1>. QED BY <1>2, StepFacts DEF SameCommand, Ws

\* The call of a reconciliation remembers where to return.
LEMMA CallFacts ==
  ASSUME Typed, NEW p \in Processes, NEW m \in Memory, NEW ret, CallReconcile(p, ret, m)
  PROVE  /\ pc'[p] = "rc_read" /\ mem'[p].ret = ret
         /\ mem'[p].done = m.done /\ mem'[p].cur = m.cur
<1>1. pc'[p] = "rc_read" /\ mem'[p] = [m EXCEPT !.ret = ret]
  BY StepFacts DEF CallReconcile
<1>. QED BY <1>1 DEF Memory

LEMMA AsideOK ==
  ASSUME NEW p \in Processes, Aside(p)
  PROVE  Keeps(p) /\ StaysLeased(p)
  BY DEF Aside, Keeps, StaysLeased, Found, Making, Toward, Building, Undoing, Granting

LEMMA EndAside ==
  ASSUME Typed, NEW p \in Processes, End(p)
  PROVE  Aside(p)
  BY EndFacts DEF Aside, Toward, Building, Undoing, Granting

LEMMA SameDisk ==
  ASSUME UNCHANGED disk
  PROVE  Spares
  BY DEF Spares

LEMMA AlongOK ==
  ASSUME Typed, NEW p \in Processes, ProtocolStep(p), Along(p), UNCHANGED <<disk, lease>>
  PROVE  FileStep(p)
<1>0. mem'[p].ws = Ws(p)
  BY SameWorkspace DEF Along
<1>1. Toward(pc'[p], mem'[p]) = Toward(pc[p], mem[p])
  BY DEF Along, Toward
<1>2. Keeps(p)
  BY <1>0, <1>1 DEF Along, Keeps, Found, Granting
<1>3. StaysLeased(p)
  BY <1>0, <1>1 DEF Along, StaysLeased, Making
<1>. QED BY <1>2, <1>3, SameDisk DEF FileStep

LEMMA UndoesOK ==
  ASSUME Typed, NEW p \in Processes, ProtocolStep(p), pc[p] # "idle", Undoes(p),
         UNCHANGED lease
  PROVE  Keeps(p) /\ StaysLeased(p)
  BY SameWorkspace DEF Undoes, Keeps, StaysLeased, Found, Toward, Building, Undoing, Granting

LEMMA GrantsOK ==
  ASSUME Typed, NEW p \in Processes, ProtocolStep(p), pc[p] # "idle", Grants(p), Spares
  PROVE  FileStep(p)
<1>1. Ws(p) \in Workspaces /\ mem'[p].ws = Ws(p)
  BY TypedHere, SameWorkspace DEF Grants, Granting
<1>2. Keeps(p)
  BY <1>1 DEF Grants, Keeps, Found, Granting, Building, Toward, Present, Spares
<1>3. StaysLeased(p)
  BY <1>1 DEF Grants, StaysLeased, Making, Granting, Building, Undoing, Toward
<1>. QED BY <1>2, <1>3 DEF FileStep

\* What the leaves about a step of a process need.
LEMMA ControlTyped ==
  ASSUME Typed, NEW p \in Processes
  PROVE  /\ pc \in [Processes -> Label] /\ mem \in [Processes -> Memory]
         /\ mem[p] \in Memory
  BY DEF Typed, TypeOK

-----------------------------------------------------------------------------
(* What each step does to the files. *)

USE DEF Step

LEMMA ReconcileFiles ==
  ASSUME Typed, NEW p \in Processes, ReconcileNext(p), ProtocolStep(p)
  PROVE  FileStep(p)
<1>1. /\ LocalOK(pc[p], mem[p]) /\ mem[p] \in Memory
      /\ pc \in [Processes -> Label] /\ mem \in [Processes -> Memory]
  BY TypedHere, ControlTyped
<1>2. UNCHANGED <<disk, lease>>
  BY DEF ReconcileNext, ReconcileRead, ReconcileObserve, ReconcileAbort, ReconcileWrite,
         ReconcileFinish, db, files
<1>. SUFFICES Along(p)
  BY <1>2, AlongOK
<1>3. ASSUME NEW s, Return(p, s), pc[p] \in Reconciling
      PROVE  Along(p)
  BY <1>1, <1>3 DEF Return, Along, LocalOK, Memory, Ws
<1>4. CASE ReconcileRead(p)
  <2>1. \/ Return(p, "removed")
        \/ Step(p, "rc_observe", [mem[p] EXCEPT !.rows = row[Ws(p)], !.todo = Repos])
    BY <1>4 DEF ReconcileRead
  <2>2. CASE Step(p, "rc_observe", [mem[p] EXCEPT !.rows = row[Ws(p)], !.todo = Repos])
    BY <1>1, <1>4, <2>2 DEF ReconcileRead, Along, Memory, Ws
  <2>. QED BY <1>3, <1>4, <2>1, <2>2 DEF ReconcileRead
<1>5. CASE ReconcileObserve(p)
  BY <1>1, <1>5 DEF ReconcileObserve, Along, Memory, Ws
<1>6. CASE ReconcileAbort(p)
  BY <1>3, <1>6 DEF ReconcileAbort
<1>7. CASE ReconcileWrite(p)
  BY <1>1, <1>7 DEF ReconcileWrite, Along, Ws
<1>8. CASE ReconcileFinish(p)
  BY <1>3, <1>8 DEF ReconcileFinish
<1>. QED BY <1>4, <1>5, <1>6, <1>7, <1>8 DEF ReconcileNext

\* Recovery goes on with a command that has found nothing yet.
LEMMA AfterRecoveryFiles ==
  ASSUME Typed, NEW p \in Processes, NEW o, AfterRecovery(p, o)
  PROVE  Keeps(p) /\ StaysLeased(p)
<1>1. pc \in [Processes -> Label] /\ mem \in [Processes -> Memory] /\ mem[p] \in Memory
  BY ControlTyped
<1>2. CASE mem[p].cmd = "create" /\ GoOn(p)
  <2>2. pc'[p] = "cr_begin" /\ mem'[p].done = {}
    BY <1>1, <1>2 DEF GoOn, Memory, Step
  <2>. QED BY <2>2 DEF Keeps, StaysLeased, Found, Making, Toward, Building, Undoing, Granting
<1>3. CASE mem[p].cmd # "create" /\ GoOn(p)
  <2>1. pc'[p] \in {"al_admit", "rec_begin", "gc_scan", "rm_refresh"}
    BY <1>1, <1>3 DEF GoOn, Step
  <2>2. Aside(p)
    BY <2>1 DEF Aside, Toward, Building, Undoing, Granting
  <2>. QED BY <2>2, AsideOK
<1>. QED BY <1>2, <1>3, EndAside, AsideOK DEF AfterRecovery

LEMMA RecoverFiles ==
  ASSUME Typed, NEW p \in Processes, RecoverNext(p), ProtocolStep(p)
  PROVE  FileStep(p)
<1>. USE DEF Toward, Building, Undoing, Granting
<1>1. /\ StoreTyped /\ (pc[p] # "idle" => Ws(p) \in Workspaces)
      /\ pc \in [Processes -> Label] /\ mem \in [Processes -> Memory] /\ mem[p] \in Memory
  BY TypedHere, ControlTyped
<1>2. CASE RecoverRead(p)
  <2>1. Aside(p) \/ \E o : AfterRecovery(p, o)
    BY <1>1, <1>2, EndAside DEF RecoverRead, Aside
  <2>. QED BY <1>2, <2>1, AsideOK, AfterRecoveryFiles, SameDisk
           DEF FileStep, RecoverRead, files
<1>3. CASE TakeOver(p)
  <2>1. Spares /\ Ws(p) \in Workspaces
    BY <1>1, <1>3, SameDisk DEF TakeOver, files
  <2>2. CASE AfterRecovery(p, "active")
    BY <2>1, <2>2, AfterRecoveryFiles DEF FileStep
  <2>3. CASE CallReconcile(p, "rv_close", [mem[p] EXCEPT !.own = TRUE])
    <3>1. Aside(p)
      BY <1>1, <2>3 DEF CallReconcile, Aside, Memory
    <3>. QED BY <2>1, <3>1, AsideOK DEF FileStep
  <2>4. CASE InsertLease(p, "create")
             /\ Step(p, "rv_observe", [mem[p] EXCEPT !.own = TRUE, !.rows = row[Ws(p)]])
    <3>1. pc'[p] = "rv_observe" /\ mem'[p].ws = Ws(p)
      BY <1>1, <2>4, StepFacts DEF Memory, Ws
    <3>2. lease'[Ws(p)].kind = "create"
      BY <1>1, <2>1, <2>4 DEF InsertLease, StoreTyped
    <3>. QED BY <2>1, <3>1, <3>2 DEF FileStep, Keeps, StaysLeased, Found
  <2>. QED BY <1>3, <2>2, <2>3, <2>4 DEF TakeOver
<1>4. CASE RecoverClose(p) \/ RecoverFinalize(p) \/ RecoverWorkspace(p)
  <2>1. End(p) \/ \E o : AfterRecovery(p, o)
    BY <1>4 DEF RecoverClose, RecoverFinalize, RecoverWorkspace
  <2>2. UNCHANGED disk
    BY <1>4 DEF RecoverClose, RecoverFinalize, RecoverWorkspace, files
  <2>. QED BY <2>1, <2>2, EndAside, AsideOK, AfterRecoveryFiles, SameDisk DEF FileStep
<1>5. CASE RecoverObserve(p)
  <2>1. pc[p] = "rv_observe" /\ pc'[p] \in {"rv_attach", "rv_renew"}
    BY <1>1, <1>5 DEF RecoverObserve
  <2>2. Aside(p) \/ Undoes(p)
    BY <2>1 DEF Aside, Undoes, Making
  <2>. QED BY <1>5, <2>2, AsideOK, UndoesOK, SameDisk DEF FileStep, RecoverObserve, files, db
<1>6. CASE RecoverAbort(p) \/ RecoverAttach(p) \/ RecoverDirectory(p) \/ RecoverOperation(p)
  <2>1. Aside(p)
    BY <1>1, <1>6, EndAside DEF RecoverAbort, RecoverAttach, RecoverDirectory,
       RecoverOperation, Aside
  <2>2. UNCHANGED disk
    BY <1>6 DEF RecoverAbort, RecoverAttach, RecoverDirectory, RecoverOperation, files
  <2>. QED BY <2>1, <2>2, AsideOK, SameDisk DEF FileStep
<1>7. CASE RecoverRenew(p)
  <2>1. Undoes(p)
    BY <1>1, <1>7 DEF RecoverRenew, Undoes, Making, Memory, Ws
  <2>. QED BY <1>7, <2>1, UndoesOK, SameDisk DEF FileStep, RecoverRenew, files, db
<1>8. CASE RecoverRemove(p)
  <2>1. Undoes(p)
    BY <1>1, <1>8 DEF RecoverRemove, Undoes, Making, Memory, Ws
  <2>2. Deletes(p)
    BY <1>1, <1>8 DEF RecoverRemove, Deletes, GitRemove, GitRemoveFails, SetDisk, StoreTyped
  <2>. QED BY <1>8, <2>1, <2>2, UndoesOK DEF FileStep, RecoverRemove, db
<1>9. CASE RecoverRow(p)
  <2>1. Aside(p) \/ Undoes(p)
    BY <1>1, <1>9 DEF RecoverRow, Undoes, Aside, Making, Memory, Ws
  <2>. QED BY <1>9, <2>1, AsideOK, UndoesOK, SameDisk DEF FileStep, RecoverRow, files
<1>. QED BY <1>2, <1>3, <1>4, <1>5, <1>6, <1>7, <1>8, <1>9 DEF RecoverNext

LEMMA AccessFiles ==
  ASSUME Typed, NEW p \in Processes, AccessNext(p), ProtocolStep(p)
  PROVE  FileStep(p)
<1>. USE DEF Toward, Building, Undoing, Granting
<1>1. /\ StoreTyped /\ (pc[p] # "idle" => Ws(p) \in Workspaces)
      /\ pc \in [Processes -> Label] /\ mem \in [Processes -> Memory] /\ mem[p] \in Memory
  BY TypedHere, ControlTyped
<1>2. AlignCheckout(p) \/ UNCHANGED disk
  BY DEF AccessNext, AllocateStart, AllocateAdmit, AllocateCheck, AllocateClaim,
     AllocateFinish, AccessBegin, ClaimStart, ClaimInspect, ClaimPublish, ReleaseStart,
     ReleaseCheck, ReleaseRecord, AlignPlan, AlignStep, AlignRecord, AlignDone,
     ExplicitReconcileStart, ExplicitReconcileBegin, ExplicitReconcileClose, files
<1>3. CASE AllocateStart(p) \/ ClaimStart(p) \/ ReleaseStart(p) \/ ExplicitReconcileStart(p)
  <2>1. Aside(p)
    BY <1>1, <1>3 DEF AllocateStart, ClaimStart, ReleaseStart, ExplicitReconcileStart, Aside
  <2>. QED BY <1>2, <1>3, <2>1, AsideOK, SameDisk DEF FileStep, AlignCheckout, AllocateStart,
              ClaimStart, ReleaseStart, ExplicitReconcileStart
<1>4. CASE AllocateAdmit(p) \/ AllocateCheck(p) \/ AllocateFinish(p) \/ ClaimPublish(p)
           \/ ReleaseCheck(p) \/ ReleaseRecord(p) \/ ExplicitReconcileClose(p)
  <2>1. End(p) \/ pc'[p] \in {"al_begin", "align_plan", "fail_op"}
    BY <1>1, <1>4 DEF AllocateAdmit, AllocateCheck, AllocateFinish, ClaimPublish,
       ReleaseCheck, ReleaseRecord, ExplicitReconcileClose
  <2>2. Aside(p)
    BY <2>1, EndAside DEF Aside
  <2>. QED BY <1>2, <1>4, <2>2, AsideOK, SameDisk DEF FileStep, AlignCheckout, AllocateAdmit,
              AllocateCheck, AllocateFinish, ClaimPublish, ReleaseCheck, ReleaseRecord,
              ExplicitReconcileClose
<1>5. CASE AccessBegin(p) \/ ExplicitReconcileBegin(p)
  <2>. DEFINE m == [mem[p] EXCEPT !.own = TRUE]
  <2>0. m \in Memory
    BY <1>1 DEF Memory
  <2>1. \/ End(p) \/ pc'[p] = "cl_inspect"
        \/ pc'[p] = "rc_read" /\ mem'[p].ret \in {"al_check", "rl_check", "rec_close"}
    <3>1. CASE AccessBegin(p)
      <4>1. \/ End(p) \/ Step(p, "cl_inspect", m)
            \/ CallReconcile(p, "al_check", m) \/ CallReconcile(p, "rl_check", m)
        BY <3>1 DEF AccessBegin
      <4>. QED BY <1>1, <2>0, <4>1, CallFacts
    <3>2. CASE ExplicitReconcileBegin(p)
      BY <2>0, <3>2, CallFacts DEF ExplicitReconcileBegin
    <3>. QED BY <1>5, <3>1, <3>2
  <2>2. Aside(p)
    BY <2>1, EndAside DEF Aside
  <2>. QED BY <1>2, <1>5, <2>2, AsideOK, SameDisk DEF FileStep, AlignCheckout, AccessBegin,
              ExplicitReconcileBegin
<1>6. CASE AllocateClaim(p) \/ AlignStep(p) \/ AlignRecord(p) \/ AlignDone(p)
  <2>1. /\ pc[p] \in Granting
        /\ pc'[p] \in {"al_finish", "al_claim", "align_checkout", "align_record", "align_step"}
              \cup {"fail_op", "rl_record"}
    BY <1>1, <1>6 DEF AllocateClaim, AlignStep, AlignRecord, AlignDone
  <2>2. Grants(p) \/ Aside(p)
    BY <2>1 DEF Grants, Aside
  <2>3. UNCHANGED disk
    BY <1>2, <1>6 DEF AlignCheckout, AllocateClaim, AlignStep, AlignRecord, AlignDone
  <2>. QED BY <2>1, <2>2, <2>3, AsideOK, GrantsOK, SameDisk DEF FileStep
<1>7. CASE AlignPlan(p)
  <2>1. pc[p] = "align_plan" /\ UNCHANGED disk
    BY <1>7 DEF AlignPlan, files
  <2>2. \/ /\ pc'[p] = "align_step"
           /\ \A r \in Repos : disk[Ws(p)][r] \in {"clean", "branch", "moved"}
        \/ pc'[p] = "fail_op"
    BY <1>1, <1>7 DEF AlignPlan
  <2>3. Grants(p) \/ Aside(p)
    BY <2>2 DEF Grants, Aside, Present
  <2>. QED BY <2>1, <2>3, AsideOK, GrantsOK, SameDisk DEF FileStep
<1>8. CASE ClaimInspect(p)
  <2>1. pc[p] # "idle" /\ UNCHANGED disk
    BY <1>8 DEF ClaimInspect, files
  <2>2. \/ pc'[p] = "rc_read" /\ mem'[p].ret = "cl_reinspect"
        \/ pc'[p] = "cl_publish" /\ \A r \in Repos : disk[Ws(p)][r] # "absent"
        \/ pc'[p] = "fail_op"
    BY <1>1, <1>8 DEF ClaimInspect, ClaimableStructure, CallReconcile, Memory
  <2>3. Grants(p) \/ Aside(p)
    BY <2>2 DEF Grants, Aside, Present
  <2>. QED BY <2>1, <2>3, AsideOK, GrantsOK, SameDisk DEF FileStep
<1>9. CASE AlignCheckout(p)
  <2>1. pc[p] = "align_checkout" /\ pc'[p] \in {"align_record", "fail_op"}
    BY <1>1, <1>9 DEF AlignCheckout
  <2>2. Grants(p) \/ Aside(p)
    BY <2>1 DEF Grants, Aside
  <2>3. Spares
    <3>1. CASE UNCHANGED disk
      BY <3>1, SameDisk
    <3>2. CASE SetDisk(p, mem[p].cur,
                       IF disk[Ws(p)][mem[p].cur] = "dirty" THEN "dirty" ELSE "clean")
      BY <1>1, <2>1, <3>2 DEF SetDisk, Spares, StoreTyped
    <3>. QED BY <1>9, <3>1, <3>2 DEF AlignCheckout
  <2>. QED BY <2>1, <2>2, <2>3, AsideOK, GrantsOK DEF FileStep
<1>. QED BY <1>3, <1>4, <1>5, <1>6, <1>7, <1>8, <1>9 DEF AccessNext

\* A creation goes on to another of its steps with the worktrees it has made.
LEMMA BuildsOK ==
  ASSUME Typed, NEW p \in Processes, ProtocolStep(p), pc[p] \in Building,
         Toward(pc'[p], mem'[p]) \in Building,
         Found(pc[p], mem[p], disk[Ws(p)]) =>
             Found(pc'[p], mem'[p], disk'[Ws(p)]),
         UNCHANGED lease, Spares
  PROVE  FileStep(p)
<1>1. mem'[p].ws = Ws(p)
  BY SameWorkspace DEF Building, Toward
<1>. QED BY <1>1 DEF FileStep, Keeps, StaysLeased, Making, Toward, Building

LEMMA RollbackFiles ==
  ASSUME Typed, NEW p \in Processes, ProtocolStep(p), pc[p] \in Building,
         NEW m, NEW failed, NEW keep, Rollback(p, m, failed, keep),
         UNCHANGED lease, Spares
  PROVE  FileStep(p)
<1>1. pc'[p] \in {"rb_dir", "rb_remove"}
  BY ControlTyped DEF Rollback
<1>2. Aside(p) \/ Undoes(p)
  BY <1>1 DEF Aside, Undoes, Making, Toward, Building, Undoing, Granting
<1>. QED BY <1>2, AsideOK, UndoesOK DEF FileStep, Building

LEMMA BuildFiles ==
  ASSUME Typed, NEW p \in Processes, ProtocolStep(p),
         CreateMkdir(p) \/ CreateIntent(p) \/ CreateAdd(p) \/ CreateAttach(p)
           \/ CreateNext(p) \/ CreateFinalize(p)
  PROVE  FileStep(p)
<1>. USE DEF Toward, Building, Found, Granting
<1>1. /\ StoreTyped /\ (pc[p] # "idle" => Ws(p) \in Workspaces)
      /\ pc \in [Processes -> Label] /\ mem \in [Processes -> Memory] /\ mem[p] \in Memory
  BY TypedHere, ControlTyped
<1>2. ASSUME End(p), UNCHANGED disk
      PROVE  FileStep(p)
  BY <1>2, EndAside, AsideOK, SameDisk DEF FileStep
<1>3. CASE CreateMkdir(p)
  <2>1. pc[p] = "cr_mkdir" /\ UNCHANGED lease /\ UNCHANGED disk
    BY <1>3 DEF CreateMkdir, db
  <2>2. \/ End(p)
        \/ \E keep : Rollback(p, mem[p], {}, keep)
        \/ Step(p, "cr_intent", mem[p])
    BY <1>3 DEF CreateMkdir
  <2>3. CASE Step(p, "cr_intent", mem[p])
    BY <1>1, <2>1, <2>3, BuildsOK, SameDisk
  <2>. QED BY <1>2, <2>1, <2>2, <2>3, RollbackFiles, SameDisk
<1>4. CASE CreateIntent(p)
  <2>1. pc[p] = "cr_intent" /\ UNCHANGED lease /\ UNCHANGED disk
    BY <1>4 DEF CreateIntent, db, files
  <2>2. PICK r \in Repos :
           \/ Step(p, "cr_add", [mem[p] EXCEPT !.cur = r])
           \/ Rollback(p, [mem[p] EXCEPT !.cur = r], {r}, FALSE)
    BY <1>4 DEF CreateIntent
  <2>3. CASE Step(p, "cr_add", [mem[p] EXCEPT !.cur = r])
    <3>1. pc'[p] = "cr_add" /\ mem'[p].done = mem[p].done
      BY <1>1, <2>3 DEF Memory
    <3>. QED BY <2>1, <3>1, BuildsOK, SameDisk
  <2>. QED BY <2>1, <2>2, <2>3, RollbackFiles, SameDisk
<1>5. CASE CreateAdd(p)
  <2>1. pc[p] = "cr_add" /\ UNCHANGED lease /\ mem[p].cur \in Repos
    BY <1>5, TypedAt DEF CreateAdd, db, At, AtRepository
  <2>2. \/ disk[Ws(p)][mem[p].cur] = "absent" /\ SetDisk(p, mem[p].cur, "clean")
           /\ Step(p, "cr_attach", mem[p])
        \/ Rollback(p, mem[p], {mem[p].cur}, FALSE)
           /\ \/ UNCHANGED disk
              \/ disk[Ws(p)][mem[p].cur] = "absent" /\ SetDisk(p, mem[p].cur, "dirty")
    BY <1>5 DEF CreateAdd
  <2>3. ASSUME NEW content \in Contents, disk[Ws(p)][mem[p].cur] = "absent",
               SetDisk(p, mem[p].cur, content)
        PROVE  /\ Spares
               /\ disk'[Ws(p)][mem[p].cur] = content
    BY <1>1, <2>1, <2>3 DEF SetDisk, Spares, StoreTyped
  <2>4. CASE disk[Ws(p)][mem[p].cur] = "absent" /\ SetDisk(p, mem[p].cur, "clean")
             /\ Step(p, "cr_attach", mem[p])
    <3>1. /\ pc'[p] = "cr_attach" /\ mem'[p] = mem[p]
          /\ Spares /\ disk'[Ws(p)][mem[p].cur] = "clean"
      BY <1>1, <2>3, <2>4 DEF Contents
    <3>2. Found(pc[p], mem[p], disk[Ws(p)]) => Found(pc'[p], mem'[p], disk'[Ws(p)])
      BY <1>1, <2>1, <3>1 DEF Spares, Memory
    <3>. QED BY <2>1, <3>1, <3>2, BuildsOK
  <2>5. CASE \/ UNCHANGED disk
             \/ disk[Ws(p)][mem[p].cur] = "absent" /\ SetDisk(p, mem[p].cur, "dirty")
    <3>1. Spares
      BY <2>3, <2>5, SameDisk DEF Contents
    <3>. QED BY <2>1, <2>2, <2>4, <3>1, RollbackFiles
  <2>. QED BY <2>2, <2>4, <2>5
<1>6. CASE CreateAttach(p)
  <2>1. pc[p] = "cr_attach" /\ UNCHANGED lease /\ UNCHANGED disk
    BY <1>6 DEF CreateAttach, files
  <2>2. \/ CallReconcile(p, "cr_next", mem[p]) /\ disk[Ws(p)][mem[p].cur] # "absent"
        \/ Rollback(p, mem[p], {mem[p].cur}, FALSE)
    BY <1>6 DEF CreateAttach
  <2>3. CASE CallReconcile(p, "cr_next", mem[p]) /\ disk[Ws(p)][mem[p].cur] # "absent"
    <3>1. /\ pc'[p] = "rc_read" /\ mem'[p].ret = "cr_next"
          /\ mem'[p].done = mem[p].done /\ mem'[p].cur = mem[p].cur
      BY <1>1, <2>3, CallFacts
    <3>. QED BY <2>1, <2>3, <3>1, BuildsOK, SameDisk
  <2>. QED BY <2>1, <2>2, <2>3, RollbackFiles, SameDisk
<1>7. CASE CreateNext(p)
  <2>. DEFINE done == mem[p].done \cup {mem[p].cur}
              m    == [mem[p] EXCEPT !.done = done, !.cur = None]
  <2>1. /\ pc[p] = "cr_next" /\ UNCHANGED lease /\ UNCHANGED disk
        /\ done \subseteq Repos
    BY <1>1, <1>7, TypedAt DEF CreateNext, db, files, At, AtRepository, Memory
  <2>2. m \in Memory /\ m.done = done
    BY <1>1, <2>1 DEF Memory
  <2>3. \/ Rollback(p, mem[p], {mem[p].cur}, FALSE)
        \/ done = Repos /\ CallReconcile(p, "cr_final", m)
        \/ Step(p, "cr_intent", m)
    BY <1>7 DEF CreateNext
  <2>4. Found(pc[p], mem[p], disk[Ws(p)]) => \A r \in done : disk[Ws(p)][r] # "absent"
    BY <2>1
  <2>5. CASE done = Repos /\ CallReconcile(p, "cr_final", m)
    <3>. HIDE DEF m
    <3>0. pc'[p] = "rc_read" /\ mem'[p].ret = "cr_final" /\ mem'[p].done = m.done
      BY <2>2, <2>5, CallFacts
    <3>1. pc'[p] = "rc_read" /\ mem'[p].ret = "cr_final" /\ mem'[p].done = Repos
      BY <2>2, <2>5, <3>0
    <3>. QED BY <2>1, <2>4, <2>5, <3>1, BuildsOK, SameDisk
  <2>6. CASE Step(p, "cr_intent", m)
    <3>1. pc'[p] = "cr_intent" /\ mem'[p].done = done
      BY <1>1, <2>2, <2>6
    <3>. QED BY <2>1, <2>4, <3>1, BuildsOK, SameDisk
  <2>. QED BY <2>1, <2>3, <2>5, <2>6, RollbackFiles, SameDisk
<1>8. CASE CreateFinalize(p)
  <2>1. pc[p] = "cr_final" /\ UNCHANGED disk
    BY <1>8 DEF CreateFinalize, files
  <2>2. CanFinalize(p) => End(p)
    BY <1>8 DEF CreateFinalize
  <2>3. ~CanFinalize(p) => UNCHANGED lease /\ (Rollback(p, mem[p], {}, FALSE) \/ End(p))
    BY <1>8 DEF CreateFinalize
  <2>. QED BY <1>2, <2>1, <2>2, <2>3, RollbackFiles, SameDisk
<1>. QED BY <1>3, <1>4, <1>5, <1>6, <1>7, <1>8

LEMMA CreationFiles ==
  ASSUME Typed, NEW p \in Processes, CreationNext(p), ProtocolStep(p)
  PROVE  FileStep(p)
<1>. USE DEF Toward, Building, Undoing, Granting
<1>1. /\ StoreTyped /\ (pc[p] # "idle" => Ws(p) \in Workspaces)
      /\ pc \in [Processes -> Label] /\ mem \in [Processes -> Memory] /\ mem[p] \in Memory
  BY TypedHere, ControlTyped
<1>2. CASE ProvisionStart(p)
  <2>1. pc'[p] = "cr_begin" /\ mem'[p].done = {} /\ UNCHANGED disk
    BY <1>1, <1>2 DEF ProvisionStart, Blank, files
  <2>. QED BY <2>1, SameDisk DEF FileStep, Keeps, Found, StaysLeased, Making
<1>3. CASE CreateStart(p)
  <2>1. pc'[p] = "recover" /\ UNCHANGED disk
    BY <1>1, <1>3 DEF CreateStart, files
  <2>. QED BY <2>1, AsideOK, SameDisk DEF FileStep, Aside
<1>4. CASE CreateBegin(p)
  <2>. DEFINE m == [mem[p] EXCEPT !.own = TRUE]
  <2>1. /\ pc[p] = "cr_begin" /\ UNCHANGED disk
        /\ m \in Memory /\ m.done = mem[p].done /\ Ws(p) \in Workspaces
    BY <1>1, <1>4 DEF CreateBegin, files, Memory
  <2>2. End(p) \/ (InsertLease(p, "create") /\ CallReconcile(p, "cr_mkdir", m))
    <3>1. wsState[Ws(p)] # "none" => End(p)
      BY <1>4 DEF CreateBegin
    <3>2. wsState[Ws(p)] = "none" =>
              InsertLease(p, "create") /\ CallReconcile(p, "cr_mkdir", m)
      BY <1>4 DEF CreateBegin
    <3>. QED BY <3>1, <3>2
  <2>. HIDE DEF m
  <2>3. CASE InsertLease(p, "create") /\ CallReconcile(p, "cr_mkdir", m)
    <3>1. pc'[p] = "rc_read" /\ mem'[p].ret = "cr_mkdir" /\ mem'[p].done = mem[p].done
      BY <2>1, <2>3, CallFacts
    <3>2. mem'[p].ws = Ws(p)
      BY <2>1, <3>1, SameWorkspace
    <3>3. lease'[Ws(p)].kind = "create"
      BY <1>1, <2>1, <2>3 DEF InsertLease, StoreTyped
    <3>. QED BY <2>1, <3>1, <3>2, <3>3, SameDisk DEF FileStep, Keeps, Found, StaysLeased
  <2>. QED BY <2>1, <2>2, <2>3, EndAside, AsideOK, SameDisk DEF FileStep
<1>5. CASE RollbackRemove(p)
  <2>1. pc[p] = "rb_remove" /\ pc'[p] = "rb_row" /\ UNCHANGED lease
    BY <1>1, <1>5 DEF RollbackRemove, db
  <2>2. Deletes(p)
    BY <1>1, <1>5 DEF RollbackRemove, Deletes, GitRemove, GitRemoveFails, SetDisk, StoreTyped
  <2>. QED BY <2>1, <2>2, UndoesOK DEF FileStep, Undoes, Making
<1>6. CASE RollbackRow(p)
  <2>1. /\ pc[p] = "rb_row" /\ pc'[p] \in {"rb_dir", "rb_remove"}
        /\ UNCHANGED lease /\ UNCHANGED disk
    BY <1>1, <1>6 DEF RollbackRow, files
  <2>2. Aside(p) \/ Undoes(p)
    BY <2>1 DEF Aside, Undoes, Making
  <2>. QED BY <2>1, <2>2, AsideOK, UndoesOK, SameDisk DEF FileStep
<1>7. CASE RollbackDirectory(p) \/ RollbackClaim(p) \/ RollbackOperation(p)
           \/ RollbackWorkspace(p)
  <2>1. (End(p) \/ pc'[p] \in {"rb_claim", "rb_op", "rb_ws"}) /\ UNCHANGED disk
    BY <1>1, <1>7 DEF RollbackDirectory, RollbackClaim, RollbackOperation,
       RollbackWorkspace, files
  <2>2. Aside(p)
    BY <2>1, EndAside DEF Aside
  <2>. QED BY <2>1, <2>2, AsideOK, SameDisk DEF FileStep
<1>. QED BY <1>2, <1>3, <1>4, <1>5, <1>6, <1>7, BuildFiles DEF CreationNext

LEMMA RemovalFiles ==
  ASSUME Typed, NEW p \in Processes, RemovalNext(p), ProtocolStep(p)
  PROVE  FileStep(p)
<1>. USE DEF Toward, Building, Undoing, Granting
<1>1. /\ StoreTyped /\ (pc[p] # "idle" => Ws(p) \in Workspaces)
      /\ pc \in [Processes -> Label] /\ mem \in [Processes -> Memory] /\ mem[p] \in Memory
  BY TypedHere, ControlTyped
<1>2. ASSUME GiveUp(p)
      PROVE  Aside(p)
  <2>. DEFINE m == [mem[p] EXCEPT !.todo = {}]
  <2>1. m \in Memory /\ CallReconcile(p, "rm_fail", m)
    BY <1>1, <1>2 DEF GiveUp, Memory
  <2>. HIDE DEF m
  <2>. QED BY <2>1, CallFacts DEF Aside
<1>3. CASE RemovalBegin(p)
  <2>. DEFINE m == [mem[p] EXCEPT !.own = TRUE]
  <2>1. m \in Memory /\ (End(p) \/ CallReconcile(p, "rm_check", m)) /\ UNCHANGED disk
    BY <1>1, <1>3 DEF RemovalBegin, Memory, files
  <2>. HIDE DEF m
  <2>2. Aside(p)
    BY <2>1, CallFacts, EndAside DEF Aside
  <2>. QED BY <2>1, <2>2, AsideOK, SameDisk DEF FileStep
<1>4. CASE GcStart(p) \/ GcScan(p) \/ RemoveStart(p) \/ RemoveRefresh(p) \/ RemovalCheck(p)
  <2>1. /\ End(p) \/ pc'[p] \in {"recover", "gc_scan", "rm_begin", "rm_refresh", "rm_fail",
                                 "rm_renew", "fail_op"}
        /\ UNCHANGED disk
    BY <1>1, <1>4 DEF GcStart, GcScan, RemoveStart, RemoveRefresh, RemovalCheck, files
  <2>2. Aside(p)
    BY <2>1, EndAside DEF Aside
  <2>. QED BY <2>1, <2>2, AsideOK, SameDisk DEF FileStep
<1>5. CASE RemovalRenew(p) \/ RemovalDirectory(p) \/ RemovalRecord(p) \/ RemovalFail(p)
  <2>1. /\ End(p) \/ GiveUp(p) \/ pc'[p] \in {"rm_remove", "rm_record", "rm_fail"}
        /\ UNCHANGED disk
    BY <1>1, <1>5 DEF RemovalRenew, RemovalDirectory, RemovalRecord, RemovalFail, files
  <2>2. Aside(p)
    BY <1>2, <2>1, EndAside DEF Aside
  <2>. QED BY <2>1, <2>2, AsideOK, SameDisk DEF FileStep
<1>6. CASE RemovalRemove(p)
  <2>1. GiveUp(p) \/ pc'[p] = "rm_renew"
    BY <1>1, <1>6 DEF RemovalRemove
  <2>2. Deletes(p)
    BY <1>1, <1>6 DEF RemovalRemove, Deletes, GitRemove, GitRemoveFails, SetDisk, StoreTyped
  <2>3. Aside(p)
    BY <1>2, <2>1 DEF Aside
  <2>. QED BY <2>2, <2>3, AsideOK DEF FileStep
<1>. QED BY <1>3, <1>4, <1>5, <1>6 DEF RemovalNext

\* Every step of a process deletes only at the three removals, and knows the
\* worktrees it counts on to be there.
LEMMA WorkFiles ==
  ASSUME Typed, NEW p \in Processes, Work(p)
  PROVE  FileStep(p)
<1>1. ProtocolStep(p)
  BY WorkProtocol
<1>2. CASE FailOperation(p)
  BY <1>2, EndAside, AsideOK, SameDisk DEF FailOperation, FileStep, files
<1>. QED BY <1>1, <1>2, ReconcileFiles, RecoverFiles, AccessFiles, CreationFiles,
            RemovalFiles DEF Work

HIDE DEF Step

-----------------------------------------------------------------------------
(* Files, if no process outlives its lease. *)

\* A lease that a process works under keeps its kind through the steps of the
\* others.
LEMMA KindSurvives ==
  ASSUME Typed, Recorded, NEW p \in Processes, ProtocolStep(p),
         NEW q \in Processes \ {p}, pc[q] # "idle", Holds(q)
  PROVE  lease'[Ws(q)] = lease[Ws(q)]
<1>1. Ws(q) \in Workspaces /\ (Ws(q) # Ws(p) => lease'[Ws(q)] = lease[Ws(q)])
  BY Footprint, TypedHere
<1>2. CASE Ws(q) = Ws(p)
  <2>1. ~Holds(p) /\ lease[Ws(p)] # NoLease /\ lease[Ws(p)].live
    BY <1>2 DEF Holds, NoLease
  <2>2. ~Creates(p) /\ ~Admits(p)
    BY <1>1, <1>2, <2>1 DEF Creates, Admits, Recorded
  <2>. QED BY <2>1, <2>2 DEF ProtocolStep, Plain, Starts, Closes, Inserts, Confirms,
              Publishes, Releases, Withdraws, Buries, db
<1>. QED BY <1>1, <1>2

LEMMA MakingOwned ==
  ASSUME NEW l, NEW m, Making(l, m)
  PROVE  l \in OwnedLabel
  BY DEF Making, Toward, Building, Undoing, OwnedLabel, Label

LEMMA CreationsAreLeasedStep ==
  ASSUME Typed, Recorded, Leased, CreationsAreLeased, NEW p \in Processes, ProtocolStep(p),
         FileStep(p)
  PROVE  CreationsAreLeased'
<1>1. Frame(p)
  BY Footprint
<1>2. ASSUME NEW q \in Processes \ {p}, Making(pc'[q], mem'[q])
      PROVE  lease'[mem'[q].ws].kind = "create"
  <2>1. pc'[q] = pc[q] /\ mem'[q] = mem[q] /\ Making(pc[q], mem[q])
    BY <1>1, <1>2 DEF Frame
  <2>2. Holds(q) /\ pc[q] # "idle" /\ lease[Ws(q)].kind = "create"
    BY <2>1, MakingOwned DEF Leased, OwnedLabel, CreationsAreLeased
  <2>. QED BY <2>1, <2>2, KindSurvives DEF Ws
<1>3. Making(pc'[p], mem'[p]) => lease'[mem'[p].ws].kind = "create"
  BY DEF FileStep, StaysLeased, CreationsAreLeased
<1>. QED BY <1>2, <1>3 DEF CreationsAreLeased, Ws

LEMMA CreationsUnheldStep ==
  ASSUME Typed, Recorded, HeldClaimsAreActive, CreationsUnheld, NEW p \in Processes,
         ProtocolStep(p)
  PROVE  CreationsUnheld'
<1>. SUFFICES ASSUME NEW w \in Workspaces, NEW c \in Claims, lease'[w].kind = "create",
                     held'[c] = w
              PROVE  FALSE
  BY DEF CreationsUnheld
<1>1. StoreTyped /\ (pc[p] # "idle" => Ws(p) \in Workspaces)
  BY TypedHere
<1>2. lease[w].kind = "create" \/ (Creates(p) /\ w = Ws(p))
  <2>1. CASE w # Ws(p)
    BY <2>1, Footprint
  <2>2. CASE w = Ws(p) /\ Admits(p)
    BY <2>2, AdmitFacts
  <2>3. CASE w = Ws(p) /\ \E o : pc[p] # "idle" /\ CloseOperation(p, o)
    BY <1>1, <2>3, CloseFacts DEF NoLease
  <2>. QED BY <2>1, <2>2, <2>3 DEF ProtocolStep, Plain, Starts, Closes, Inserts, Confirms,
              Publishes, Releases, Withdraws, Buries, db
<1>3. held[c] = w
  <2>1. CASE Confirms(p) \/ Publishes(p)
    <3>1. w # Ws(p)
      BY <1>1, <2>1, CloseFacts DEF Confirms, Publishes, NoLease
    <3>. QED BY <1>1, <2>1, <3>1 DEF Confirms, Publishes, StoreTyped
  <2>2. CASE Releases(p) \/ Buries(p)
    BY <1>1, <2>2, StoreAssumption DEF Releases, Buries, StoreTyped
  <2>. QED BY <2>1, <2>2, HeldChanges
<1>4. CASE lease[w].kind = "create"
  BY <1>3, <1>4 DEF CreationsUnheld
<1>5. CASE Creates(p) /\ w = Ws(p)
  <2>1. claim[w] = None /\ held[c] # None
    BY <1>3, <1>5, StoreAssumption DEF Creates, Recorded
  <2>. QED BY <1>3, <2>1, HeldFacts
<1>. QED BY <1>2, <1>4, <1>5

\* Nobody deletes what another process has found.
LEMMA FoundStaysStep ==
  ASSUME Typed, Leased, FoundStays, NEW p \in Processes, ProtocolStep(p), FileStep(p)
  PROVE  FoundStays'
<1>. USE DEF Toward, Building, Granting
<1>1. Frame(p)
  BY Footprint
<1>2. ASSUME NEW q \in Processes \ {p}
      PROVE  Found(pc'[q], mem'[q], disk'[mem'[q].ws])
  <2>1. pc'[q] = pc[q] /\ mem'[q] = mem[q] /\ Found(pc[q], mem[q], disk[Ws(q)])
    BY <1>1 DEF Frame, FoundStays
  <2>2. CASE pc[q] \notin OwnedLabel
    BY <2>1, <2>2 DEF Found, OwnedLabel, Label
  <2>3. CASE pc[q] \in OwnedLabel
    <3>1. /\ Holds(q) /\ Ws(q) \in Workspaces /\ mem[q] \in Memory
          /\ LocalOK(pc[q], mem[q])
      BY <2>3, TypedHere DEF Leased, OwnedLabel
    <3>2. CASE Spares
      <4>1. pc[q] = "cr_attach" \/ Toward(pc[q], mem[q]) = "cr_next" => mem[q].cur \in Repos
        BY <3>1 DEF LocalOK, AtRepository
      <4>. QED BY <2>1, <3>1, <3>2, <4>1 DEF Found, Spares, Memory, Ws
    <3>3. CASE Deletes(p)
      <4>1. Holds(p)
        BY <3>3 DEF Deletes, Leased, OwnedLabel, Label
      <4>2. Ws(q) # Ws(p)
        BY <3>1, <4>1 DEF Holds
      <4>3. disk'[Ws(q)] = disk[Ws(q)]
        BY <3>1, <3>3, <4>2 DEF Deletes
      <4>. QED BY <2>1, <4>3 DEF Ws
    <3>. QED BY <3>2, <3>3 DEF FileStep
  <2>. QED BY <2>2, <2>3
<1>3. Found(pc'[p], mem'[p], disk'[mem'[p].ws])
  BY DEF FileStep, Keeps, FoundStays
<1>. QED BY <1>2, <1>3 DEF FoundStays, Ws

FilesInv == Inv /\ Leased /\ CreationsAreLeased /\ CreationsUnheld

LEMMA InitFiles == Init => FilesInv /\ FoundStays
<1>. SUFFICES ASSUME Init PROVE FilesInv /\ FoundStays
  OBVIOUS
<1>1. \A p \in Processes : pc[p] = "idle"
  BY DEF Init
<1>2. Leased /\ CreationsAreLeased /\ FoundStays
  BY <1>1 DEF Leased, OwnedLabel, CreationsAreLeased, FoundStays, Found, Making, Toward,
     Building, Undoing, Granting
<1>3. CreationsUnheld
  BY DEF Init, CreationsUnheld, NoLease
<1>. QED BY <1>2, <1>3, InitInv DEF FilesInv

LEMMA FilesNext ==
  ASSUME Stalls = FALSE, FilesInv, [Next]_vars
  PROVE  FilesInv'
<1>. USE DEF FilesInv
<1>1. Inv' /\ Leased'
  BY NextInv, LeasedNext
<1>2. ASSUME NEW p \in Processes, Work(p)
      PROVE  CreationsAreLeased' /\ CreationsUnheld'
  BY <1>2, WorkProtocol, WorkFiles, CreationsAreLeasedStep, CreationsUnheldStep
     DEF Inv, ClaimsInv
<1>3. ASSUME NEW p \in Processes, Crash(p)
      PROVE  CreationsAreLeased' /\ CreationsUnheld'
  <2>1. pc'[p] = "idle" /\ Frame(p) /\ UNCHANGED lease /\ UNCHANGED held
    BY <1>3, EndFacts DEF Inv, Crash, db, history
  <2>. QED BY <2>1 DEF CreationsAreLeased, CreationsUnheld, Frame, Ws, Making, Toward,
              Building, Undoing
<1>4. ASSUME NEW w \in Workspaces, Expire(w)
      PROVE  CreationsAreLeased' /\ CreationsUnheld'
  <2>1. UNCHANGED <<pc, mem, held>>
    BY <1>4 DEF Expire, control, history
  <2>2. \A v \in Workspaces : lease'[v].kind = lease[v].kind
    BY <1>4, ExpireFacts DEF Inv
  <2>3. \A p \in Processes : Making(pc[p], mem[p]) => Ws(p) \in Workspaces
    BY MakingOwned, TypedHere DEF Inv, OwnedLabel
  <2>. QED BY <2>1, <2>2, <2>3 DEF CreationsAreLeased, CreationsUnheld, Ws
<1>5. CASE UNCHANGED <<lease, pc, mem, held>>
  BY <1>1, <1>5 DEF CreationsAreLeased, CreationsUnheld, Ws, Making, Toward
<1>. QED BY <1>1, <1>2, <1>3, <1>4, <1>5 DEF Next, UserEdit, db, control, history, vars

LEMMA FoundNext ==
  ASSUME "absent" \notin Edits, FilesInv, FoundStays, [Next]_vars
  PROVE  FoundStays'
<1>. USE DEF FilesInv
<1>1. ASSUME NEW p \in Processes, Work(p)
      PROVE  FoundStays'
  BY <1>1, WorkProtocol, WorkFiles, FoundStaysStep DEF Inv
<1>2. ASSUME NEW p \in Processes, Crash(p)
      PROVE  FoundStays'
  <2>1. pc'[p] = "idle" /\ Frame(p) /\ UNCHANGED disk
    BY <1>2, EndFacts DEF Inv, Crash, files
  <2>. QED BY <2>1 DEF FoundStays, Found, Frame, Ws, Toward, Building, Granting
<1>3. ASSUME NEW w \in Workspaces, NEW r \in Repos, UserEdit(w, r)
      PROVE  FoundStays'
  <2>1. UNCHANGED <<pc, mem>> /\ disk[w][r] # "absent"
    BY <1>3 DEF UserEdit, control
  <2>2. \A v \in Workspaces, s \in Repos : disk[v][s] # "absent" => disk'[v][s] # "absent"
    BY <1>1, <1>3, TypedHere DEF UserEdit, Inv, Typed, TypeOK
  <2>3. ASSUME NEW q \in Processes
        PROVE  Found(pc[q], mem[q], disk'[Ws(q)])
    <3>1. Found(pc[q], mem[q], disk[Ws(q)]) /\ mem[q] \in Memory /\ LocalOK(pc[q], mem[q])
      BY TypedHere DEF Inv, FoundStays
    <3>2. pc[q] # "idle" => Ws(q) \in Workspaces
      BY TypedHere DEF Inv
    <3>3. pc[q] = "cr_attach" \/ Toward(pc[q], mem[q]) = "cr_next" => mem[q].cur \in Repos
      BY <3>1 DEF LocalOK, AtRepository, Toward
    <3>. QED BY <2>2, <3>1, <3>2, <3>3 DEF Found, Memory, Toward, Building, Granting
  <2>. QED BY <2>1, <2>3 DEF FoundStays, Ws
<1>4. CASE UNCHANGED <<pc, mem, disk>>
  BY <1>4 DEF FoundStays, Ws
<1>. QED BY <1>1, <1>2, <1>3, <1>4 DEF Next, Expire, control, files, vars

LEMMA DeletionsSpareHeld ==
  ASSUME FilesInv, NEW p \in Processes, Deletes(p), NEW c \in Claims, held[c] = Ws(p)
  PROVE  pc[p] = "rm_remove" /\ mem[p].cmd = "remove" /\ Forced(p)
<1>. USE DEF FilesInv
<1>1. Holds(p) /\ Ws(p) \in Workspaces
  BY TypedHere DEF Deletes, Leased, OwnedLabel, Label, Inv
<1>2. claim[Ws(p)] # None
  BY <1>1, HeldFacts, StoreAssumption DEF Inv, ClaimsInv
<1>3. pc[p] = "rm_remove" => mem[p].cmd = "remove" /\ mem[p].force
  BY <1>1, <1>2 DEF Inv, ClaimsInv, ClaimKnown
<1>4. pc[p] \notin {"rv_remove", "rb_remove"}
  BY <1>1 DEF CreationsAreLeased, CreationsUnheld, Making, Toward, Undoing
<1>. QED BY <1>3, <1>4 DEF Deletes, Forced

\* While no process outlives its lease, no step of a process deletes a worktree
\* of a workspace that a user holds, or the local changes in it, but a forced
\* explicit removal: a recovery and a rollback delete only under the lease of
\* the creation, and nobody holds a workspace before its creation is finished
\* (rollback_creation of src/workspace.rs, recover_creation of
\* src/reconciliation.rs, execute_started_candidate of src/gc.rs).
THEOREM SpecHeldFilesSurvive ==
  ASSUME Stalls = FALSE
  PROVE  Spec => HeldFilesSurvive
<1>. DEFINE Survive ==
              \A c \in Claims, w \in Workspaces, r \in Repos :
                  /\ held[c] = w
                  /\ \/ disk[w][r] # "absent" /\ disk'[w][r] = "absent"
                     \/ disk[w][r] = "dirty" /\ disk'[w][r] # "dirty"
                  => UNCHANGED control \/ ForcedRemovalOf(w)
<1>1. ASSUME FilesInv, [Next]_vars
      PROVE  [Survive]_vars
  <2>1. ASSUME NEW p \in Processes, Work(p), NEW c \in Claims, NEW w \in Workspaces,
               NEW r \in Repos, held[c] = w,
               \/ disk[w][r] # "absent" /\ disk'[w][r] = "absent"
               \/ disk[w][r] = "dirty" /\ disk'[w][r] # "dirty"
        PROVE  ForcedRemovalOf(w)
    <3>1. Deletes(p)
      BY <1>1, <2>1, WorkFiles DEF FilesInv, Inv, FileStep, Spares
    <3>2. w = Ws(p)
      BY <2>1, <3>1 DEF Deletes
    <3>. QED BY <1>1, <2>1, <3>1, <3>2, DeletionsSpareHeld DEF ForcedRemovalOf
  <2>2. CASE UNCHANGED disk
    BY <2>2
  <2>3. CASE UNCHANGED control
    BY <2>3
  <2>. QED BY <1>1, <2>1, <2>2, <2>3 DEF Next, Crash, Expire, UserEdit, files
<1>2. Spec => []FilesInv
  BY InitFiles, FilesNext, PTL DEF Spec
<1>. QED BY <1>1, <1>2, PTL DEF Spec, HeldFilesSurvive

\* While no process outlives its lease and users delete nothing, a user who is
\* given a workspace finds every worktree in it, whether it was allocated,
\* claimed or created for that user (record_workspace_acquire,
\* publish_explicit_claim, finalize_automatic_creation of
\* src/storage/repository.rs).
THEOREM SpecGrantedWorkspacesAreComplete ==
  ASSUME Stalls = FALSE, "absent" \notin Edits
  PROVE  Spec => GrantedWorkspacesAreComplete
<1>. DEFINE Complete == \A c \in Claims, w \in Workspaces :
                            held[c] # w /\ held'[c] = w => Present(w) = Repos
<1>1. ASSUME FilesInv, FoundStays, [Next]_vars
      PROVE  [Complete]_vars
  <2>1. ASSUME NEW p \in Processes, Work(p), NEW c \in Claims, NEW w \in Workspaces,
               held[c] # w, held'[c] = w
        PROVE  Present(w) = Repos
    <3>1. /\ StoreTyped /\ mem[p] \in Memory /\ ProtocolStep(p)
          /\ Found(pc[p], mem[p], disk[Ws(p)])
      BY <1>1, <2>1, TypedHere, WorkProtocol DEF FilesInv, Inv, FoundStays
    <3>2. Confirms(p) \/ Publishes(p)
      BY <2>1, <3>1, HeldChanges, StoreAssumption DEF Releases, Buries, StoreTyped
    <3>3. w = Ws(p) /\ pc[p] \in {"al_finish", "cr_final", "cl_publish"}
      BY <2>1, <3>1, <3>2 DEF Confirms, Publishes, StoreTyped
    <3>4. \A r \in Repos : disk[w][r] # "absent"
      BY <3>1, <3>3 DEF Found, Toward, Building, Granting
    <3>. QED BY <3>4 DEF Present
  <2>2. CASE UNCHANGED held
    BY <2>2
  <2>. QED BY <1>1, <2>1, <2>2 DEF Next, Crash, Expire, UserEdit, history, vars
<1>2. Spec => []FilesInv
  BY InitFiles, FilesNext, PTL DEF Spec
<1>3. Spec => []FoundStays
  BY <1>2, InitFiles, FoundNext, PTL DEF Spec
<1>. QED BY <1>1, <1>2, <1>3, PTL DEF Spec, GrantedWorkspacesAreComplete
=============================================================================
