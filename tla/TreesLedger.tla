----------------------------- MODULE TreesLedger ----------------------------
(***************************************************************************)
(* The claims of Trees implement ClaimLedger, for any number of processes, *)
(* workspaces, repositories and claims: each kind of step of TreesProtocol *)
(* is a step of the ledger or leaves it alone.                             *)
(***************************************************************************)
EXTENDS TreesInvariants

\* A claim that a process has yet to insert was never inserted.
Unspent ==
    \A p \in Processes : Pending(pc[p], mem[p]) => mem[p].claim \notin issued

\* No claim is active on two workspaces.
Apart ==
    \A v, w \in Workspaces : claim[v] = claim[w] /\ claim[v] # None => v = w

LedgerInv == Inv /\ Unspent /\ Apart

-----------------------------------------------------------------------------
(* Claim identities are used once. *)

LEMMA PendingClaims ==
  ASSUME NEW l, NEW m, Pending(l, m)
  PROVE  m.cmd \in Claiming
  BY DEF Pending, Claiming

\* The steps that insert a claim, and the claim they insert.
LEMMA Issues ==
  ASSUME Inv, NEW p \in Processes, ProtocolStep(p)
  PROVE  \/ UNCHANGED issued
         \/ /\ Creates(p) \/ Inserts(p) \/ Publishes(p)
            /\ mem[p].cmd \in Claiming
            /\ Pending(pc[p], mem[p])
            /\ issued' = issued \cup {mem[p].claim}
<1>1. LocalOK(pc[p], mem[p])
  BY TypedHere DEF Inv
<1>2. CASE Creates(p)
  <2>1. CASE mem[p].cmd = "provision"
    <3>1. mem[p].claim # None
      BY <2>1, ClaimOfCommand DEF Inv, Claiming
    <3>. QED BY <1>2, <2>1, <3>1 DEF Creates, Claiming, Pending
  <2>2. CASE mem[p].cmd = "create"
    BY <1>1, <1>2, <2>2 DEF Creates, LocalOK
  <2>. QED BY <1>2, <2>1, <2>2 DEF Creates
<1>3. CASE Inserts(p)
  BY <1>3 DEF Inserts, Claiming, Pending
<1>4. CASE Publishes(p)
  BY <1>4 DEF Publishes, Claiming, Pending
<1>. QED BY <1>2, <1>3, <1>4 DEF ProtocolStep, Plain, Starts, Admits, Closes,
            Confirms, Releases, Withdraws, Buries, history

\* Who has yet to insert a claim after its own step had yet to do so before
\* it, or has just chosen the claim.
LEMMA StillPending ==
  ASSUME Inv, NEW p \in Processes, ProtocolStep(p), Pending(pc'[p], mem'[p])
  PROVE  /\ UNCHANGED issued
         /\ \/ FreshClaim(mem'[p].claim)
            \/ Pending(pc[p], mem[p]) /\ mem'[p].claim = mem[p].claim
<1>. USE DEF Inv
<1>1. ~End(p)
  BY EndFacts DEF Pending, Blank
<1>2. CASE Starts(p)
  BY <1>2, StepFacts, PendingClaims DEF Starts, CanStart, history
<1>3. CASE Plain(p) \/ Closes(p)
  <2>1. PICK l, m : Step(p, l, m) /\ CanContinue(p, l, m)
    BY <1>1, <1>3 DEF Plain, Continues, Closes
  <2>2. Pending(pc[p], mem[p]) /\ mem'[p].claim = mem[p].claim
    BY <2>1, StepFacts DEF CanContinue, SameCommand
  <2>. QED BY <1>3, <2>2 DEF Plain, Closes, history
<1>4. CASE Admits(p)
  <2>1. PICK l, m : Step(p, l, m) /\ SameCommand(p, m) /\ l \in OwnedLabel
    BY <1>4 DEF Admits, GoesOnOwning
  <2>2. mem'[p].claim = mem[p].claim /\ mem'[p].cmd = mem[p].cmd /\ pc'[p] \in OwnedLabel
    BY <2>1, StepFacts DEF SameCommand
  <2>3. pc[p] \notin OwnedLabel /\ UNCHANGED issued
    BY <1>4 DEF Admits, history
  <2>. QED BY <2>2, <2>3 DEF Pending, OwnedLabel, Label
<1>5. CASE Creates(p)
  BY <1>5, StepFacts DEF Creates, SameCommand, Pending
<1>6. CASE Inserts(p) \/ Withdraws(p)
  BY <1>6, StepFacts DEF Inserts, Withdraws, Pending
<1>. QED BY <1>1, <1>2, <1>3, <1>4, <1>5, <1>6 DEF ProtocolStep, Confirms, Publishes,
            Releases, Buries

LEMMA UnspentStep ==
  ASSUME LedgerInv, NEW p \in Processes, ProtocolStep(p)
  PROVE  Unspent'
<1>. USE DEF LedgerInv
<1>1. ASSUME Pending(pc'[p], mem'[p])
      PROVE  mem'[p].claim \notin issued'
  BY <1>1, StillPending DEF Unspent, FreshClaim
<1>2. ASSUME NEW q \in Processes \ {p}, Pending(pc'[q], mem'[q])
      PROVE  mem'[q].claim \notin issued'
  <2>1. pc'[q] = pc[q] /\ mem'[q] = mem[q]
    BY Footprint DEF Inv, Frame
  <2>2. mem[q].claim \notin issued /\ mem[q].cmd \in Claiming
    BY <1>2, <2>1, PendingClaims DEF Unspent
  <2>3. mem[p].cmd \in Claiming => mem[q].claim # mem[p].claim
    BY <2>2 DEF Inv, ClaimsInv, OwnClaims
  <2>. QED BY <2>1, <2>2, <2>3, Issues
<1>. QED BY <1>1, <1>2 DEF Unspent

LEMMA ApartStep ==
  ASSUME LedgerInv, NEW p \in Processes, ProtocolStep(p)
  PROVE  Apart'
<1>. USE DEF LedgerInv
<1>1. /\ \A w \in Workspaces : w # Ws(p) => claim'[w] = claim[w]
      /\ StoreTyped /\ (pc[p] # "idle" => Ws(p) \in Workspaces)
      /\ LocalOK(pc[p], mem[p])
  BY Footprint, TypedHere DEF Inv
<1>2. CASE \A w \in Workspaces : claim'[w] \in {claim[w], None}
  BY <1>2 DEF Apart
<1>3. CASE (Creates(p) \/ Inserts(p) \/ Publishes(p)) /\ mem[p].claim # None
  <2>1. claim' = [claim EXCEPT ![Ws(p)] = mem[p].claim] /\ Ws(p) \in Workspaces
    BY <1>1, <1>3 DEF Creates, Inserts, Publishes
  <2>2. mem[p].cmd # "create"
    BY <1>1, <1>3 DEF LocalOK
  <2>3. mem[p].claim \notin issued
    BY <1>3, <2>2 DEF Unspent, Pending, Creates, Inserts, Publishes
  <2>4. \A w \in Workspaces : claim[w] # mem[p].claim
    BY <1>3, <2>3 DEF Inv, ClaimsInv, ClaimsIssued
  <2>5. claim'[Ws(p)] = mem[p].claim
    BY <1>1, <2>1 DEF StoreTyped
  <2>. QED BY <1>1, <2>4, <2>5 DEF Apart
<1>4. CASE (Creates(p) \/ Inserts(p) \/ Publishes(p)) /\ mem[p].claim = None
  BY <1>1, <1>2, <1>4 DEF Creates, Inserts, Publishes, StoreTyped
<1>5. CASE Releases(p) \/ Withdraws(p) \/ Buries(p)
  BY <1>1, <1>2, <1>5 DEF Releases, Withdraws, Buries, StoreTyped
<1>6. CASE UNCHANGED claim
  BY <1>2, <1>6
<1>. QED BY <1>3, <1>4, <1>5, <1>6 DEF ProtocolStep, Plain, Starts, Admits, Closes,
            Confirms, db

-----------------------------------------------------------------------------
(* Each step is one of the ledger. *)

LedgerStep == [Ledger!LedgerNext]_<<claim, issued, held>>

LEMMA LedgerFacts ==
  ASSUME NEW w \in Workspaces
  PROVE  /\ Ledger!Tell(w) => LedgerStep
         /\ Ledger!Drop(w) => LedgerStep
         /\ \A c \in Claims : Ledger!Record(w, c) => LedgerStep
  BY DEF LedgerStep, Ledger!LedgerNext

\* Only the active claim of a workspace is held.
LEMMA HolderIsActive ==
  ASSUME Inv, NEW w \in Workspaces, NEW c \in Claims, held[c] = w
  PROVE  claim[w] = c
  BY StoreAssumption DEF Inv, ClaimsInv, HeldClaimsAreActive

LEMMA ProtocolIsLedger ==
  ASSUME LedgerInv, NEW p \in Processes, ProtocolStep(p)
  PROVE  LedgerStep
<1>. USE DEF LedgerInv
<1>1. StoreTyped /\ (pc[p] # "idle" => Ws(p) \in Workspaces) /\ LocalOK(pc[p], mem[p])
  BY TypedHere DEF Inv
<1>2. held \in [Claims -> Workspaces \cup {None}]
  BY DEF Inv, Typed, TypeOK
<1>3. CASE UNCHANGED <<claim, history>>
  BY <1>3 DEF LedgerStep, history
<1>4. CASE Creates(p)
  <2>1. Ws(p) \in Workspaces /\ claim[Ws(p)] = None
    BY <1>1, <1>4 DEF Creates, Inv, Recorded
  <2>2. CASE mem[p].cmd = "provision"
    <3>1. mem[p].claim \in Claims /\ mem[p].claim # None /\ mem[p].claim \notin issued
      BY <1>4, <2>2, ClaimOfCommand DEF Inv, Claiming, Creates, Unspent, Pending
    <3>2. Ledger!Record(Ws(p), mem[p].claim)
      BY <1>4, <2>1, <3>1 DEF Creates, Ledger!Record
    <3>. QED BY <2>1, <3>1, <3>2, LedgerFacts
  <2>3. CASE mem[p].cmd = "create"
    <3>1. mem[p].claim = None
      BY <1>1, <2>3 DEF LocalOK
    <3>. QED BY <1>1, <1>4, <2>1, <3>1 DEF Creates, LedgerStep, StoreTyped
  <2>. QED BY <1>4, <2>2, <2>3 DEF Creates
<1>5. CASE Inserts(p)
  <2>1. /\ Ws(p) \in Workspaces /\ claim[Ws(p)] = None
        /\ mem[p].claim \in Claims /\ mem[p].claim \notin issued
    BY <1>1, <1>5, ClaimOfCommand DEF Inserts, Inv, Claiming, Unspent, Pending
  <2>2. Ledger!Record(Ws(p), mem[p].claim)
    BY <1>5, <2>1 DEF Inserts, Ledger!Record
  <2>. QED BY <2>1, <2>2, LedgerFacts
<1>6. CASE Publishes(p)
  <2>1. /\ Ws(p) \in Workspaces /\ claim[Ws(p)] = None
        /\ mem[p].claim \in Claims /\ mem[p].claim \notin issued
    BY <1>1, <1>6, ClaimOfCommand DEF Publishes, Inv, Claiming, Unspent, Pending
  <2>2. Ledger!Record(Ws(p), mem[p].claim)
    BY <1>6, <2>1 DEF Publishes, Ledger!Record
  <2>. QED BY <2>1, <2>2, LedgerFacts
<1>7. CASE Confirms(p)
  <2>1. Ws(p) \in Workspaces /\ claim[Ws(p)] = mem[p].claim
    BY <1>1, <1>7 DEF Confirms, Inv, ClaimsInv, ClaimKnown
  <2>2. mem[p].claim # None
    BY <1>7, ClaimOfCommand DEF Confirms, Inv, Claiming
  <2>3. Ledger!Tell(Ws(p))
    BY <1>7, <2>1, <2>2 DEF Confirms, Ledger!Tell
  <2>. QED BY <2>1, <2>3, LedgerFacts
<1>8. CASE Releases(p)
  <2>1. /\ Ws(p) \in Workspaces /\ claim[Ws(p)] = mem[p].claim
        /\ mem[p].claim \in Claims /\ mem[p].claim # None
    BY <1>1, <1>8, StoreAssumption DEF Releases, LocalOK
  <2>2. ASSUME NEW c \in Claims
        PROVE  held'[c] = IF held[c] = Ws(p) THEN None ELSE held[c]
    <3>1. CASE c = mem[p].claim
      <4>1. held[c] \in {Ws(p), None}
        BY <2>1, <3>1, HeldFacts DEF Inv, ClaimsInv, Apart
      <4>. QED BY <1>2, <1>8, <3>1, <4>1 DEF Releases
    <3>2. CASE c # mem[p].claim
      BY <1>2, <1>8, <2>1, <3>2, HolderIsActive DEF Releases
    <3>. QED BY <3>1, <3>2
  <2>3. held' = [c \in Claims |-> IF held[c] = Ws(p) THEN None ELSE held[c]]
    BY <1>2, <1>8, <2>2 DEF Releases
  <2>4. Ledger!Drop(Ws(p))
    BY <1>8, <2>1, <2>3 DEF Releases, Ledger!Drop
  <2>. QED BY <2>1, <2>4, LedgerFacts
<1>9. CASE Withdraws(p)
  <2>1. /\ Ws(p) \in Workspaces /\ claim[Ws(p)] = mem[p].claim
        /\ mem[p].claim \in Claims /\ mem[p].claim # None
        /\ held[mem[p].claim] = None
    BY <1>1, <1>9, ClaimOfCommand DEF Withdraws, Inv, ClaimsInv, OwnClaims, Claiming
  <2>2. \A c \in Claims : held[c] # Ws(p)
    BY <2>1, HolderIsActive, StoreAssumption
  <2>3. held' = [c \in Claims |-> IF held[c] = Ws(p) THEN None ELSE held[c]]
    BY <1>2, <1>9, <2>2 DEF Withdraws, history
  <2>4. Ledger!Drop(Ws(p))
    BY <1>9, <2>1, <2>3 DEF Withdraws, Ledger!Drop, history
  <2>. QED BY <2>1, <2>4, LedgerFacts
<1>10. CASE Buries(p)
  <2>1. Ws(p) \in Workspaces
    BY <1>1, <1>10 DEF Buries
  <2>2. CASE claim[Ws(p)] = None
    <3>1. \A c \in Claims : held[c] # Ws(p)
      BY <2>1, <2>2, HolderIsActive, StoreAssumption
    <3>2. held' = held
      BY <1>2, <1>10, <3>1 DEF Buries
    <3>3. claim' = claim
      BY <1>1, <1>10, <2>1, <2>2 DEF Buries, StoreTyped
    <3>. QED BY <1>10, <3>2, <3>3 DEF Buries, LedgerStep
  <2>3. CASE claim[Ws(p)] # None
    <3>1. mem[p].cmd = "remove" /\ mem[p].force
      BY <1>10, <2>3 DEF Buries, Inv, ClaimsInv, ClaimKnown, Removing
    <3>2. Ledger!Drop(Ws(p))
      BY <1>10, <2>3, <3>1 DEF Buries, Ledger!Drop
    <3>. QED BY <2>1, <3>2, LedgerFacts
  <2>. QED BY <2>2, <2>3
<1>. QED BY <1>3, <1>4, <1>5, <1>6, <1>7, <1>8, <1>9, <1>10 DEF ProtocolStep, Plain,
            Starts, Admits, Closes, db

-----------------------------------------------------------------------------
(* The refinement. *)

LEMMA LedgerInit ==
  ASSUME Init
  PROVE  LedgerInv /\ Ledger!LedgerInit
<1>1. Inv
  BY InitInv
<1>2. Unspent /\ Apart
  BY DEF Init, Unspent, Apart
<1>. QED BY <1>1, <1>2 DEF LedgerInv, Init, Ledger!LedgerInit

LEMMA LedgerNextStep ==
  ASSUME LedgerInv, [Next]_vars
  PROVE  LedgerInv' /\ LedgerStep
<1>1. Inv'
  BY NextInv DEF LedgerInv
<1>2. ASSUME NEW p \in Processes, Work(p)
      PROVE  LedgerInv' /\ LedgerStep
  BY <1>1, <1>2, WorkProtocol, UnspentStep, ApartStep, ProtocolIsLedger DEF LedgerInv, Inv
<1>3. ASSUME NEW p \in Processes, Crash(p)
      PROVE  LedgerInv' /\ LedgerStep
  <2>1. pc'[p] = "idle" /\ mem'[p] = Blank /\ Frame(p) /\ UNCHANGED <<claim, issued, held>>
    BY <1>3, EndFacts DEF Crash, LedgerInv, Inv, db, history
  <2>. QED BY <1>1, <2>1 DEF LedgerInv, Unspent, Apart, Pending, Blank, Frame, LedgerStep
<1>4. CASE UNCHANGED <<claim, pc, mem, issued, held>>
  BY <1>1, <1>4 DEF LedgerInv, Unspent, Apart, LedgerStep
<1>. QED BY <1>2, <1>3, <1>4 DEF Next, Expire, UserEdit, db, control, history, vars

\* The claims of trees behave as the abstract ledger: a claim is recorded on a
\* vacant workspace under an identity never used before, its user learns of it
\* only while it is recorded, and it ends for the record and the user at once
\* (record_workspace_acquire, publish_explicit_claim, record_workspace_release,
\* rollback_claim, record_workspace_removed_by).
THEOREM SpecClaimsFollowLedger == Spec => ClaimsFollowLedger
<1>1. Init => LedgerInv /\ Ledger!LedgerInit
  BY LedgerInit
<1>2. LedgerInv /\ [Next]_vars => LedgerInv' /\ [Ledger!LedgerNext]_(Ledger!ledger)
  BY LedgerNextStep DEF LedgerStep, Ledger!ledger
<1>. QED BY <1>1, <1>2, PTL DEF Spec, ClaimsFollowLedger, Ledger!LedgerSpec
=============================================================================
