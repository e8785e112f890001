--------------------------- MODULE AdditionTypes ---------------------------
(***************************************************************************)
(* The structure of the additions, proved: the states are well typed, the  *)
(* operations are numbered as they are admitted, the lease belongs to the  *)
(* latest of them, and each undoes an earlier one or none, so that the     *)
(* evidence of an operation is defined.                                    *)
(*                                                                         *)
(* Every step of a process ends at a label whose memory fits it (Moves),   *)
(* and has one of five effects on the journal and its lease (Effect).      *)
(***************************************************************************)
EXTENDS Addition, WellFoundedInduction, TLAPS

Planning == {"prepare", "origins"}
Adding   == {"box", "boxed", "additions", "mkdir", "identity", "attach", "observe",
             "finish", "fail"}
Undoing  == {"compensate", "remove", "detach", "unbox", "restored", "resolve", "retain"}
Moving   == {"move", "moved"}

\* Process p at label l with memory m makes, or takes back.
Adds(l, m)   == l \in Adding \/ (l \in Moving /\ m.leg \in {"out", "in"})
Undoes(l, m) == l \in Undoing \/ (l \in Moving /\ m.leg \in {"home", "back"})

\* What a process remembers at label l.
LocalOK(l, m) ==
    /\ m.cur # None <=> l \in {"mkdir", "identity", "attach", "detach"}
    /\ l \in Moving => m.leg # "none"
    /\ m.op = None <=> l \in {"idle", "locate", "admit"}
    /\ m.asked = m.chose
    /\ l \in {"locate", "admit", "prepare"} => m.plan = NoPlan /\ m.todo = {}
    /\ l = "locate" => m.source = None
    /\ l = "source" => m.source # None /\ m.mode = "residual"
    /\ l \in Planning \/ Adds(l, m) => m.mode = "execute"

Fits(l, m) == l \in Label /\ m \in MemoryType /\ LocalOK(l, m)

Control == /\ pc \in [Processes -> Label]
           /\ mem \in [Processes -> MemoryType]
           /\ \A p \in Processes : LocalOK(pc[p], mem[p])

StoreTyped ==
    /\ rows \in [New -> RowStates]
    /\ rowId \in [New -> {None} \cup Operations]
    /\ place \in {"root", "inside"}
    /\ claim \in 0..MaxClaims /\ claims \in 0..MaxClaims
    /\ origins \in [New -> [id: 0..MaxRemovals, exists: BOOLEAN]]
    /\ lease \in {NoLease} \cup [op: Operations, by: Processes, live: BOOLEAN]
    /\ journal \in [Operations -> JournalType]
    /\ unresolved \in {None} \cup Operations
    /\ original \in [at: Places, listed: Places, staging: {None} \cup Operations]
    /\ container \in {None} \cup 0..MaxOperations
    /\ notes \in {"none", "managed", "edited"}
    /\ tree \in [New -> TreeType]
    /\ troubles \in 0..MaxTroubles

\* Each operation is one of the numbers, and what it undoes came before it.
EvidenceType == Evidence \in [Operations -> Operations]
NextType == (\E o \in Operations : journal[o].st = "none") => NextOperation \in Operations

\* What follows the undoings of J to the operation that they undo.
Follows(f, J) ==
    f = [o \in Operations |-> IF J[o].of = None THEN o ELSE f[J[o].of]]

\* Evidence is one of the functions that follow the journal, if there is any.
LEMMA EvidenceFollows ==
    ASSUME NEW f, Follows(f, journal)
    PROVE  Follows(Evidence, journal)
  BY DEF Follows, Evidence

LEMMA EvidenceFollowsPrime ==
    ASSUME NEW f, Follows(f, journal')
    PROVE  Follows(Evidence', journal')
  BY DEF Follows, Evidence

\* A set of operations has a first one.
LEMMA Least ==
    ASSUME NEW S, S \subseteq Operations, S # {}
    PROVE  \E o \in S : \A q \in S : o <= q
<1>1. S \subseteq Nat
  BY AdditionAssumption DEF Operations
<1>2. \E o \in S : \A q \in S : ~(<<q, o>> \in OpToRel(<, Nat))
  BY <1>1, NatLessThanWellFounded, WFMin
<1>3. PICK o \in S : \A q \in S : ~(<<q, o>> \in OpToRel(<, Nat))
  BY <1>2
<1>4. ASSUME NEW q \in S PROVE ~(q < o)
  <2>1. <<q, o>> \notin OpToRel(<, Nat)
    BY <1>3
  <2>2. q \in Nat /\ o \in Nat
    BY <1>1
  <2>. QED BY <2>1, <2>2 DEF OpToRel
<1>. QED
  BY <1>1, <1>4

\* No value of the model is None by accident.
LEMMA NoneIsNothing == /\ None \notin Operations /\ None \notin New
                       /\ None \notin Processes /\ None \notin 0..MaxOperations
                       /\ Operations \subseteq 0..MaxOperations
  BY AdditionAssumption DEF Operations

\* A process that does nothing has an empty memory.
LEMMA BlankFits == Fits("idle", Blank) /\ NoPlan \in PlanType
  BY AdditionAssumption DEF Fits, Blank, LocalOK, Label, MemoryType, NoPlan, PlanType, Adds,
     Adding, Moving, Planning, Legs

\* The label and the memory of a process after its step.
LEMMA StepIs ==
    ASSUME NEW p \in Processes, Control
    PROVE  \A l, m : Step(p, l, m) => pc'[p] = l /\ mem'[p] = m
  BY DEF Control, Step

Moves(p) == \E l, m : Fits(l, m) /\ Step(p, l, m)

At(p, l) == pc[p] = l /\ Fits(l, mem[p])

\* A process at a label has a memory that fits it.
LEMMA ControlAt ==
    ASSUME NEW p \in Processes, NEW l, Control, pc[p] = l
    PROVE  At(p, l)
  BY DEF Control, At, Fits

\* A step to a label that the new memory fits.
LEMMA FitsMoves ==
    ASSUME NEW p, NEW l, NEW m, Fits(l, m), Step(p, l, m)
    PROVE  Moves(p)
  BY DEF Moves

LEMMA EndMoves == ASSUME NEW p, End(p) PROVE Moves(p)
  BY BlankFits, FitsMoves DEF End

\* The steps that only go on.
LEMMA Onward ==
    ASSUME NEW m
    PROVE  /\ Fits("source", m) => Fits("compensate", m)
           /\ Fits("move", m) => Fits("moved", m)
           /\ Fits("mkdir", m) => Fits("identity", m)
           /\ Fits("identity", m) => Fits("attach", m)
           /\ Fits("additions", m) => Fits("observe", m)
           /\ Fits("observe", m) => Fits("finish", m)
           /\ Fits("fail", m) => Fits("compensate", m)
           /\ Fits("remove", m) => Fits("restored", m) /\ Fits("unbox", m)
           /\ Fits("restored", m) => Fits("resolve", m) /\ Fits("retain", m)
           /\ Fits("decide", m) => Fits("republish", m) /\ Fits("compensate", m)
           /\ Fits("moved", m) => Fits(Legs[m.leg].then, m)
<1>. USE DEF Fits, LocalOK, Label, Planning, Adds, Adding, Moving
<1>1. ASSUME Fits("moved", m) PROVE Fits(Legs[m.leg].then, m)
  <2>1. m.leg \in {"out", "in", "home", "back"}
    BY <1>1 DEF MemoryType
  <2>. QED BY <1>1, <2>1 DEF Legs
<1>2. QED BY <1>1

\* A process that gives up its step (to undo, or to retain).
LEMMA GiveUpMoves ==
    ASSUME NEW p, NEW l, At(p, l), NEW k, GiveUp(p, k),
           k = "retain" \/ (k = "fail" /\ mem[p].mode = "execute"),
           mem[p].op # None
    PROVE  Moves(p)
<1>. DEFINE m == [mem[p] EXCEPT !.todo = {}, !.cur = None, !.leg = "none"]
<1>1. m \in MemoryType
  BY DEF At, Fits, MemoryType
<1>2. LocalOK(k, m)
  BY DEF At, Fits, MemoryType, LocalOK, Planning, Adds, Adding, Moving
<1>3. QED BY <1>1, <1>2, FitsMoves DEF GiveUp, Fits, Label

\* A process that is done with an operation that it recovered.
LEMMA ContinueMoves ==
    ASSUME NEW p, NEW l, At(p, l), NEW resolved, Continue(p, resolved)
    PROVE  Moves(p)
<1>. DEFINE m == [Blank EXCEPT !.adds = TRUE, !.chose = mem[p].chose,
                               !.asked = mem[p].asked, !.members = mem[p].members]
<1>1. m \in MemoryType
  BY BlankFits, AdditionAssumption DEF At, Fits, MemoryType, Blank
<1>2. LocalOK("locate", m) /\ LocalOK("admit", m)
  BY DEF At, Fits, LocalOK, Planning, Adds, Adding, Moving, Blank
<1>3. Step(p, "locate", m) \/ Step(p, "admit", m) \/ End(p)
  BY DEF Continue
<1>4. QED BY <1>1, <1>2, <1>3, FitsMoves, EndMoves DEF Fits, Label

\* The steps one by one: each goes to a label that the new memory fits.
LEMMA AdmitMoves ==
    ASSUME NEW p \in Processes, Control, NextType, Admit(p)
    PROVE  Moves(p)
<1>. DEFINE m == [mem[p] EXCEPT !.op = NextOperation,
                    !.mode = IF mem[p].source = None THEN "execute" ELSE "residual"]
<1>1. At(p, "admit")
  BY ControlAt DEF Admit
<1>2. ASSUME \E o \in Operations : journal[o].st = "none"
      PROVE  /\ mem[p].source = None => Fits("prepare", m)
             /\ mem[p].source # None => Fits("source", m)
  <2>1. m \in MemoryType
    BY <1>1, <1>2 DEF At, Fits, MemoryType, NextType
  <2>2. NextOperation # None
    BY <1>2, NoneIsNothing DEF NextType
  <2>. QED
    BY <1>1, <2>1, <2>2
    DEF At, Fits, MemoryType, LocalOK, Label, Planning, Adds, Adding, Moving
<1>3. \/ End(p)
      \/ /\ \E o \in Operations : journal[o].st = "none"
         /\ Step(p, IF mem[p].source = None THEN "prepare" ELSE "source", m)
  BY DEF Admit
<1>. QED BY <1>2, <1>3, EndMoves, FitsMoves

LEMMA LocateMoves ==
    ASSUME NEW p \in Processes, Control, StoreTyped, Locate(p)
    PROVE  Moves(p)
<1>. DEFINE m == [mem[p] EXCEPT !.members = Members, !.source = unresolved]
<1>1. At(p, "locate")
  BY ControlAt DEF Locate
<1>2. m \in MemoryType
  BY <1>1 DEF At, Fits, MemoryType, StoreTyped, Members
<1>3. LocalOK("admit", m)
  BY <1>1 DEF At, Fits, MemoryType, LocalOK, Planning, Adds, Adding, Moving
<1>4. Step(p, "admit", m) \/ End(p)
  BY DEF Locate
<1>. QED BY <1>2, <1>3, <1>4, EndMoves, FitsMoves DEF Fits, Label

LEMMA PrepareMoves ==
    ASSUME NEW p \in Processes, Control, Prepare(p)
    PROVE  Moves(p)
<1>1. At(p, "prepare")
  BY ControlAt DEF Prepare
<1>2. PICK todo \in SUBSET New : Step(p, "origins", [mem[p] EXCEPT !.todo = todo])
  BY DEF Prepare
<1>3. [mem[p] EXCEPT !.todo = todo] \in MemoryType
  BY <1>1 DEF At, Fits, MemoryType
<1>4. LocalOK("origins", [mem[p] EXCEPT !.todo = todo])
  BY <1>1 DEF At, Fits, MemoryType, LocalOK, Planning, Adds, Adding, Moving
<1>. QED BY <1>2, <1>3, <1>4, FitsMoves DEF Fits, Label

LEMMA OriginAvailableMoves ==
    ASSUME NEW p \in Processes, Control, StoreTyped, OriginAvailable(p)
    PROVE  Moves(p)
<1>. DEFINE m(r) == [mem[p] EXCEPT !.todo = @ \ {r}, !.plan.adds = @ \cup {r},
                                   !.plan.ids[r] = origins[r].id]
<1>1. At(p, "origins")
  BY ControlAt DEF OriginAvailable
<1>2. PICK r \in mem[p].todo : Step(p, "origins", m(r))
  BY DEF OriginAvailable
<1>3. r \in New /\ origins[r].id \in 0..MaxRemovals
  BY <1>1 DEF At, Fits, MemoryType, StoreTyped
<1>4. m(r) \in MemoryType
  BY <1>1, <1>3 DEF At, Fits, MemoryType, PlanType
<1>5. LocalOK("origins", m(r))
  BY <1>1 DEF At, Fits, MemoryType, LocalOK, Planning, Adds, Adding, Moving
<1>. QED BY <1>2, <1>4, <1>5, FitsMoves DEF Fits, Label

LEMMA RecordPlanMoves ==
    ASSUME NEW p \in Processes, Control, RecordPlan(p)
    PROVE  Moves(p)
<1>1. At(p, "origins")
  BY ControlAt DEF RecordPlan
<1>. DEFINE m(l) == [mem[p] EXCEPT !.leg = l, !.todo = mem[p].plan.adds, !.plan = NoPlan]
<1>2. m("out") \in MemoryType /\ m("none") \in MemoryType
  BY <1>1, BlankFits DEF At, Fits, MemoryType, PlanType
<1>3. LocalOK("move", m("out")) /\ LocalOK("additions", m("none"))
  BY <1>1, <1>2 DEF At, Fits, MemoryType, LocalOK, Planning, Adds, Adding, Moving
<1>4. Step(p, "move", m("out")) \/ Step(p, "additions", m("none"))
  BY DEF RecordPlan
<1>. QED BY <1>2, <1>3, <1>4, FitsMoves DEF Fits, Label

LEMMA MoveOriginalMoves ==
    ASSUME NEW p \in Processes, Control, MoveOriginal(p)
    PROVE  Moves(p)
<1>1. At(p, "move")
  BY ControlAt DEF MoveOriginal
<1>2. Step(p, "moved", mem[p]) \/ GiveUp(p, OnFailure(p))
  BY DEF MoveOriginal
<1>3. CASE Step(p, "moved", mem[p])
  BY <1>1, <1>3, Onward, FitsMoves DEF At
<1>4. CASE GiveUp(p, OnFailure(p))
  <2>1. OnFailure(p) = "retain" \/ (OnFailure(p) = "fail" /\ mem[p].mode = "execute")
    BY <1>1 DEF At, Fits, LocalOK, OnFailure, Adds, Moving
  <2>. QED BY <1>1, <1>4, <2>1, GiveUpMoves DEF At, Fits, LocalOK
<1>. QED BY <1>2, <1>3, <1>4

LEMMA RecordMoveMoves ==
    ASSUME NEW p \in Processes, Control, RecordMove(p)
    PROVE  Moves(p)
  BY ControlAt, Onward, FitsMoves DEF RecordMove, At, Leg

LEMMA CreateContainerMoves ==
    ASSUME NEW p \in Processes, Control, CreateContainer(p)
    PROVE  Moves(p)
<1>1. At(p, "box")
  BY ControlAt DEF CreateContainer
<1>2. Fits("boxed", mem[p])
  BY <1>1 DEF At, Fits, LocalOK, Label, Planning, Adds, Adding, Moving
<1>3. Step(p, "boxed", mem[p]) \/ GiveUp(p, "fail")
  BY DEF CreateContainer
<1>4. mem[p].mode = "execute" /\ mem[p].op # None
  BY <1>1 DEF At, Fits, LocalOK, Adds, Adding
<1>. QED BY <1>1, <1>2, <1>3, <1>4, FitsMoves, GiveUpMoves

LEMMA RecordContainerMoves ==
    ASSUME NEW p \in Processes, Control, RecordContainer(p)
    PROVE  Moves(p)
<1>. DEFINE m == [mem[p] EXCEPT !.leg = "in"]
<1>1. At(p, "boxed")
  BY ControlAt DEF RecordContainer
<1>2. m \in MemoryType /\ LocalOK("move", m)
  BY <1>1 DEF At, Fits, MemoryType, LocalOK, Planning, Adds, Adding, Moving
<1>. QED BY <1>2, FitsMoves DEF RecordContainer, Fits, Label

LEMMA IntendAdditionMoves ==
    ASSUME NEW p \in Processes, Control, IntendAddition(p)
    PROVE  Moves(p)
<1>. DEFINE m(r) == [mem[p] EXCEPT !.cur = r, !.todo = @ \ {r}]
<1>1. At(p, "additions")
  BY ControlAt DEF IntendAddition
<1>2. mem[p].mode = "execute" /\ mem[p].op # None
  BY <1>1 DEF At, Fits, LocalOK, Adds, Adding
<1>3. PICK r \in mem[p].todo : Step(p, "mkdir", m(r)) \/ GiveUp(p, "fail")
  BY DEF IntendAddition
<1>4. r \in New
  BY <1>1 DEF At, Fits, MemoryType
<1>5. m(r) \in MemoryType
  BY <1>1, <1>4 DEF At, Fits, MemoryType
<1>6. LocalOK("mkdir", m(r))
  BY <1>1, <1>4, NoneIsNothing
  DEF At, Fits, MemoryType, LocalOK, Planning, Adds, Adding, Moving
<1>. QED BY <1>1, <1>2, <1>3, <1>5, <1>6, FitsMoves, GiveUpMoves DEF Fits, Label

LEMMA CreateDirectoryMoves ==
    ASSUME NEW p \in Processes, Control, CreateDirectory(p)
    PROVE  Moves(p)
<1>1. At(p, "mkdir")
  BY ControlAt DEF CreateDirectory
<1>2. mem[p].mode = "execute" /\ mem[p].op # None
  BY <1>1 DEF At, Fits, LocalOK, Adds, Adding
<1>3. Step(p, "identity", mem[p]) \/ GiveUp(p, "fail")
  BY DEF CreateDirectory
<1>. QED BY <1>1, <1>2, <1>3, Onward, FitsMoves, GiveUpMoves DEF At

LEMMA AttachWorktreeMoves ==
    ASSUME NEW p \in Processes, Control, AttachWorktree(p)
    PROVE  Moves(p)
<1>. DEFINE m == [mem[p] EXCEPT !.cur = None]
<1>1. At(p, "attach")
  BY ControlAt DEF AttachWorktree
<1>2. mem[p].mode = "execute" /\ mem[p].op # None
  BY <1>1 DEF At, Fits, LocalOK, Adds, Adding
<1>3. m \in MemoryType
  BY <1>1 DEF At, Fits, MemoryType
<1>4. LocalOK("additions", m)
  BY <1>1 DEF At, Fits, MemoryType, LocalOK, Planning, Adds, Adding, Moving
<1>5. Step(p, "additions", m) \/ GiveUp(p, "fail")
  BY DEF AttachWorktree
<1>. QED BY <1>1, <1>2, <1>3, <1>4, <1>5, FitsMoves, GiveUpMoves DEF Fits, Label

LEMMA FinalObservationsMoves ==
    ASSUME NEW p \in Processes, Control, FinalObservations(p)
    PROVE  Moves(p)
<1>1. At(p, "observe")
  BY ControlAt DEF FinalObservations
<1>2. mem[p].mode = "execute" /\ mem[p].op # None
  BY <1>1 DEF At, Fits, LocalOK, Adds, Adding
<1>3. Step(p, "finish", mem[p]) \/ GiveUp(p, "fail")
  BY DEF FinalObservations
<1>. QED BY <1>1, <1>2, <1>3, Onward, FitsMoves, GiveUpMoves DEF At

LEMMA FinishMoves ==
    ASSUME NEW p \in Processes, Control, Finish(p)
    PROVE  Moves(p)
<1>1. At(p, "finish")
  BY ControlAt DEF Finish
<1>2. mem[p].mode = "execute" /\ mem[p].op # None
  BY <1>1 DEF At, Fits, LocalOK, Adds, Adding
<1>3. End(p) \/ GiveUp(p, "fail")
  BY DEF Finish
<1>. QED BY <1>1, <1>2, <1>3, EndMoves, GiveUpMoves

LEMMA FailureMoves ==
    ASSUME NEW p \in Processes, Control,
           ApplyFails(p) \/ UndoFails(p) \/ FailExecution(p) \/ PrepareFails(p)
    PROVE  Moves(p)
<1>. DEFINE l == pc[p]
<1>1. At(p, l)
  BY ControlAt
<1>2. CASE ApplyFails(p)
  <2>1. mem[p].mode = "execute" /\ mem[p].op # None
    BY <1>1, <1>2 DEF ApplyFails, OnFailure, At, Fits, LocalOK, Adds, Adding, Moving
  <2>. QED BY <1>1, <1>2, <2>1, GiveUpMoves DEF ApplyFails
<1>3. CASE UndoFails(p)
  <2>1. mem[p].op # None
    BY <1>1, <1>3 DEF UndoFails, At, Fits, LocalOK
  <2>. QED BY <1>1, <1>3, <2>1, GiveUpMoves DEF UndoFails
<1>4. CASE FailExecution(p)
  BY <1>1, <1>4, Onward, FitsMoves, EndMoves DEF FailExecution, At
<1>5. CASE PrepareFails(p)
  BY <1>5, EndMoves DEF PrepareFails
<1>. QED BY <1>2, <1>3, <1>4, <1>5

LEMMA CompensateMoves ==
    ASSUME NEW p \in Processes, Control, StoreTyped, Compensate(p)
    PROVE  Moves(p)
<1>. DEFINE m(b) == [mem[p] EXCEPT !.todo = Plan(p).adds, !.mutated = b]
<1>1. At(p, "compensate")
  BY ControlAt DEF Compensate
<1>2. mem[p].op \in Operations
  BY <1>1 DEF At, Fits, LocalOK, MemoryType
<1>3. Plan(p).adds \in SUBSET New
  BY <1>2 DEF StoreTyped, JournalType, PlanType, Plan, Op
<1>4. \E b \in BOOLEAN : Step(p, "remove", m(b))
  <2>. DEFINE e == journal[Source(p)]
              b == \/ e.moved \/ e.boxed \/ e.made # {}
                   \/ /\ Plan(p).moves /\ original.at = "staging"
                      /\ original.staging = Source(p)
  <2>1. Step(p, "remove", m(b))
    BY DEF Compensate
  <2>2. CASE b
    BY <2>1, <2>2
  <2>3. CASE ~b
    BY <2>1, <2>3
  <2>. QED BY <2>2, <2>3
<1>5. ASSUME NEW b \in BOOLEAN PROVE Fits("remove", m(b))
  <2>1. m(b) \in MemoryType
    BY <1>1, <1>3 DEF At, Fits, MemoryType
  <2>2. LocalOK("remove", m(b))
    BY <1>1 DEF At, Fits, MemoryType, LocalOK, Planning, Adds, Adding, Moving
  <2>. QED BY <2>1, <2>2 DEF Fits, Label
<1>. QED BY <1>4, <1>5, FitsMoves

LEMMA RemoveAdditionMoves ==
    ASSUME NEW p \in Processes, Control, RemoveAddition(p)
    PROVE  Moves(p)
<1>. DEFINE m(r) == [mem[p] EXCEPT !.todo = @ \ {r}]
            n(r) == [mem[p] EXCEPT !.todo = @ \ {r}, !.cur = r]
<1>1. At(p, "remove")
  BY ControlAt DEF RemoveAddition
<1>2. PICK r \in mem[p].todo :
        Step(p, "remove", m(r)) \/ Step(p, "detach", n(r)) \/ GiveUp(p, "retain")
  BY DEF RemoveAddition
<1>3. r \in New /\ mem[p].op # None
  BY <1>1 DEF At, Fits, MemoryType, LocalOK
<1>4. m(r) \in MemoryType /\ n(r) \in MemoryType
  BY <1>1, <1>3 DEF At, Fits, MemoryType
<1>5. LocalOK("remove", m(r)) /\ LocalOK("detach", n(r))
  BY <1>1, <1>3, NoneIsNothing
  DEF At, Fits, MemoryType, LocalOK, Planning, Adds, Adding, Moving
<1>. QED BY <1>1, <1>2, <1>3, <1>4, <1>5, FitsMoves, GiveUpMoves DEF Fits, Label

LEMMA DetachWorktreeMoves ==
    ASSUME NEW p \in Processes, Control, DetachWorktree(p)
    PROVE  Moves(p)
<1>. DEFINE m == [mem[p] EXCEPT !.cur = None]
<1>1. At(p, "detach")
  BY ControlAt DEF DetachWorktree
<1>2. m \in MemoryType /\ mem[p].op # None
  BY <1>1 DEF At, Fits, MemoryType, LocalOK
<1>3. LocalOK("remove", m)
  BY <1>1 DEF At, Fits, MemoryType, LocalOK, Planning, Adds, Adding, Moving
<1>4. Step(p, "remove", m) \/ GiveUp(p, "retain")
  BY DEF DetachWorktree
<1>. QED BY <1>1, <1>2, <1>3, <1>4, FitsMoves, GiveUpMoves DEF Fits, Label

LEMMA RestoreOriginalMoves ==
    ASSUME NEW p \in Processes, Control, RestoreOriginal(p)
    PROVE  Moves(p)
<1>. DEFINE m == [mem[p] EXCEPT !.leg = "home"]
<1>1. At(p, "remove")
  BY ControlAt DEF RestoreOriginal
<1>2. m \in MemoryType
  BY <1>1 DEF At, Fits, MemoryType
<1>3. LocalOK("move", m)
  BY <1>1 DEF At, Fits, MemoryType, LocalOK, Planning, Adds, Adding, Moving
<1>4. Step(p, "restored", mem[p]) \/ Step(p, "move", m) \/ Step(p, "unbox", mem[p])
  BY DEF RestoreOriginal
<1>5. Fits("move", m)
  BY <1>2, <1>3 DEF Fits, Label
<1>. QED BY <1>1, <1>4, <1>5, Onward, FitsMoves DEF At

LEMMA RemoveContainerMoves ==
    ASSUME NEW p \in Processes, Control, RemoveContainer(p)
    PROVE  Moves(p)
<1>. DEFINE m == [mem[p] EXCEPT !.leg = "back"]
<1>1. At(p, "unbox")
  BY ControlAt DEF RemoveContainer
<1>2. m \in MemoryType /\ mem[p].op # None
  BY <1>1 DEF At, Fits, MemoryType, LocalOK
<1>3. LocalOK("move", m)
  BY <1>1 DEF At, Fits, MemoryType, LocalOK, Planning, Adds, Adding, Moving
<1>4. Step(p, "move", m) \/ GiveUp(p, "retain")
  BY DEF RemoveContainer
<1>. QED BY <1>1, <1>2, <1>3, <1>4, FitsMoves, GiveUpMoves DEF Fits, Label

\* Every step of a process goes to a label with a memory that fits it.
LEMMA WorkMoves ==
    ASSUME NEW p \in Processes, Control, StoreTyped, NextType, Work(p)
    PROVE  Moves(p)
<1>1. CASE LoadSource(p)
  BY <1>1, ControlAt, Onward, FitsMoves DEF LoadSource, At
<1>2. CASE RecordDirectory(p)
  BY <1>2, ControlAt, Onward, FitsMoves DEF RecordDirectory, At
<1>3. CASE CreateNotes(p)
  BY <1>3, ControlAt, Onward, FitsMoves DEF CreateNotes, At
<1>4. CASE RecordRestoration(p)
  BY <1>4, ControlAt, Onward, FitsMoves DEF RecordRestoration, At
<1>5. CASE Resolve(p)
  BY <1>5, ControlAt, ContinueMoves DEF Resolve
<1>6. CASE Retain(p)
  BY <1>6, ControlAt, ContinueMoves, EndMoves DEF Retain
<1>7. CASE Decide(p)
  BY <1>7, ControlAt, Onward, FitsMoves, ContinueMoves DEF Decide, At
<1>8. CASE Republish(p)
  BY <1>8, ControlAt, ContinueMoves, EndMoves DEF Republish
<1>. QED
  BY <1>1, <1>2, <1>3, <1>4, <1>5, <1>6, <1>7, <1>8, LocateMoves, AdmitMoves, PrepareMoves,
     OriginAvailableMoves, RecordPlanMoves, MoveOriginalMoves, RecordMoveMoves,
     CreateContainerMoves, RecordContainerMoves, IntendAdditionMoves, CreateDirectoryMoves,
     AttachWorktreeMoves, FinalObservationsMoves, FinishMoves, FailureMoves, CompensateMoves,
     RemoveAdditionMoves, DetachWorktreeMoves, RestoreOriginalMoves, RemoveContainerMoves
  DEF Work

-----------------------------------------------------------------------------
(* The database and the files. *)

\* The operation, the worktree and the source that a process works on.
LEMMA Subject ==
    ASSUME NEW p \in Processes, Control
    PROVE  /\ pc[p] \notin {"idle", "locate", "admit"} => Op(p) \in Operations
           /\ pc[p] \in {"mkdir", "identity", "attach", "detach"} => mem[p].cur \in New
           /\ pc[p] = "source" => mem[p].source \in Operations
           /\ mem[p].todo \subseteq New /\ mem[p].plan \in PlanType
           /\ pc[p] \in Moving => mem[p].leg \in {"out", "in", "home", "back"}
           /\ mem[p].asked \in 0..MaxClaims
           /\ mem[p].source \in {None} \cup Operations
  BY DEF Control, LocalOK, MemoryType, Op

\* A worktree that is not there.
LEMMA NoTreeType == NoTree \in TreeType
  BY AdditionAssumption DEF NoTree, TreeType, AllContents

\* What the steps make of a worktree.
LEMMA Trees ==
    ASSUME NEW t \in TreeType
    PROVE  /\ \A o \in 0..MaxOperations : [t EXCEPT !.dir = o] \in TreeType
           /\ [t EXCEPT !.listed = TRUE] \in TreeType
           /\ \A c \in AllContents :
                /\ [t EXCEPT !.content = c] \in TreeType
                /\ [t EXCEPT !.listed = TRUE, !.content = c] \in TreeType
                /\ [t EXCEPT !.dir = 0, !.content = c] \in TreeType
<1>1. 0 \in 0..MaxOperations
  BY AdditionAssumption
<1>. QED BY <1>1 DEF TreeType

\* What the steps write to a journal.
LEMMA JournalEntries ==
    ASSUME NEW j \in JournalType
    PROVE  /\ \A o \in {None} \cup Operations :
                [j EXCEPT !.st = "running", !.of = o] \in JournalType
           /\ \A st \in {"succeeded", "failed", "rolled_back"} :
                [j EXCEPT !.st = st] \in JournalType
           /\ \A plan \in PlanType :
                [j EXCEPT !.planned = TRUE, !.plan = plan] \in JournalType
           /\ \A r \in New : /\ [j EXCEPT !.intended = @ \cup {r}] \in JournalType
                            /\ [j EXCEPT !.made = @ \cup {r}] \in JournalType
           /\ [j EXCEPT !.moved = TRUE] \in JournalType
           /\ [j EXCEPT !.boxed = TRUE] \in JournalType
           /\ [j EXCEPT !.rollback = TRUE] \in JournalType
           /\ j.plan \in PlanType
  BY DEF JournalType

\* The journal of an operation.
LEMMA JournalEntry ==
    ASSUME StoreTyped, NEW o \in Operations
    PROVE  journal[o] \in JournalType
  BY DEF StoreTyped

\* The statements that several steps share.
LEMMA RecordTyped ==
    ASSUME StoreTyped, NEW p, Op(p) \in Operations, NEW e \in JournalType, Record(p, e)
    PROVE  journal' \in [Operations -> JournalType]
  BY DEF StoreTyped, Record

\* The last event of an operation and the end of its lease.
LEMMA CloseTyped ==
    ASSUME StoreTyped, NEW p, Op(p) \in Operations,
           NEW outcome \in {"succeeded", "failed", "rolled_back"},
           Close(p, journal[Op(p)], outcome)
    PROVE  /\ journal' \in [Operations -> JournalType]
           /\ lease' \in {NoLease} \cup [op: Operations, by: Processes, live: BOOLEAN]
<1>1. [journal[Op(p)] EXCEPT !.st = outcome] \in JournalType
  BY JournalEntry, JournalEntries
<1>. QED BY <1>1, RecordTyped DEF Close

LEMMA PublishTyped ==
    ASSUME StoreTyped, NEW p, Op(p) \in Operations, Publish(p)
    PROVE  /\ rows' \in [New -> RowStates]
           /\ rowId' \in [New -> {None} \cup Operations]
           /\ place' \in {"root", "inside"}
           /\ journal' \in [Operations -> JournalType]
           /\ lease' \in {NoLease} \cup [op: Operations, by: Processes, live: BOOLEAN]
  BY CloseTyped DEF StoreTyped, Publish, RowStates, FinalPlace

LEMMA MovedToType ==
    ASSUME NEW p \in Processes, mem[p].leg \in {"out", "in", "home", "back"},
           Source(p) \in Operations, NEW listed \in Places
    PROVE  MovedTo(p, listed) \in [at: Places, listed: Places,
                                   staging: {None} \cup Operations]
  BY DEF MovedTo, Leg, Legs, Places

LEMMA WithNotesType ==
    ASSUME StoreTyped, NEW plan
    PROVE  WithNotes(plan) \in {"none", "managed", "edited"}
  BY DEF StoreTyped, WithNotes

\* A step of a process leaves the database and the files well typed.
LEMMA WorkStore ==
    ASSUME NEW p \in Processes, Control, StoreTyped, EvidenceType, NextType, Work(p)
    PROVE  StoreTyped'
<1>. USE NoneIsNothing, Subject DEF membership, claiming, store, files, NoFault
<1>0. Op(p) \in Operations => Source(p) \in Operations
  BY DEF EvidenceType, Source
<1>1. CASE Locate(p)
  BY <1>1 DEF Locate, StoreTyped
<1>2. CASE Admit(p)
  <2>1. CASE UNCHANGED <<lease, journal>>
    BY <1>2, <2>1 DEF Admit, StoreTyped
  <2>2. CASE /\ \E o \in Operations : journal[o].st = "none"
             /\ lease' = [op |-> NextOperation, by |-> p, live |-> TRUE]
             /\ journal' = [journal EXCEPT ![NextOperation].st = "running",
                                           ![NextOperation].of = mem[p].source]
    <3>1. NextOperation \in Operations
      BY <2>2 DEF NextType
    <3>2. journal' = [journal EXCEPT ![NextOperation] =
                        [@ EXCEPT !.st = "running", !.of = mem[p].source]]
      BY <2>2, <3>1, JournalEntry DEF JournalType
    <3>3. [journal[NextOperation] EXCEPT !.st = "running", !.of = mem[p].source]
             \in JournalType
      BY <3>1, JournalEntry, JournalEntries
    <3>4. journal' \in [Operations -> JournalType]
      BY <3>1, <3>2, <3>3 DEF StoreTyped
    <3>5. lease' \in [op: Operations, by: Processes, live: BOOLEAN]
      BY <2>2, <3>1
    <3>. QED BY <1>2, <3>4, <3>5 DEF Admit, StoreTyped
  <2>. QED BY <1>2, <2>1, <2>2 DEF Admit
<1>3. CASE LoadSource(p)
  <2>1. [journal[Op(p)] EXCEPT !.planned = TRUE, !.plan = journal[mem[p].source].plan]
           \in JournalType
    BY <1>3, JournalEntry, JournalEntries DEF LoadSource
  <2>2. journal' \in [Operations -> JournalType]
    BY <1>3, <2>1, RecordTyped DEF LoadSource
  <2>. QED BY <1>3, <2>2 DEF LoadSource, StoreTyped
<1>4. CASE Prepare(p)
  BY <1>4 DEF Prepare, StoreTyped
<1>5. CASE OriginAvailable(p)
  <2>1. PICK r \in New : origins' = [origins EXCEPT ![r].exists = TRUE]
    BY <1>5 DEF OriginAvailable
  <2>2. origins' \in [New -> [id: 0..MaxRemovals, exists: BOOLEAN]]
    BY <2>1 DEF StoreTyped
  <2>. QED BY <1>5, <2>2 DEF OriginAvailable, StoreTyped
<1>6. CASE RecordPlan(p)
  <2>. DEFINE plan == [mem[p].plan EXCEPT !.claim = mem[p].asked,
                          !.moves = place = "root" /\ mem[p].plan.adds # {}]
  <2>1. plan \in PlanType
    BY DEF PlanType
  <2>2. [journal[Op(p)] EXCEPT !.planned = TRUE, !.plan = plan] \in JournalType
    BY <1>6, <2>1, JournalEntry, JournalEntries DEF RecordPlan
  <2>3. Record(p, [journal[Op(p)] EXCEPT !.planned = TRUE, !.plan = plan])
    BY <1>6 DEF RecordPlan
  <2>4. journal' \in [Operations -> JournalType]
    BY <1>6, <2>2, <2>3, RecordTyped DEF RecordPlan
  <2>. QED BY <1>6, <2>4 DEF RecordPlan, StoreTyped
<1>7. CASE PrepareFails(p)
  <2>1. troubles' \in 0..MaxTroubles
    BY <1>7, AdditionAssumption DEF PrepareFails, Fault, StoreTyped
  <2>. QED BY <1>7, <2>1, CloseTyped DEF PrepareFails, StoreTyped
<1>8. CASE MoveOriginal(p)
  <2>1. troubles' \in 0..MaxTroubles
    BY <1>8, AdditionAssumption DEF MoveOriginal, Fault, StoreTyped
  <2>2. mem[p].leg \in {"out", "in", "home", "back"} /\ Source(p) \in Operations
    BY <1>0, <1>8 DEF MoveOriginal, Moving
  <2>3. Leg(p).from \in Places /\ Leg(p).to \in Places
    BY <2>2 DEF Leg, Legs, Places
  <2>4. original' = original \/ \E listed \in Places : original' = MovedTo(p, listed)
    BY <1>8, <2>3 DEF MoveOriginal
  <2>5. original' \in [at: Places, listed: Places, staging: {None} \cup Operations]
    BY <2>2, <2>4, MovedToType DEF StoreTyped
  <2>. QED BY <1>8, <2>1, <2>5 DEF MoveOriginal, StoreTyped
<1>9. CASE RecordMove(p)
  <2>1. Op(p) \in Operations
    BY <1>9 DEF RecordMove
  <2>2. [journal[Op(p)] EXCEPT !.moved = TRUE] \in JournalType
    BY <2>1, JournalEntry, JournalEntries
  <2>. QED BY <1>9, <2>1, <2>2, RecordTyped DEF RecordMove, StoreTyped
<1>10. CASE CreateContainer(p)
  BY <1>10 DEF CreateContainer, StoreTyped
<1>11. CASE RecordContainer(p)
  <2>1. Op(p) \in Operations
    BY <1>11 DEF RecordContainer
  <2>2. [journal[Op(p)] EXCEPT !.boxed = TRUE] \in JournalType
    BY <2>1, JournalEntry, JournalEntries
  <2>. QED BY <1>11, <2>1, <2>2, RecordTyped DEF RecordContainer, StoreTyped
<1>12. CASE IntendAddition(p)
  <2>1. Op(p) \in Operations
    BY <1>12 DEF IntendAddition
  <2>2. PICK r \in New : \/ UNCHANGED journal
                         \/ Record(p, [journal[Op(p)] EXCEPT !.intended = @ \cup {r}])
    BY <1>12 DEF IntendAddition
  <2>3. [journal[Op(p)] EXCEPT !.intended = @ \cup {r}] \in JournalType
    BY <2>1, JournalEntry, JournalEntries
  <2>4. journal' \in [Operations -> JournalType]
    BY <2>1, <2>2, <2>3, RecordTyped DEF StoreTyped
  <2>. QED BY <1>12, <2>4 DEF IntendAddition, StoreTyped
<1>13. CASE CreateDirectory(p)
  <2>1. Op(p) \in 0..MaxOperations /\ mem[p].cur \in New
    BY <1>13 DEF CreateDirectory
  <2>2. UNCHANGED tree \/ tree' = [tree EXCEPT ![mem[p].cur] = [@ EXCEPT !.dir = Op(p)]]
    BY <1>13, <2>1 DEF CreateDirectory
  <2>3. tree' \in [New -> TreeType]
    <3>1. tree[mem[p].cur] \in TreeType
      BY <2>1 DEF StoreTyped
    <3>2. [tree[mem[p].cur] EXCEPT !.dir = Op(p)] \in TreeType
      BY <2>1, <3>1, Trees
    <3>. QED BY <2>2, <3>2 DEF StoreTyped
  <2>. QED BY <1>13, <2>3 DEF CreateDirectory, StoreTyped
<1>14. CASE RecordDirectory(p)
  <2>1. Op(p) \in Operations /\ mem[p].cur \in New
    BY <1>14 DEF RecordDirectory
  <2>2. [journal[Op(p)] EXCEPT !.made = @ \cup {mem[p].cur}] \in JournalType
    BY <2>1, JournalEntry, JournalEntries
  <2>. QED BY <1>14, <2>1, <2>2, RecordTyped DEF RecordDirectory, StoreTyped
<1>15. CASE AttachWorktree(p)
  <2>1. troubles' \in 0..MaxTroubles
    BY <1>15, AdditionAssumption DEF AttachWorktree, Fault, StoreTyped
  <2>2. tree' \in [New -> TreeType]
    <3>1. mem[p].cur \in New /\ tree[mem[p].cur] \in TreeType
      BY <1>15 DEF AttachWorktree, StoreTyped
    <3>. DEFINE t == tree[mem[p].cur]
                attached == [t EXCEPT !.listed = TRUE]
                part == [t EXCEPT !.listed = TRUE, !.content = "dirty"]
    <3>2. \/ UNCHANGED tree
          \/ \E u \in {attached, NoTree, part} : tree' = [tree EXCEPT ![mem[p].cur] = u]
      BY <1>15, <3>1 DEF AttachWorktree
    <3>3. "dirty" \in AllContents
      BY DEF AllContents
    <3>4. attached \in TreeType
      BY <3>1, Trees
    <3>5. part \in TreeType
      BY <3>1, <3>3, Trees
    <3>. HIDE DEF t, attached, part
    <3>. QED BY <3>2, <3>4, <3>5, NoTreeType DEF StoreTyped
  <2>. QED BY <1>15, <2>1, <2>2 DEF AttachWorktree, StoreTyped
<1>16. CASE CreateNotes(p)
  BY <1>16, WithNotesType DEF CreateNotes, StoreTyped
<1>17. CASE FinalObservations(p)
  BY <1>17 DEF FinalObservations, StoreTyped
<1>18. CASE Finish(p)
  <2>1. troubles' \in 0..MaxTroubles
    BY <1>18, AdditionAssumption DEF Finish, Fault, StoreTyped
  <2>2. CASE Publish(p)
    BY <1>18, <2>1, <2>2, PublishTyped DEF Finish, StoreTyped
  <2>3. CASE UNCHANGED <<membership, lease, journal, troubles>>
    BY <1>18, <2>3 DEF Finish, StoreTyped
  <2>. QED BY <1>18, <2>2, <2>3 DEF Finish
<1>19. CASE ApplyFails(p) \/ UndoFails(p)
  <2>1. troubles' \in 0..MaxTroubles
    BY <1>19, AdditionAssumption DEF ApplyFails, UndoFails, Fault, StoreTyped
  <2>. QED BY <1>19, <2>1 DEF ApplyFails, UndoFails, StoreTyped
<1>20. CASE FailExecution(p)
  BY <1>20 DEF FailExecution, StoreTyped
<1>21. CASE Compensate(p)
  <2>1. Op(p) \in Operations
    BY <1>21 DEF Compensate
  <2>2. [journal[Op(p)] EXCEPT !.rollback = TRUE] \in JournalType
    BY <2>1, JournalEntry, JournalEntries
  <2>. QED BY <1>21, <2>1, <2>2, RecordTyped DEF Compensate, StoreTyped
<1>22. CASE RemoveAddition(p)
  <2>1. tree' \in [New -> TreeType]
    BY <1>22, NoTreeType DEF RemoveAddition, StoreTyped
  <2>. QED BY <1>22, <2>1 DEF RemoveAddition, StoreTyped
<1>23. CASE DetachWorktree(p)
  <2>1. tree' \in [New -> TreeType]
    BY <1>23, NoTreeType DEF DetachWorktree, StoreTyped
  <2>. QED BY <1>23, <2>1 DEF DetachWorktree, StoreTyped
<1>24. CASE RestoreOriginal(p)
  BY <1>24 DEF RestoreOriginal, StoreTyped
<1>25. CASE RemoveContainer(p)
  BY <1>25 DEF RemoveContainer, StoreTyped
<1>26. CASE RecordRestoration(p)
  BY <1>26 DEF RecordRestoration, StoreTyped
<1>27. CASE Resolve(p)
  <2>1. Op(p) \in Operations
    BY <1>27 DEF Resolve
  <2>2. Close(p, journal[Op(p)], "rolled_back") \/ Close(p, journal[Op(p)], "failed")
    BY <1>27 DEF Resolve
  <2>3. /\ journal' \in [Operations -> JournalType]
        /\ lease' \in {NoLease} \cup [op: Operations, by: Processes, live: BOOLEAN]
    BY <2>1, <2>2, CloseTyped
  <2>. QED BY <1>27, <2>3 DEF Resolve, StoreTyped, RowStates
<1>28. CASE Retain(p)
  <2>1. Op(p) \in Operations /\ Source(p) \in Operations
    BY <1>0, <1>28 DEF Retain
  <2>2. CASE Close(p, journal[Op(p)], "failed")
    <3>1. /\ journal' \in [Operations -> JournalType]
          /\ lease' \in {NoLease} \cup [op: Operations, by: Processes, live: BOOLEAN]
      BY <2>1, <2>2, CloseTyped
    <3>2. /\ rows' \in [New -> RowStates]
          /\ rowId' \in [New -> {None} \cup Operations]
          /\ unresolved' \in {None} \cup Operations
      <4>1. rows' = rows \/ rows' = [r \in New |-> IF r \in Remaining(p) THEN "failed"
                                                                        ELSE rows[r]]
        BY <1>28 DEF Retain
      <4>2. rowId' = rowId
            \/ rowId' = [r \in New |-> IF r \in Remaining(p) THEN Source(p) ELSE rowId[r]]
        BY <1>28 DEF Retain
      <4>3. unresolved' = unresolved \/ unresolved' = Op(p)
        BY <1>28 DEF Retain
      <4>. QED BY <2>1, <4>1, <4>2, <4>3 DEF StoreTyped, RowStates
    <3>. QED BY <1>28, <3>1, <3>2 DEF Retain, StoreTyped
  <2>3. CASE UNCHANGED <<rows, rowId, unresolved, journal, lease>>
    BY <1>28, <2>3 DEF Retain, StoreTyped
  <2>. QED BY <1>28, <2>2, <2>3 DEF Retain
<1>29. CASE Decide(p)
  <2>1. CASE Close(p, journal[Op(p)], "failed")
    BY <1>29, <2>1, CloseTyped DEF Decide, StoreTyped
  <2>2. CASE UNCHANGED <<lease, journal>>
    BY <1>29, <2>2 DEF Decide, StoreTyped
  <2>. QED BY <1>29, <2>1, <2>2 DEF Decide
<1>30. CASE Republish(p)
  <2>1. CASE Publish(p)
    BY <1>30, <2>1, PublishTyped, WithNotesType DEF Republish, StoreTyped
  <2>2. CASE UNCHANGED <<membership, lease, journal>>
    BY <1>30, <2>2, WithNotesType DEF Republish, StoreTyped
  <2>. QED BY <1>30, <2>1, <2>2 DEF Republish
<1>. QED
  BY <1>1, <1>2, <1>3, <1>4, <1>5, <1>6, <1>7, <1>8, <1>9, <1>10, <1>11, <1>12, <1>13, <1>14,
     <1>15, <1>16, <1>17, <1>18, <1>19, <1>20, <1>21, <1>22, <1>23, <1>24, <1>25, <1>26,
     <1>27, <1>28, <1>29, <1>30
  DEF Work

-----------------------------------------------------------------------------
(* The other steps. *)

\* A command that starts.
LEMMA StartMoves ==
    ASSUME NEW p \in Processes, Control, StoreTyped, Start(p)
    PROVE  Moves(p) /\ StoreTyped'
<1>. DEFINE fresh == [Blank EXCEPT !.adds = TRUE, !.chose = claim, !.asked = claim]
            taken(adds) == [Blank EXCEPT !.adds = adds, !.chose = claim, !.asked = claim,
                                         !.op = lease.op, !.mode = "recover"]
<1>1. claim \in 0..MaxClaims
  BY DEF StoreTyped
<1>2. fresh \in MemoryType /\ LocalOK("locate", fresh)
  BY <1>1, BlankFits, NoneIsNothing
  DEF Fits, MemoryType, LocalOK, Planning, Adds, Adding, Moving, Blank
<1>3. ASSUME lease # NoLease, NEW adds \in BOOLEAN
      PROVE  taken(adds) \in MemoryType /\ LocalOK("decide", taken(adds))
  <2>1. lease.op \in Operations /\ lease.op # None
    BY <1>3, NoneIsNothing DEF StoreTyped
  <2>2. taken(adds) \in MemoryType
    BY <1>1, <2>1, BlankFits DEF Fits, MemoryType, Blank
  <2>3. LocalOK("decide", taken(adds))
    BY <2>1, NoneIsNothing DEF LocalOK, Planning, Adds, Adding, Moving, Blank
  <2>. QED BY <2>2, <2>3
<1>4. \/ Step(p, "locate", fresh) /\ UNCHANGED lease
      \/ /\ lease # NoLease
         /\ lease' = [lease EXCEPT !.by = p, !.live = TRUE]
         /\ \E adds \in BOOLEAN : Step(p, "decide", taken(adds))
  BY DEF Start
<1>5. Moves(p)
  BY <1>2, <1>3, <1>4, FitsMoves DEF Fits, Label
<1>6. lease' \in {NoLease} \cup [op: Operations, by: Processes, live: BOOLEAN]
  BY <1>4 DEF StoreTyped
<1>7. StoreTyped'
  BY <1>6 DEF Start, StoreTyped, membership, claiming, files
<1>. QED BY <1>5, <1>7

\* A process that dies.
LEMMA CrashMoves ==
    ASSUME NEW p \in Processes, StoreTyped, Crash(p)
    PROVE  Moves(p) /\ StoreTyped'
<1>1. troubles' \in 0..MaxTroubles
  BY AdditionAssumption DEF Crash, Fault, StoreTyped
<1>. QED
  BY <1>1, EndMoves DEF Crash, StoreTyped, store, files, membership, claiming

\* The steps of users, of other commands and of time.
LEMMA EnvironmentTyped ==
    ASSUME Control, StoreTyped, Environment
    PROVE  Control' /\ StoreTyped'
<1>. USE DEF membership, claiming, store, files, control
<1>1. Control'
  BY DEF Control, Environment, Expire, Release, Reclaim, Edit, Repair, RemoveOrigin
<1>2. CASE Expire
  <2>1. lease' \in {NoLease} \cup [op: Operations, by: Processes, live: BOOLEAN]
    BY <1>2 DEF Expire, StoreTyped
  <2>. QED BY <1>1, <1>2, <2>1 DEF Expire, StoreTyped
<1>3. CASE Release
  <2>1. claim' \in 0..MaxClaims
    BY <1>3, AdditionAssumption DEF Release
  <2>. QED BY <1>1, <1>3, <2>1 DEF Release, StoreTyped
<1>4. CASE Reclaim
  <2>1. troubles' \in 0..MaxTroubles
    BY <1>4, AdditionAssumption DEF Reclaim, Fault, StoreTyped
  <2>2. claim' \in 0..MaxClaims /\ claims' \in 0..MaxClaims
    BY <1>4, AdditionAssumption DEF Reclaim, StoreTyped
  <2>. QED BY <1>1, <1>4, <2>1, <2>2 DEF Reclaim, StoreTyped
<1>5. CASE Edit
  <2>1. troubles' \in 0..MaxTroubles
    BY <1>5, AdditionAssumption DEF Edit, Fault, StoreTyped
  <2>2. tree' \in [New -> TreeType]
    <3>1. CASE UNCHANGED tree
      BY <3>1 DEF StoreTyped
    <3>2. CASE \E r \in New, content \in Contents : tree' = [tree EXCEPT ![r].content = content]
      <4>1. PICK r \in New, content \in AllContents :
              tree' = [tree EXCEPT ![r].content = content]
        BY <3>2, AdditionAssumption
      <4>2. [tree[r] EXCEPT !.content = content] \in TreeType
        BY Trees DEF StoreTyped
      <4>. QED BY <4>1, <4>2 DEF StoreTyped
    <3>3. CASE \E r \in New : tree' = [tree EXCEPT ![r].dir = 0, ![r].content = "dirty"]
      <4>1. PICK r \in New : tree' = [tree EXCEPT ![r].dir = 0, ![r].content = "dirty"]
        BY <3>3
      <4>2. tree' = [tree EXCEPT ![r] = [@ EXCEPT !.dir = 0, !.content = "dirty"]]
        BY <4>1 DEF StoreTyped, TreeType
      <4>3. [tree[r] EXCEPT !.dir = 0, !.content = "dirty"] \in TreeType
        <5>1. "dirty" \in AllContents
          BY DEF AllContents
        <5>. QED BY <5>1, Trees DEF StoreTyped
      <4>. QED BY <4>2, <4>3 DEF StoreTyped
    <3>. QED BY <1>5, <3>1, <3>2, <3>3 DEF Edit
  <2>3. container' \in {None} \cup 0..MaxOperations
    <3>1. UNCHANGED container \/ container' = 0
      BY <1>5 DEF Edit
    <3>. QED BY <3>1, AdditionAssumption DEF StoreTyped
  <2>4. notes' \in {"none", "managed", "edited"}
    <3>1. UNCHANGED notes \/ notes' = "edited"
      BY <1>5 DEF Edit
    <3>. QED BY <3>1 DEF StoreTyped
  <2>5. UNCHANGED <<store, original>>
    BY <1>5 DEF Edit
  <2>. QED BY <1>1, <2>1, <2>2, <2>3, <2>4, <2>5 DEF StoreTyped
<1>6. CASE Repair
  <2>1. tree' \in [New -> TreeType]
    BY <1>6, NoTreeType DEF Repair, StoreTyped
  <2>2. original' \in [at: Places, listed: Places, staging: {None} \cup Operations]
    BY <1>6 DEF Repair, StoreTyped
  <2>3. container' \in {None} \cup 0..MaxOperations /\ notes' \in {"none", "managed", "edited"}
    BY <1>6 DEF Repair, StoreTyped
  <2>4. UNCHANGED <<store, troubles>>
    BY <1>6 DEF Repair
  <2>. QED BY <1>1, <2>1, <2>2, <2>3, <2>4 DEF StoreTyped
<1>7. CASE \E r \in New : RemoveOrigin(r)
  <2>1. PICK r \in New : RemoveOrigin(r)
    BY <1>7
  <2>2. troubles' \in 0..MaxTroubles
    BY <2>1, AdditionAssumption DEF RemoveOrigin, Fault, StoreTyped
  <2>3. origins' \in [New -> [id: 0..MaxRemovals, exists: BOOLEAN]]
    BY <2>1, AdditionAssumption DEF RemoveOrigin, StoreTyped
  <2>. QED BY <1>1, <2>1, <2>2, <2>3 DEF RemoveOrigin, StoreTyped
<1>. QED BY <1>1, <1>2, <1>3, <1>4, <1>5, <1>6, <1>7 DEF Environment

\* Such a step keeps the control of all the processes.
LEMMA MovesControl ==
    ASSUME NEW p \in Processes, Control, Moves(p)
    PROVE  Control'
<1>1. PICK l, m : Fits(l, m) /\ Step(p, l, m)
  BY DEF Moves
<1>2. pc' = [pc EXCEPT ![p] = l] /\ mem' = [mem EXCEPT ![p] = m]
  BY <1>1 DEF Step
<1>3. pc' \in [Processes -> Label] /\ mem' \in [Processes -> MemoryType]
  BY <1>1, <1>2 DEF Control, Fits
<1>4. ASSUME NEW q \in Processes PROVE LocalOK(pc'[q], mem'[q])
  <2>1. CASE q = p
    BY <1>1, <1>2, <2>1 DEF Control, Fits
  <2>2. CASE q # p
    <3>1. pc'[q] = pc[q] /\ mem'[q] = mem[q]
      BY <1>2, <2>2 DEF Control
    <3>. QED BY <3>1 DEF Control
  <2>. QED BY <2>1, <2>2
<1>. QED BY <1>3, <1>4 DEF Control

Typed == Control /\ StoreTyped

\* Every step keeps the types.
LEMMA StepTyped ==
    ASSUME Typed, EvidenceType, NextType, Next
    PROVE  Typed'
<1>1. CASE Environment
  BY <1>1, EnvironmentTyped DEF Typed
<1>2. ASSUME NEW p \in Processes, Start(p) \/ Work(p) \/ Crash(p) PROVE Typed'
  BY <1>2, StartMoves, WorkMoves, WorkStore, CrashMoves, MovesControl DEF Typed
<1>. QED BY <1>1, <1>2 DEF Next

\* They are those of the type invariant.
LEMMA TypedTypeOK == ASSUME Typed PROVE TypeOK
  BY DEF Typed, Control, StoreTyped, LocalOK, TypeOK, Moving

\* They hold at first.
LEMMA InitTyped == ASSUME Init PROVE Typed
<1>1. StoreTyped
  <2>1. NoJournal \in JournalType
    BY BlankFits DEF NoJournal, JournalType
  <2>2. (IF Automatic THEN 1 ELSE 0) \in 0..MaxClaims
    BY AdditionAssumption
  <2>3. [at |-> place, listed |-> place, staging |-> None]
           \in [at: Places, listed: Places, staging: {None} \cup Operations]
    BY AdditionAssumption DEF Init, Places
  <2>. QED
    BY <2>1, <2>2, <2>3, AdditionAssumption, NoTreeType DEF Init, StoreTyped, RowStates
<1>2. Control
  BY BlankFits DEF Init, Control, Fits
<1>. QED BY <1>1, <1>2 DEF Typed

-----------------------------------------------------------------------------
(* What a step does to the operations, their lease and the addition that is *)
(* unresolved.                                                              *)

Used(o)     == journal[o].st # "none"
Finished(p) == pc[p] = "fail" /\ journal[Op(p)].st = "succeeded"

\* A process goes on with its operation, or is done with it.
GoesOn(p) == mem'[p].op = None \/ (mem'[p].op = mem[p].op /\ ~Finished(p))

\* Nothing is written.
Quiet(p) == UNCHANGED <<journal, lease, unresolved>> /\ GoesOn(p)

\* A new operation is admitted.
Admits(p) ==
    /\ pc[p] = "admit" /\ lease = NoLease /\ SameTarget(p)
    /\ \E o \in Operations : journal[o].st = "none"
    /\ lease' = [op |-> NextOperation, by |-> p, live |-> TRUE]
    /\ journal' = [journal EXCEPT ![NextOperation].st = "running",
                                  ![NextOperation].of = mem[p].source]
    /\ UNCHANGED unresolved
    /\ mem'[p].op = NextOperation
    /\ pc'[p] = IF mem[p].source = None THEN "prepare" ELSE "source"

\* A journal that says more than another about the same work.
Extends(e, j) == /\ e.st = j.st /\ e.of = j.of
                 /\ e.planned = j.planned /\ e.plan = j.plan
                 /\ j.intended \subseteq e.intended

\* Evidence is recorded, or that the work is taken back.
Writes(p) ==
    /\ \E e \in JournalType :
        /\ Record(p, e) /\ Extends(e, journal[Op(p)])
        /\ pc[p] # "compensate" => e.rollback = journal[Op(p)].rollback
    /\ pc[p] \in {"moved", "boxed", "additions", "identity", "compensate"}
    /\ UNCHANGED <<lease, unresolved>>
    /\ mem'[p].op = mem[p].op

\* A plan is recorded.
Plans(p) ==
    /\ pc[p] \in {"origins", "source"}
    /\ \E plan \in PlanType :
        /\ Record(p, [journal[Op(p)] EXCEPT !.planned = TRUE, !.plan = plan])
        /\ pc[p] = "source" => plan = journal[mem[p].source].plan
        /\ pc[p] = "origins" =>
             plan = [mem[p].plan EXCEPT !.claim = mem[p].asked,
                        !.moves = place = "root" /\ mem[p].plan.adds # {}]
    /\ UNCHANGED <<lease, unresolved>>
    /\ mem'[p].op = mem[p].op

\* An operation is over.
Closes(p) ==
    /\ \E st \in {"succeeded", "failed", "rolled_back"} :
        /\ Close(p, journal[Op(p)], st)
        /\ mem'[p].op = None \/ (/\ mem'[p].op = mem[p].op /\ st = "succeeded"
                                 /\ pc'[p] = "fail")
        /\ pc[p] = "retain" => st = "failed"
    /\ pc[p] \in {"prepare", "origins", "finish", "republish", "resolve", "retain", "decide"}
    /\ pc[p] = "decide" => ~journal[Op(p)].planned
    /\ unresolved' = IF pc[p] = "retain" THEN Op(p)
                     ELSE IF pc[p] = "resolve" THEN None ELSE unresolved

Effect(p) == Quiet(p) \/ Admits(p) \/ Writes(p) \/ Plans(p) \/ Closes(p)

\* What the events of evidence do to a journal.
LEMMA Extended ==
    ASSUME NEW j \in JournalType
    PROVE  /\ Extends([j EXCEPT !.moved = TRUE], j)
           /\ Extends([j EXCEPT !.boxed = TRUE], j)
           /\ Extends([j EXCEPT !.rollback = TRUE], j)
           /\ [j EXCEPT !.moved = TRUE].rollback = j.rollback
           /\ [j EXCEPT !.boxed = TRUE].rollback = j.rollback
           /\ \A r \in New :
                /\ Extends([j EXCEPT !.intended = @ \cup {r}], j)
                /\ Extends([j EXCEPT !.made = @ \cup {r}], j)
                /\ [j EXCEPT !.intended = @ \cup {r}].rollback = j.rollback
                /\ [j EXCEPT !.made = @ \cup {r}].rollback = j.rollback
  BY DEF Extends, JournalType

\* The operation of a process after its step.
LEMMA StepEnds ==
    ASSUME NEW p \in Processes, Control
    PROVE  /\ \A l, m : Step(p, l, m) => pc'[p] = l /\ mem'[p] = m
           /\ \A l : GiveUp(p, l) => pc'[p] = l /\ mem'[p].op = mem[p].op
           /\ End(p) => pc'[p] = "idle" /\ mem'[p].op = None
           /\ \A b : Continue(p, b) => mem'[p].op = None
<1>1. \A l, m : Step(p, l, m) => pc'[p] = l /\ mem'[p] = m
  BY StepIs
<1>2. mem[p] \in MemoryType
  BY DEF Control
<1>3. Blank.op = None
  BY DEF Blank
<1>4. \A l : GiveUp(p, l) => pc'[p] = l /\ mem'[p].op = mem[p].op
  BY <1>1, <1>2 DEF GiveUp, MemoryType
<1>5. End(p) => pc'[p] = "idle" /\ mem'[p].op = None
  BY <1>1, <1>3 DEF End
<1>6. \A b : Continue(p, b) => mem'[p].op = None
  <2>. DEFINE m == [Blank EXCEPT !.adds = TRUE, !.chose = mem[p].chose,
                                 !.asked = mem[p].asked, !.members = mem[p].members]
  <2>1. m.op = None
    BY DEF Blank
  <2>2. \A b : Continue(p, b) => Step(p, "locate", m) \/ Step(p, "admit", m) \/ End(p)
    BY DEF Continue
  <2>. HIDE DEF m
  <2>. QED BY <1>1, <1>5, <2>1, <2>2
<1>. QED BY <1>1, <1>4, <1>5, <1>6

\* Every step of a process has one of the five effects.
LEMMA WorkEffect ==
    ASSUME NEW p \in Processes, Typed, NextType, Work(p)
    PROVE  Effect(p)
<1>0. /\ \A l, m : Step(p, l, m) => pc'[p] = l /\ mem'[p] = m
      /\ \A l : GiveUp(p, l) => pc'[p] = l /\ mem'[p].op = mem[p].op
      /\ End(p) => pc'[p] = "idle" /\ mem'[p].op = None
      /\ \A b : Continue(p, b) => mem'[p].op = None
  BY StepEnds DEF Typed
<1>20. mem[p] \in MemoryType
  BY DEF Typed, Control
<1>21. Op(p) \in Operations => journal[Op(p)] \in JournalType
  BY JournalEntry DEF Typed
<1>22. pc[p] \notin {"idle", "locate", "admit"} => Op(p) \in Operations
  BY Subject DEF Typed
<1>. USE <1>0, <1>20, <1>21, <1>22 DEF store, files, membership, claiming
<1>1. CASE Admit(p)
  BY <1>1 DEF Admit, Effect, Quiet, Admits, GoesOn, Finished, MemoryType
<1>2. CASE LoadSource(p)
  <2>1. mem[p].source \in Operations
    BY <1>2, Subject DEF LoadSource, Typed
  <2>2. journal[mem[p].source].plan \in PlanType
    BY <2>1, JournalEntry, JournalEntries DEF Typed
  <2>. QED BY <1>2, <2>2 DEF LoadSource, Effect, Plans
<1>3. CASE RecordPlan(p)
  <2>1. [mem[p].plan EXCEPT !.claim = mem[p].asked,
                            !.moves = place = "root" /\ mem[p].plan.adds # {}] \in PlanType
    BY DEF MemoryType, PlanType
  <2>2. mem'[p].op = mem[p].op
    BY <1>3 DEF RecordPlan, MemoryType
  <2>. QED BY <1>3, <2>1, <2>2 DEF RecordPlan, Effect, Plans
<1>4. CASE PrepareFails(p)
  BY <1>4 DEF PrepareFails, Effect, Closes
<1>5. CASE RecordMove(p)
  <2>. DEFINE e == [journal[Op(p)] EXCEPT !.moved = TRUE]
  <2>1. /\ e \in JournalType /\ Extends(e, journal[Op(p)])
        /\ e.rollback = journal[Op(p)].rollback
    BY <1>5, JournalEntries, Extended DEF RecordMove, Typed
  <2>2. Record(p, e) /\ mem'[p].op = mem[p].op
    BY <1>5 DEF RecordMove, MemoryType
  <2>. HIDE DEF e
  <2>. QED BY <1>5, <2>1, <2>2 DEF RecordMove, Effect, Writes
<1>6. CASE RecordContainer(p)
  <2>. DEFINE e == [journal[Op(p)] EXCEPT !.boxed = TRUE]
  <2>1. /\ e \in JournalType /\ Extends(e, journal[Op(p)])
        /\ e.rollback = journal[Op(p)].rollback
    BY <1>6, JournalEntries, Extended DEF RecordContainer, Typed
  <2>2. Record(p, e) /\ mem'[p].op = mem[p].op
    BY <1>6 DEF RecordContainer, MemoryType
  <2>. HIDE DEF e
  <2>. QED BY <1>6, <2>1, <2>2 DEF RecordContainer, Effect, Writes
<1>7. CASE IntendAddition(p)
  <2>1. CASE GiveUp(p, "fail") /\ UNCHANGED journal
    BY <1>7, <2>1 DEF IntendAddition, Effect, Quiet, GoesOn, Finished
  <2>2. CASE \E r \in mem[p].todo :
                /\ Record(p, [journal[Op(p)] EXCEPT !.intended = @ \cup {r}])
                /\ Step(p, "mkdir", [mem[p] EXCEPT !.cur = r, !.todo = @ \ {r}])
    <3>1. PICK r \in New :
                /\ Record(p, [journal[Op(p)] EXCEPT !.intended = @ \cup {r}])
                /\ Step(p, "mkdir", [mem[p] EXCEPT !.cur = r, !.todo = @ \ {r}])
      BY <2>2, Subject DEF Typed
    <3>. DEFINE e == [journal[Op(p)] EXCEPT !.intended = @ \cup {r}]
    <3>2. /\ e \in JournalType /\ Extends(e, journal[Op(p)])
          /\ e.rollback = journal[Op(p)].rollback
      BY <1>7, JournalEntries, Extended DEF IntendAddition
    <3>3. mem'[p].op = mem[p].op
      BY <3>1 DEF MemoryType
    <3>4. Record(p, e)
      BY <3>1
    <3>. HIDE DEF e
    <3>. QED BY <1>7, <3>2, <3>3, <3>4 DEF IntendAddition, Effect, Writes
  <2>. QED BY <1>7, <2>1, <2>2 DEF IntendAddition
<1>8. CASE RecordDirectory(p)
  <2>. DEFINE e == [journal[Op(p)] EXCEPT !.made = @ \cup {mem[p].cur}]
  <2>1. /\ e \in JournalType /\ Extends(e, journal[Op(p)])
        /\ e.rollback = journal[Op(p)].rollback
    BY <1>8, JournalEntries, Extended, Subject DEF RecordDirectory, Typed
  <2>2. Record(p, e) /\ mem'[p].op = mem[p].op
    BY <1>8 DEF RecordDirectory, MemoryType
  <2>. HIDE DEF e
  <2>. QED BY <1>8, <2>1, <2>2 DEF RecordDirectory, Effect, Writes
<1>9. CASE Compensate(p)
  <2>. DEFINE e == [journal[Op(p)] EXCEPT !.rollback = TRUE]
  <2>1. /\ e \in JournalType /\ Extends(e, journal[Op(p)])
    BY <1>9, JournalEntries, Extended DEF Compensate, Typed
  <2>2. Record(p, e) /\ mem'[p].op = mem[p].op
    BY <1>9 DEF Compensate, MemoryType
  <2>. HIDE DEF e
  <2>. QED BY <1>9, <2>1, <2>2 DEF Compensate, Effect, Writes
<1>10. CASE Finish(p)
  BY <1>10 DEF Finish, Publish, Effect, Closes, Quiet, GoesOn, Finished
<1>11. CASE Republish(p)
  BY <1>11 DEF Republish, Publish, Effect, Closes, Quiet, GoesOn
<1>12. CASE Resolve(p)
  BY <1>12 DEF Resolve, Effect, Closes
<1>13. CASE Retain(p)
  BY <1>13 DEF Retain, Effect, Closes, Quiet, GoesOn
<1>14. CASE Decide(p)
  BY <1>14 DEF Decide, Effect, Closes, Quiet, GoesOn, Finished
<1>15. CASE Locate(p) \/ Prepare(p) \/ OriginAvailable(p)
  BY <1>15 DEF Locate, Prepare, OriginAvailable, Effect, Quiet, GoesOn, Finished, MemoryType
<1>16. CASE MoveOriginal(p) \/ CreateContainer(p) \/ CreateDirectory(p) \/ AttachWorktree(p)
  BY <1>16 DEF MoveOriginal, CreateContainer, CreateDirectory, AttachWorktree, Effect,
     Quiet, GoesOn, Finished, MemoryType
<1>17. CASE CreateNotes(p) \/ FinalObservations(p) \/ FailExecution(p) \/ ApplyFails(p)
  BY <1>17 DEF CreateNotes, FinalObservations, FailExecution, ApplyFails, Effect, Quiet,
     GoesOn, Finished
<1>18. CASE RemoveAddition(p) \/ DetachWorktree(p) \/ RestoreOriginal(p)
  BY <1>18 DEF RemoveAddition, DetachWorktree, RestoreOriginal, Effect, Quiet, GoesOn,
     Finished, MemoryType
<1>19. CASE RemoveContainer(p) \/ RecordRestoration(p) \/ UndoFails(p)
  BY <1>19 DEF RemoveContainer, RecordRestoration, UndoFails, Effect, Quiet, GoesOn,
     Finished, MemoryType
<1>. QED
  BY <1>1, <1>2, <1>3, <1>4, <1>5, <1>6, <1>7, <1>8, <1>9, <1>10, <1>11, <1>12, <1>13, <1>14,
     <1>15, <1>16, <1>17, <1>18, <1>19
  DEF Work

-----------------------------------------------------------------------------
(* Operations are numbered as they are admitted, each undoes an earlier one  *)
(* or none, and the lease belongs to the latest, which alone is running.     *)

Numbered ==
    /\ \A o \in Operations : ~Used(o) => journal[o] = NoJournal
    /\ \A o, q \in Operations : o < q /\ Used(q) => Used(o)
    /\ \A o \in Operations : journal[o].of # None => journal[o].of < o
    /\ unresolved # None => Used(unresolved)
    /\ \A p \in Processes : mem[p].source # None => Used(mem[p].source)
    /\ \A p \in Processes : mem[p].op # None => Used(mem[p].op)

Holds(p) == lease # NoLease /\ lease.op = mem[p].op /\ lease.by = p /\ lease.live

\* A process has the lease of its operation, unless that was published and the
\* process has not heard of it.
Held ==
    /\ \A p \in Processes : mem[p].op # None => Holds(p) \/ Finished(p)
    /\ lease # NoLease => journal[lease.op].st = "running"
    /\ \A o \in Operations : journal[o].st = "running" => lease # NoLease /\ lease.op = o
    /\ \A o \in Operations : lease # NoLease /\ Used(o) => o <= lease.op

\* The operation that is admitted next is the first that is not used.
LEMMA NextOperationIs ==
    ASSUME \E o \in Operations : journal[o].st = "none"
    PROVE  /\ NextOperation \in Operations /\ ~Used(NextOperation)
           /\ \A q \in Operations : ~Used(q) => NextOperation <= q
<1>. DEFINE S == {o \in Operations : journal[o].st = "none"}
<1>1. \E o \in S : \A q \in S : o <= q
  BY Least
<1>2. \E o \in Operations : /\ journal[o].st = "none"
                            /\ \A q \in Operations : journal[q].st = "none" => o <= q
  BY <1>1
<1>. QED BY <1>2 DEF NextOperation, Used

\* It is an operation.
LEMMA NextTyped == NextType
  BY NextOperationIs DEF NextType

\* The other processes remember what they did.
LEMMA Frame ==
    ASSUME NEW p \in Processes, Control, Moves(p)
    PROVE  \A q \in Processes : q # p => pc'[q] = pc[q] /\ mem'[q] = mem[q]
  BY DEF Moves, Step, Control

\* What a command is to undo first is read in one place.
LEMMA WorkSource ==
    ASSUME NEW p \in Processes, Typed, Work(p), mem'[p].source # None
    PROVE  \/ mem'[p].source = mem[p].source
           \/ mem'[p].source = unresolved /\ UNCHANGED <<journal, unresolved>>
<1>1. \A l, m : Step(p, l, m) => pc'[p] = l /\ mem'[p] = m
  BY StepIs DEF Typed
<1>2. mem[p] \in MemoryType
  BY DEF Typed, Control
<1>3. Blank.source = None
  BY DEF Blank
<1>4. \A b : Continue(p, b) => mem'[p].source = None
  <2>. DEFINE m == [Blank EXCEPT !.adds = TRUE, !.chose = mem[p].chose,
                                 !.asked = mem[p].asked, !.members = mem[p].members]
  <2>1. m.source = None
    BY DEF Blank
  <2>2. \A b : Continue(p, b) => Step(p, "locate", m) \/ Step(p, "admit", m) \/ End(p)
    BY DEF Continue
  <2>. HIDE DEF m
  <2>. QED BY <1>1, <1>3, <2>1, <2>2 DEF End
<1>5. \A l : GiveUp(p, l) => mem'[p].source = mem[p].source
  BY <1>1, <1>2 DEF GiveUp, MemoryType
<1>. USE <1>1, <1>2, <1>3, <1>4, <1>5 DEF End, MemoryType, store
<1>6. CASE Locate(p) \/ Admit(p) \/ LoadSource(p) \/ Prepare(p) \/ PrepareFails(p)
  <2>1. CASE Locate(p)
    BY <2>1 DEF Locate
  <2>2. CASE Admit(p)
    <3>. DEFINE m == [mem[p] EXCEPT !.op = NextOperation,
                        !.mode = IF mem[p].source = None THEN "execute" ELSE "residual"]
    <3>1. m.source = mem[p].source
      OBVIOUS
    <3>2. End(p) \/ \E l : Step(p, l, m)
      BY <2>2 DEF Admit
    <3>. HIDE DEF m
    <3>. QED BY <3>1, <3>2
  <2>3. CASE LoadSource(p) \/ Prepare(p) \/ PrepareFails(p)
    BY <2>3 DEF LoadSource, Prepare, PrepareFails
  <2>. QED BY <1>6, <2>1, <2>2, <2>3
<1>7. CASE OriginAvailable(p) \/ RecordPlan(p)
  <2>1. CASE OriginAvailable(p)
    BY <2>1 DEF OriginAvailable
  <2>2. CASE RecordPlan(p)
    <3>. DEFINE m(l) == [mem[p] EXCEPT !.leg = l, !.todo = mem[p].plan.adds, !.plan = NoPlan]
    <3>1. \A l : m(l).source = mem[p].source
      OBVIOUS
    <3>2. \E k, l : Step(p, k, m(l))
      BY <2>2 DEF RecordPlan
    <3>. HIDE DEF m
    <3>. QED BY <3>1, <3>2
  <2>. QED BY <1>7, <2>1, <2>2
<1>8. CASE MoveOriginal(p) \/ RecordMove(p) \/ CreateContainer(p) \/ RecordContainer(p)
  <2>1. CASE MoveOriginal(p)
    BY <2>1 DEF MoveOriginal
  <2>2. CASE RecordMove(p) \/ CreateContainer(p) \/ RecordContainer(p)
    BY <2>2 DEF RecordMove, CreateContainer, RecordContainer
  <2>. QED BY <1>8, <2>1, <2>2
<1>9. CASE IntendAddition(p) \/ CreateDirectory(p) \/ RecordDirectory(p) \/ AttachWorktree(p)
  BY <1>9 DEF IntendAddition, CreateDirectory, RecordDirectory, AttachWorktree
<1>10. CASE CreateNotes(p) \/ FinalObservations(p) \/ Finish(p) \/ ApplyFails(p)
  BY <1>10 DEF CreateNotes, FinalObservations, Finish, ApplyFails
<1>11. CASE FailExecution(p) \/ Compensate(p) \/ RemoveAddition(p) \/ DetachWorktree(p)
  <2>1. CASE Compensate(p)
    <3>. DEFINE m(b) == [mem[p] EXCEPT !.todo = Plan(p).adds, !.mutated = b]
    <3>1. \A b : m(b).source = mem[p].source
      OBVIOUS
    <3>2. \E b : Step(p, "remove", m(b))
      BY <2>1 DEF Compensate
    <3>. HIDE DEF m
    <3>. QED BY <3>1, <3>2
  <2>2. CASE FailExecution(p)
    BY <2>2 DEF FailExecution
  <2>3. CASE RemoveAddition(p)
    BY <2>3 DEF RemoveAddition
  <2>4. CASE DetachWorktree(p)
    BY <2>4 DEF DetachWorktree
  <2>. QED BY <1>11, <2>1, <2>2, <2>3, <2>4
<1>12. CASE RestoreOriginal(p) \/ RemoveContainer(p) \/ RecordRestoration(p) \/ Resolve(p)
  BY <1>12 DEF RestoreOriginal, RemoveContainer, RecordRestoration, Resolve
<1>13. CASE UndoFails(p) \/ Retain(p) \/ Decide(p) \/ Republish(p)
  BY <1>13 DEF UndoFails, Retain, Decide, Republish
<1>. QED BY <1>6, <1>7, <1>8, <1>9, <1>10, <1>11, <1>12, <1>13 DEF Work

\* Only a working process writes to the journal, and an operation that is over
\* stays as it is.
LEMMA EnvironmentQuiet ==
    ASSUME Environment
    PROVE  UNCHANGED <<journal, unresolved, pc, mem>>
  BY DEF Environment, Expire, Release, Reclaim, Edit, Repair, RemoveOrigin, store, control,
     membership, claiming, files

\* A command that starts writes nothing, but may take over an expired lease.
LEMMA StartEffect ==
    ASSUME NEW p \in Processes, Typed, Start(p)
    PROVE  /\ UNCHANGED <<journal, unresolved>>
           /\ mem'[p].source = None
           /\ pc'[p] \in {"locate", "decide"}
           /\ \/ mem'[p].op = None /\ UNCHANGED lease
              \/ /\ mem'[p].op = lease.op /\ lease # NoLease /\ ~lease.live
                 /\ lease' # NoLease /\ lease'.op = lease.op /\ lease'.by = p /\ lease'.live
<1>1. \A l, m : Step(p, l, m) => pc'[p] = l /\ mem'[p] = m
  BY StepIs DEF Typed
<1>. DEFINE fresh == [Blank EXCEPT !.adds = TRUE, !.chose = claim, !.asked = claim]
            taken(adds) == [Blank EXCEPT !.adds = adds, !.chose = claim, !.asked = claim,
                                         !.op = lease.op, !.mode = "recover"]
<1>2. fresh.op = None /\ fresh.source = None
  BY DEF Blank
<1>3. \A adds \in BOOLEAN : taken(adds).op = lease.op /\ taken(adds).source = None
  BY DEF Blank
<1>4. \/ Step(p, "locate", fresh) /\ UNCHANGED lease
      \/ /\ lease # NoLease /\ ~lease.live
         /\ lease' = [lease EXCEPT !.by = p, !.live = TRUE]
         /\ \E adds \in BOOLEAN : Step(p, "decide", taken(adds))
  BY DEF Start
<1>5. ASSUME lease # NoLease, lease' = [lease EXCEPT !.by = p, !.live = TRUE]
      PROVE  lease' # NoLease /\ lease'.op = lease.op /\ lease'.by = p /\ lease'.live
  <2>1. lease \in [op: Operations, by: Processes, live: BOOLEAN]
    BY <1>5 DEF Typed, StoreTyped
  <2>2. lease'.op = lease.op /\ lease'.by = p /\ lease'.live
    BY <1>5, <2>1
  <2>3. NoLease.live = FALSE
    BY DEF NoLease
  <2>. QED BY <2>2, <2>3
<1>6. UNCHANGED <<journal, unresolved>>
  BY DEF Start
<1>. HIDE DEF fresh, taken
<1>. QED BY <1>1, <1>2, <1>3, <1>4, <1>5, <1>6

\* A process that dies writes nothing.
LEMMA CrashEffect ==
    ASSUME NEW p \in Processes, Typed, Crash(p)
    PROVE  /\ UNCHANGED <<journal, unresolved, lease>>
           /\ mem'[p].source = None /\ mem'[p].op = None
           /\ pc'[p] = "idle"
  BY StepIs DEF Typed, Crash, End, Blank, store

\* A lease ends by itself only when its process left its operation.
LEMMA EnvironmentLease ==
    ASSUME Environment, Typed
    PROVE  \/ UNCHANGED lease
           \/ /\ lease # NoLease /\ lease.live /\ mem[lease.by].op # lease.op
              /\ lease' = [op |-> lease.op, by |-> lease.by, live |-> FALSE]
<1>1. CASE Expire
  BY <1>1 DEF Expire, Typed, StoreTyped
<1>2. CASE Release \/ Reclaim \/ Edit \/ Repair \/ \E r \in New : RemoveOrigin(r)
  BY <1>2 DEF Release, Reclaim, Edit, Repair, RemoveOrigin, store, control, membership, files
<1>. QED BY <1>1, <1>2 DEF Environment

\* An operation that is recorded, planned or closed is written to by the process
\* that has its lease.
LEMMA Writer ==
    ASSUME NEW p \in Processes, Typed, Held, Writes(p) \/ Plans(p) \/ Closes(p)
    PROVE  /\ Op(p) \in Operations /\ Holds(p) /\ lease.op = Op(p)
           /\ journal[Op(p)].st = "running"
<1>1. pc[p] \notin {"idle", "locate", "admit", "fail"}
  BY DEF Writes, Plans, Closes
<1>2. Op(p) \in Operations /\ Op(p) # None
  BY <1>1, Subject, NoneIsNothing DEF Typed
<1>3. Holds(p)
  BY <1>1, <1>2 DEF Held, Finished, Op
<1>. QED BY <1>2, <1>3 DEF Held, Holds, Op

\* What the steps do to one entry of the journal.
LEMMA Entry ==
    ASSUME NEW p \in Processes, Typed, Held, NEW o \in Operations, Effect(p)
    PROVE  \/ journal'[o] = journal[o] /\ UNCHANGED journal
           \/ /\ Admits(p) /\ ~Used(NextOperation) /\ NextOperation \in Operations
              /\ o # NextOperation => journal'[o] = journal[o]
              /\ journal'[NextOperation] =
                    [journal[NextOperation] EXCEPT !.st = "running", !.of = mem[p].source]
           \/ /\ Writes(p) \/ Plans(p) \/ Closes(p)
              /\ o # Op(p) => journal'[o] = journal[o]
              /\ journal'[o].of = journal[o].of
              /\ journal'[o].st = IF Closes(p) /\ o = Op(p) THEN journal'[Op(p)].st
                                                            ELSE journal[o].st
<1>1. journal \in [Operations -> JournalType]
  BY DEF Typed, StoreTyped
<1>2. CASE Quiet(p)
  BY <1>2 DEF Quiet
<1>3. CASE Admits(p)
  <2>1. NextOperation \in Operations /\ ~Used(NextOperation)
    BY <1>3, NextOperationIs DEF Admits
  <2>2. journal' = [journal EXCEPT ![NextOperation] =
                        [@ EXCEPT !.st = "running", !.of = mem[p].source]]
    BY <1>1, <1>3, <2>1 DEF Admits, JournalType
  <2>. QED BY <1>1, <1>3, <2>1, <2>2
<1>4. CASE Writes(p)
  BY <1>1, <1>4, Writer DEF Writes, Record, Extends
<1>5. CASE Plans(p)
  <2>1. PICK plan \in PlanType :
            Record(p, [journal[Op(p)] EXCEPT !.planned = TRUE, !.plan = plan])
    BY <1>5 DEF Plans
  <2>. DEFINE e == [journal[Op(p)] EXCEPT !.planned = TRUE, !.plan = plan]
  <2>2. e.of = journal[Op(p)].of /\ e.st = journal[Op(p)].st
    BY <1>1, <1>5, Writer DEF JournalType
  <2>3. ~Closes(p)
    BY <1>5, Writer DEF Plans, Closes, Close, Holds
  <2>4. Record(p, e)
    BY <2>1
  <2>. HIDE DEF e
  <2>. QED BY <1>1, <1>5, <2>2, <2>3, <2>4, Writer DEF Record
<1>6. CASE Closes(p)
  <2>1. PICK st : Record(p, [journal[Op(p)] EXCEPT !.st = st])
    BY <1>6 DEF Closes, Close
  <2>. DEFINE e == [journal[Op(p)] EXCEPT !.st = st]
  <2>2. e.of = journal[Op(p)].of
    BY <1>1, <1>6, Writer DEF JournalType
  <2>3. Record(p, e)
    BY <2>1
  <2>. HIDE DEF e
  <2>. QED BY <1>1, <1>6, <2>2, <2>3, Writer DEF Record
<1>. QED BY <1>2, <1>3, <1>4, <1>5, <1>6 DEF Effect

\* The types of a lease.
LEMMA LeaseOperation ==
    ASSUME Typed, lease # NoLease
    PROVE  lease.op \in Operations /\ lease.by \in Processes /\ lease.live \in BOOLEAN
  BY DEF Typed, StoreTyped

\* Operations are ordered.
LEMMA OrderOfOperations == \A o, q \in Operations : o <= q \/ q < o
  BY AdditionAssumption DEF Operations

\* The numbering and the lease are kept by a step of a process that works.
LEMMA WorkNumbered ==
    ASSUME NEW p \in Processes, Typed, Numbered, Held, Work(p)
    PROVE  Numbered'
<1>1. Effect(p)
  BY WorkEffect, NextTyped
<1>2. /\ \A q \in Processes : q # p => pc'[q] = pc[q] /\ mem'[q] = mem[q]
      /\ mem'[p].op # None => mem'[p].op = mem[p].op \/ (Admits(p) /\ mem'[p].op = NextOperation)
  <2>1. Moves(p)
    BY NextTyped, WorkMoves DEF Typed
  <2>2. \A q \in Processes : q # p => pc'[q] = pc[q] /\ mem'[q] = mem[q]
    BY <2>1, Frame DEF Typed
  <2>3. CASE Quiet(p)
    BY <2>2, <2>3 DEF Quiet, GoesOn
  <2>4. CASE Admits(p)
    BY <2>2, <2>4 DEF Admits
  <2>5. CASE Writes(p)
    BY <2>2, <2>5 DEF Writes
  <2>6. CASE Plans(p)
    BY <2>2, <2>6 DEF Plans
  <2>7. CASE Closes(p)
    BY <2>2, <2>7 DEF Closes
  <2>. QED BY <1>1, <2>3, <2>4, <2>5, <2>6, <2>7 DEF Effect
<1>3. ASSUME NEW o \in Operations, Used(o) PROVE Used(o)'
  <2>1. journal'[Op(p)].st # "none" \/ ~Closes(p)
    <3>1. ASSUME Closes(p) PROVE journal'[Op(p)].st # "none"
      <4>1. PICK st \in {"succeeded", "failed", "rolled_back"} :
                Record(p, [journal[Op(p)] EXCEPT !.st = st])
        BY <3>1 DEF Closes, Close
      <4>. QED BY <3>1, <4>1, Writer DEF Record, Typed, StoreTyped, JournalType
    <3>. QED BY <3>1
  <2>2. \A q \in Operations : journal[q] \in JournalType
    BY JournalEntry DEF Typed
  <2>. QED BY <1>1, <1>3, <2>1, <2>2, Entry DEF Used, JournalType
<1>4. ASSUME NEW o \in Operations, ~Used(o)'
      PROVE  ~Used(o) /\ journal'[o] = journal[o] /\ ~(Admits(p) /\ o = NextOperation)
  <2>1. ~Used(o)
    BY <1>3, <1>4
  <2>2. Writes(p) \/ Plans(p) \/ Closes(p) => o # Op(p)
    BY <2>1, Writer DEF Used
  <2>3. ~(Admits(p) /\ o = NextOperation)
    <3>1. SUFFICES ASSUME Admits(p), o = NextOperation PROVE FALSE
      OBVIOUS
    <3>2. journal \in [Operations -> JournalType]
      BY DEF Typed, StoreTyped
    <3>3. journal'[o].st = "running"
      BY <3>1, <3>2 DEF Admits, JournalType
    <3>. QED BY <1>4, <3>3 DEF Used
  <2>. QED BY <1>1, <2>1, <2>2, <2>3, Entry
<1>5. (\A o \in Operations : ~Used(o) => journal[o] = NoJournal)'
  BY <1>4 DEF Numbered
<1>6. (\A o, q \in Operations : o < q /\ Used(q) => Used(o))'
  <2>1. SUFFICES ASSUME NEW o \in Operations, NEW q \in Operations, o < q, Used(q)', ~Used(o)'
                 PROVE  FALSE
    OBVIOUS
  <2>2. ~Used(o) /\ ~Used(q)
    BY <1>4, <2>1 DEF Numbered
  <2>3. Admits(p) /\ q = NextOperation
    BY <1>1, <2>1, <2>2, Entry, Writer DEF Used
  <2>4. NextOperation <= o
    BY <2>2, <2>3, NextOperationIs DEF Admits
  <2>. QED BY <2>1, <2>3, <2>4, OrderOfOperations DEF Operations
<1>7. ASSUME NEW o \in Operations, Used(o), Admits(p) PROVE o < NextOperation
  <2>1. NextOperation \in Operations /\ ~Used(NextOperation)
    BY <1>7, NextOperationIs DEF Admits
  <2>2. ~(NextOperation < o) /\ o # NextOperation
    BY <1>7, <2>1 DEF Numbered
  <2>. QED BY <2>1, <2>2, AdditionAssumption DEF Operations
<1>8. (\A o \in Operations : journal[o].of # None => journal[o].of < o)'
  <2>1. SUFFICES ASSUME NEW o \in Operations, journal'[o].of # None
                 PROVE  journal'[o].of < o
    OBVIOUS
  <2>2. CASE journal'[o].of = journal[o].of
    BY <2>1, <2>2 DEF Numbered
  <2>3. CASE Admits(p) /\ o = NextOperation
    <3>1. journal[NextOperation] \in JournalType
      BY <2>3, JournalEntry DEF Typed
    <3>2. journal'[o].of = mem[p].source
      <4>1. journal \in [Operations -> JournalType]
        BY DEF Typed, StoreTyped
      <4>. QED BY <2>3, <4>1 DEF Admits, JournalType
    <3>3. mem[p].source \in Operations /\ Used(mem[p].source)
      BY <2>1, <3>2, Subject DEF Typed, Numbered
    <3>. QED BY <1>7, <2>3, <3>2, <3>3
  <2>. QED BY <1>1, <2>2, <2>3, Entry
<1>9. (unresolved # None => Used(unresolved))'
  <2>1. unresolved' = unresolved \/ unresolved' = None \/ (unresolved' = Op(p) /\ Closes(p))
    <3>1. CASE Closes(p)
      BY <3>1 DEF Closes
    <3>2. CASE ~Closes(p)
      BY <1>1, <3>2 DEF Effect, Quiet, Admits, Writes, Plans
    <3>. QED BY <3>1, <3>2
  <2>2. unresolved \in {None} \cup Operations
    BY DEF Typed, StoreTyped
  <2>3. CASE unresolved' = unresolved
    BY <1>3, <2>2, <2>3 DEF Numbered
  <2>4. CASE unresolved' = Op(p) /\ Closes(p)
    <3>1. Op(p) \in Operations /\ Used(Op(p))
      BY <2>4, Writer DEF Used
    <3>. QED BY <1>3, <2>4, <3>1
  <2>. QED BY <2>1, <2>3, <2>4
<1>10. (\A q \in Processes : mem[q].source # None => Used(mem[q].source))'
  <2>1. SUFFICES ASSUME NEW q \in Processes, mem'[q].source # None
                 PROVE  Used(mem[q].source)'
    OBVIOUS
  <2>2. \A r \in Processes : mem[r].source \in {None} \cup Operations
    BY Subject DEF Typed
  <2>3. mem'[q].source = mem[q].source \/ mem'[q].source = unresolved
    BY <1>2, <2>1, WorkSource
  <2>4. unresolved \in {None} \cup Operations
    BY DEF Typed, StoreTyped
  <2>. QED BY <1>3, <2>1, <2>2, <2>3, <2>4 DEF Numbered
<1>11. (\A q \in Processes : mem[q].op # None => Used(mem[q].op))'
  <2>1. SUFFICES ASSUME NEW q \in Processes, mem'[q].op # None
                 PROVE  Used(mem[q].op)'
    OBVIOUS
  <2>2. \A r \in Processes : mem[r].op \in {None} \cup Operations
    BY DEF Typed, Control, MemoryType
  <2>3. CASE mem'[q].op = mem[q].op
    BY <1>3, <2>1, <2>2, <2>3 DEF Numbered
  <2>4. CASE Admits(p) /\ mem'[q].op = NextOperation
    <3>1. journal[NextOperation] \in JournalType /\ NextOperation \in Operations
      BY <2>4, NextOperationIs, JournalEntry DEF Typed, Admits
    <3>. QED BY <1>4, <2>4, <3>1
  <2>. QED BY <1>2, <2>1, <2>3, <2>4
<1>. QED BY <1>5, <1>6, <1>8, <1>9, <1>10, <1>11 DEF Numbered

\* So is the lease.
LEMMA WorkHeld ==
    ASSUME NEW p \in Processes, Typed, Numbered, Held, Work(p)
    PROVE  Held'
<1>. USE DEF Holds, Finished, Op
<1>1. Effect(p)
  BY WorkEffect, NextTyped
<1>2. \A q \in Processes : q # p => pc'[q] = pc[q] /\ mem'[q] = mem[q]
  BY WorkMoves, NextTyped, Frame DEF Typed
<1>3. journal \in [Operations -> JournalType]
  BY DEF Typed, StoreTyped
<1>4. \A q \in Processes : mem[q].op \in {None} \cup Operations
  BY DEF Typed, Control, MemoryType
<1>5. CASE Quiet(p)
  BY <1>2, <1>5 DEF Held, Quiet, GoesOn, Used
<1>6. CASE Admits(p)
  <2>. DEFINE o == NextOperation
  <2>1. o \in Operations /\ ~Used(o) /\ lease = NoLease
    BY <1>6, NextOperationIs DEF Admits
  <2>2. /\ lease'.op = o /\ lease'.by = p /\ lease'.live
        /\ lease' # NoLease
    <3>1. lease' = [op |-> o, by |-> p, live |-> TRUE] /\ NoLease.live = FALSE
      BY <1>6 DEF Admits, NoLease
    <3>2. lease'.live # NoLease.live
      BY <3>1
    <3>. QED BY <3>1, <3>2
  <2>3. journal'[o].st = "running"
    BY <1>3, <1>6, <2>1 DEF Admits, JournalType
  <2>4. \A q \in Operations : q # o => journal'[q] = journal[q]
    BY <1>3, <1>6 DEF Admits
  <2>5. ASSUME NEW q \in Processes, mem'[q].op # None PROVE (Holds(q) \/ Finished(q))'
    <3>1. CASE q = p
      BY <1>6, <2>2, <3>1 DEF Admits
    <3>2. CASE q # p
      <4>1. Finished(q) /\ mem[q].op \in Operations
        BY <1>2, <1>4, <2>1, <2>5, <3>2 DEF Held
      <4>2. mem[q].op # o
        BY <2>1, <4>1 DEF Used
      <4>. QED BY <1>2, <2>4, <3>2, <4>1, <4>2
    <3>. QED BY <3>1, <3>2
  <2>6. \A q \in Operations : journal'[q].st = "running" => q = o
    BY <2>1, <2>4 DEF Held
  <2>7. ASSUME NEW q \in Operations, Used(q)' PROVE q <= o
    <3>1. CASE q = o
      BY <3>1, <2>1, AdditionAssumption DEF Operations
    <3>2. CASE q # o
      <4>1. Used(q)
        BY <2>4, <2>7, <3>2 DEF Used
      <4>2. ~(o < q)
        BY <2>1, <4>1 DEF Numbered
      <4>. QED BY <2>1, <4>2, OrderOfOperations
    <3>. QED BY <3>1, <3>2
  <2>. QED BY <2>2, <2>3, <2>5, <2>6, <2>7 DEF Held
<1>7. CASE Writes(p) \/ Plans(p)
  <2>1. UNCHANGED lease /\ mem'[p].op = mem[p].op
    BY <1>7 DEF Writes, Plans
  <2>2. ~Closes(p)
    BY <1>7, Writer DEF Writes, Plans, Closes, Close
  <2>3. \A o \in Operations : journal'[o].st = journal[o].st
    <3>1. ~Admits(p)
      BY <1>7, Writer DEF Admits
    <3>. QED BY <1>1, <2>2, <3>1, Entry
  <2>4. ASSUME NEW q \in Processes, mem'[q].op # None PROVE (Holds(q) \/ Finished(q))'
    <3>1. CASE q = p
      BY <1>7, <2>1, <3>1, Writer
    <3>2. CASE q # p
      <4>1. Holds(q) \/ Finished(q)
        BY <1>2, <2>4, <3>2 DEF Held
      <4>. QED BY <1>2, <1>4, <2>1, <2>3, <2>4, <3>2, <4>1
    <3>. QED BY <3>1, <3>2
  <2>5. \A o \in Operations : Used(o)' <=> Used(o)
    BY <2>3 DEF Used
  <2>6. (lease # NoLease => journal[lease.op].st = "running")'
    BY <2>1, <2>3, LeaseOperation DEF Held
  <2>. QED BY <2>1, <2>3, <2>4, <2>5, <2>6 DEF Held
<1>8. CASE Closes(p)
  <2>1. Op(p) \in Operations /\ lease # NoLease /\ lease.op = Op(p) /\ lease.by = p
    BY <1>8, Writer
  <2>2. PICK st \in {"succeeded", "failed", "rolled_back"} :
            /\ Record(p, [journal[Op(p)] EXCEPT !.st = st])
            /\ lease' = NoLease
            /\ mem'[p].op = None \/ (mem'[p].op = mem[p].op /\ st = "succeeded"
                                     /\ pc'[p] = "fail")
    BY <1>8 DEF Closes, Close
  <2>3. journal'[Op(p)].st = st
    BY <1>3, <2>1, <2>2 DEF Record, JournalType
  <2>4. \A o \in Operations : o # Op(p) => journal'[o] = journal[o]
    BY <1>3, <2>2 DEF Record
  <2>5. \A o \in Operations : journal'[o].st # "running"
    BY <2>1, <2>3, <2>4 DEF Held
  <2>6. ASSUME NEW q \in Processes, mem'[q].op # None PROVE Finished(q)'
    <3>1. CASE q = p
      BY <2>2, <2>3, <2>6, <3>1
    <3>2. CASE q # p
      <4>1. Finished(q) /\ mem[q].op \in Operations
        BY <1>2, <1>4, <2>1, <2>6, <3>2 DEF Held
      <4>2. mem[q].op # Op(p)
        BY <1>8, <4>1, Writer
      <4>. QED BY <1>2, <2>4, <3>2, <4>1, <4>2
    <3>. QED BY <3>1, <3>2
  <2>. QED BY <2>2, <2>5, <2>6 DEF Held
<1>. QED BY <1>1, <1>5, <1>6, <1>7, <1>8 DEF Effect

\* The other steps keep both.
LEMMA OtherSteps ==
    ASSUME Typed, Numbered, Held,
           Environment \/ \E p \in Processes : Start(p) \/ Crash(p)
    PROVE  Numbered' /\ Held'
<1>. USE DEF Numbered, Held, Holds, Finished, Used, Op
<1>1. CASE Environment
  <2>1. UNCHANGED <<journal, unresolved, pc, mem>>
    BY <1>1, EnvironmentQuiet
  <2>2. CASE UNCHANGED lease
    BY <2>1, <2>2
  <2>3. CASE /\ lease # NoLease /\ lease.live /\ mem[lease.by].op # lease.op
             /\ lease' = [op |-> lease.op, by |-> lease.by, live |-> FALSE]
    <3>1. lease.op \in Operations /\ lease.by \in Processes
      BY <2>3, LeaseOperation
    <3>2. lease' # NoLease /\ lease'.op = lease.op
      <4>1. NoLease.op = None /\ lease'.op = lease.op
        BY <2>3 DEF NoLease
      <4>2. lease'.op # NoLease.op
        BY <3>1, <4>1, NoneIsNothing
      <4>. QED BY <4>1, <4>2
    <3>3. \A p \in Processes : ~Holds(p)
      BY <2>3
    <3>. QED BY <2>1, <2>3, <3>2, <3>3
  <2>. QED BY <1>1, <2>2, <2>3, EnvironmentLease
<1>2. ASSUME NEW p \in Processes, Start(p) PROVE Numbered' /\ Held'
  <2>1. \A q \in Processes : q # p => pc'[q] = pc[q] /\ mem'[q] = mem[q]
    BY <1>2, StartMoves, Frame DEF Typed
  <2>2. UNCHANGED <<journal, unresolved>> /\ mem'[p].source = None
    BY <1>2, StartEffect
  <2>3. CASE mem'[p].op = None /\ UNCHANGED lease
    BY <2>1, <2>2, <2>3
  <2>4. CASE /\ mem'[p].op = lease.op /\ lease # NoLease /\ ~lease.live
             /\ lease' # NoLease /\ lease'.op = lease.op /\ lease'.by = p /\ lease'.live
    BY <2>1, <2>2, <2>4
  <2>. QED BY <1>2, <2>3, <2>4, StartEffect
<1>3. ASSUME NEW p \in Processes, Crash(p) PROVE Numbered' /\ Held'
  <2>1. \A q \in Processes : q # p => pc'[q] = pc[q] /\ mem'[q] = mem[q]
    BY <1>3, CrashMoves, Frame DEF Typed
  <2>. QED BY <1>3, <2>1, CrashEffect
<1>. QED BY <1>1, <1>2, <1>3

-----------------------------------------------------------------------------
(* The evidence of an operation.  Evidence is a recursive function: that it   *)
(* has the values of its equation is an invariant, since each operation that *)
(* is admitted undoes an earlier one; that nothing else has follows from the *)
(* least operation on which two such functions differ.                       *)

Chained == \E f : f \in [Operations -> Operations] /\ Follows(f, journal)

\* Then Evidence is a function that has the values of its definition.
LEMMA ChainedEvidence ==
    ASSUME Chained, Typed, Numbered
    PROVE  /\ EvidenceType
           /\ \A o \in Operations :
                Evidence[o] = IF journal[o].of = None THEN o ELSE Evidence[journal[o].of]
<1>1. PICK f \in [Operations -> Operations] : Follows(f, journal)
  BY DEF Chained
<1>2. Follows(Evidence, journal)
  BY <1>1, EvidenceFollows
<1>3. \A o \in Operations :
        Evidence[o] = IF journal[o].of = None THEN o ELSE Evidence[journal[o].of]
  BY <1>2 DEF Follows
<1>4. \A o \in Operations : journal[o].of \in {None} \cup Operations
  BY JournalEntry DEF Typed, JournalType
<1>5. \A o \in Operations : Evidence[o] \in Operations
  <2>. DEFINE S == {o \in Operations : Evidence[o] \notin Operations}
  <2>1. SUFFICES ASSUME S # {} PROVE FALSE
    OBVIOUS
  <2>2. PICK o \in S : \A q \in S : o <= q
    BY <2>1, Least
  <2>3. journal[o].of # None /\ Evidence[o] = Evidence[journal[o].of]
    BY <1>3, <2>2
  <2>4. journal[o].of \in S /\ journal[o].of < o
    BY <1>4, <2>2, <2>3 DEF Numbered
  <2>5. o <= journal[o].of
    BY <2>2, <2>4
  <2>. QED BY <2>2, <2>4, <2>5, AdditionAssumption DEF Operations
<1>6. Evidence \in [Operations -> Operations]
  BY <1>2, <1>5 DEF Follows
<1>. QED BY <1>3, <1>6 DEF EvidenceType

\* Two functions that follow journals which agree on some operations, closed
\* under what they undo, agree on them.
LEMMA ChainsAgree ==
    ASSUME NEW f, NEW g, NEW J, NEW K, Follows(f, J), Follows(g, K),
           NEW S \in SUBSET Operations,
           \A o \in S : J[o].of = K[o].of,
           \A o \in S : J[o].of # None => J[o].of \in S /\ J[o].of < o
    PROVE  \A o \in S : f[o] = g[o]
<1>. DEFINE D == {o \in S : f[o] # g[o]}
<1>1. SUFFICES ASSUME D # {} PROVE FALSE
  OBVIOUS
<1>2. PICK o \in D : \A q \in D : o <= q
  BY <1>1, Least
<1>3. /\ f[o] = IF J[o].of = None THEN o ELSE f[J[o].of]
      /\ g[o] = IF K[o].of = None THEN o ELSE g[K[o].of]
  BY <1>2 DEF Follows
<1>4. J[o].of # None /\ J[o].of \in D /\ J[o].of < o
  BY <1>2, <1>3
<1>5. o <= J[o].of
  BY <1>2, <1>4
<1>6. o \in Operations /\ J[o].of \in Operations
  BY <1>2, <1>4
<1>. HIDE DEF D
<1>. QED BY <1>4, <1>5, <1>6, AdditionAssumption DEF Operations

\* A step leaves the evidence of every operation where it was, and that of a new
\* operation is its own or that of what it undoes.
LEMMA WorkChained ==
    ASSUME NEW p \in Processes, Typed, Numbered, Held, Chained, Work(p)
    PROVE  /\ Chained'
           /\ \A o \in Operations : Used(o) => Evidence'[o] = Evidence[o]
           /\ ~Admits(p) => \A o \in Operations : Evidence'[o] = Evidence[o]
           /\ Admits(p) => Evidence'[NextOperation] =
                IF mem[p].source = None THEN NextOperation ELSE Evidence[mem[p].source]
<1>1. Effect(p)
  BY WorkEffect, NextTyped
<1>2. PICK f \in [Operations -> Operations] : Follows(f, journal)
  BY DEF Chained
<1>3. Follows(Evidence, journal)
  BY <1>2, EvidenceFollows
<1>4. \A o \in Operations : journal[o].of \in {None} \cup Operations
  BY JournalEntry DEF Typed, JournalType
<1>5. CASE Admits(p)
  <2>. DEFINE o == NextOperation
              s == mem[p].source
              g == [f EXCEPT ![o] = IF s = None THEN o ELSE f[s]]
              S == Operations \ {o}
  <2>1. o \in Operations /\ ~Used(o) /\ journal[o] \in JournalType
    BY <1>5, NextOperationIs, JournalEntry DEF Admits, Typed
  <2>2. s \in {None} \cup Operations /\ s # o
    <3>1. s # None => Used(s)
      BY DEF Numbered
    <3>2. s \in {None} \cup Operations
      BY Subject DEF Typed
    <3>. QED BY <2>1, <3>1, <3>2, NoneIsNothing
  <2>3. \A q \in Operations : q # o => journal'[q] = journal[q]
    BY <1>5 DEF Admits, Typed, StoreTyped
  <2>4. journal'[o].of = s
    BY <1>5, <2>1 DEF Admits, Typed, StoreTyped, JournalType
  <2>5. \A q \in Operations : journal[q].of # o
    <3>1. SUFFICES ASSUME NEW q \in Operations, journal[q].of = o PROVE FALSE
      OBVIOUS
    <3>2. journal[q].of # None
      BY <2>1, <3>1, NoneIsNothing
    <3>3. o < q /\ Used(q)
      BY <3>1, <3>2 DEF Numbered, NoJournal
    <3>. QED BY <2>1, <3>3 DEF Numbered
  <2>6. g \in [Operations -> Operations]
    BY <1>2, <2>1, <2>2
  <2>7. Follows(g, journal')
    <3>1. ASSUME NEW q \in Operations
          PROVE  g[q] = IF journal'[q].of = None THEN q ELSE g[journal'[q].of]
      <4>1. CASE q = o
        BY <1>2, <2>1, <2>2, <2>4, <4>1
      <4>2. CASE q # o
        <5>1. g[q] = f[q] /\ journal'[q].of = journal[q].of
          BY <1>2, <2>3, <4>2
        <5>2. f[q] = IF journal[q].of = None THEN q ELSE f[journal[q].of]
          BY <1>2 DEF Follows
        <5>3. journal[q].of # None => g[journal[q].of] = f[journal[q].of]
          BY <1>2, <1>4, <2>5
        <5>. QED BY <5>1, <5>2, <5>3
      <4>. QED BY <4>1, <4>2
    <3>2. g = [q \in Operations |-> g[q]]
      BY <2>6
    <3>. HIDE DEF g
    <3>. QED BY <3>1, <3>2 DEF Follows
  <2>8. Chained'
    BY <2>6, <2>7 DEF Chained
  <2>9. Follows(Evidence', journal')
    BY <2>7, EvidenceFollowsPrime
  <2>10. \A q \in S : Evidence[q] = Evidence'[q]
    <3>1. S \in SUBSET Operations /\ \A q \in S : journal[q].of = journal'[q].of
      BY <2>3
    <3>2. \A q \in S : journal[q].of # None => journal[q].of \in S /\ journal[q].of < q
      BY <1>4, <2>5 DEF Numbered
    <3>. HIDE DEF S
    <3>. QED BY <1>3, <2>9, <3>1, <3>2, ChainsAgree
  <2>11. Evidence'[o] = IF s = None THEN o ELSE Evidence'[s]
    BY <2>1, <2>4, <2>9 DEF Follows
  <2>. QED BY <1>5, <2>1, <2>2, <2>8, <2>10, <2>11 DEF Used
<1>6. CASE ~Admits(p)
  <2>1. \A q \in Operations : journal'[q].of = journal[q].of
    BY <1>1, <1>6, Entry
  <2>2. Follows(f, journal')
    BY <1>2, <2>1 DEF Follows
  <2>3. Chained'
    BY <2>2 DEF Chained
  <2>4. Follows(Evidence', journal')
    BY <2>2, EvidenceFollowsPrime
  <2>5. \A q \in Operations : Evidence[q] = Evidence'[q]
    BY <1>3, <1>4, <2>1, <2>4, ChainsAgree DEF Numbered
  <2>. QED BY <1>6, <2>3, <2>5
<1>. QED BY <1>5, <1>6

\* Without a write to the journal, the evidence is where it was.
LEMMA StillChained ==
    ASSUME Chained, UNCHANGED journal
    PROVE  Chained' /\ UNCHANGED Evidence
  BY DEF Chained, Evidence

-----------------------------------------------------------------------------
(* Together. *)

Structured == Typed /\ Numbered /\ Held /\ Chained

\* The structure holds at first.
LEMMA InitStructured == ASSUME Init PROVE Structured
<1>1. Typed
  BY InitTyped
<1>2. /\ \A o \in Operations : journal[o] = NoJournal
      /\ \A p \in Processes : mem[p] = Blank
      /\ lease = NoLease /\ unresolved = None
  BY DEF Init
<1>3. /\ NoJournal.st = "none" /\ NoJournal.of = None
      /\ Blank.op = None /\ Blank.source = None
  BY DEF NoJournal, Blank
<1>4. Numbered
  BY <1>2, <1>3 DEF Numbered, Used
<1>5. Held
  BY <1>2, <1>3 DEF Held, Used
<1>6. Chained
  <2>. DEFINE f == [o \in Operations |-> o]
  <2>1. f = [o \in Operations |-> IF journal[o].of = None THEN o ELSE f[journal[o].of]]
    BY <1>2, <1>3
  <2>2. f \in [Operations -> Operations]
    OBVIOUS
  <2>. HIDE DEF f
  <2>. QED BY <2>1, <2>2 DEF Chained, Follows
<1>. QED BY <1>1, <1>4, <1>5, <1>6 DEF Structured

\* Every step keeps it.
LEMMA StepStructured == ASSUME Structured, [Next]_vars PROVE Structured'
<1>1. CASE UNCHANGED vars
  BY <1>1 DEF Structured, Typed, Control, StoreTyped, Numbered, Held, Holds, Finished, Used, Op,
     Chained, Follows, vars
<1>2. CASE Next
  <2>1. Typed'
    BY <1>2, StepTyped, ChainedEvidence, NextTyped DEF Structured
  <2>2. CASE Environment \/ \E p \in Processes : Start(p) \/ Crash(p)
    <3>1. UNCHANGED journal
      BY <2>2, EnvironmentQuiet, StartEffect, CrashEffect DEF Structured
    <3>. QED BY <2>1, <2>2, <3>1, OtherSteps, StillChained DEF Structured
  <2>3. ASSUME NEW p \in Processes, Work(p) PROVE Structured'
    BY <2>1, <2>3, WorkNumbered, WorkHeld, WorkChained DEF Structured
  <2>. QED BY <1>2, <2>2, <2>3 DEF Next
<1>. QED BY <1>1, <1>2

\* The inductive invariant.
THEOREM AdditionStructure == Spec => []Structured
  BY InitStructured, StepStructured, PTL DEF Spec

\* Every state of the additions is well typed: a process at work on a worktree or
\* a move remembers which (workflow.rs: apply, compensate).
THEOREM AdditionTypes == Spec => []TypeOK
<1>1. Structured => TypeOK
  BY TypedTypeOK DEF Structured
<1>. QED BY <1>1, AdditionStructure, PTL
===============================================================================
