----------------------------- MODULE ProgramsProofs ----------------------------
(*****************************************************************************)
(* The safety properties of what trees measures and reports: the cache of    *)
(* sizes and the scan that fills it, the report of `trees status`, and the   *)
(* labels of repositories.  Then the composition: a behaviour of Programs is a *)
(* behaviour of each of its parts, and has the properties of all of them.    *)
(*****************************************************************************)
EXTENDS Programs, ProcessProofs, SequenceTheorems, WellFoundedInduction

(*****************************************************************************)
(* The cache of sizes.  What a refresh selected, observed and saved is tied to *)
(* the path of the entity, which the triggers and the conditional save compare. *)
(*****************************************************************************)

\* A refresh that measures has an entity left, and nothing was observed before;
\* what is observed of a path was measured there, and is recent enough.
RefreshOK(p) ==
    /\ rpc[p] \in {"idle", "select"} => DOMAIN observed[p] = {}
    /\ rpc[p] = "measure" => selected[p] # <<>>
    /\ started[p] <= clock
    /\ \A place \in DOMAIN observed[p] :
          /\ observed[p][place].path = place
          /\ started[p] < observed[p][place].at + Debounce
    /\ complete[p] => ~missed[p]

SizesInv ==
    SizesTypeOK /\ SizesFollowPaths /\ \A p \in Refreshers : RefreshOK(p)

\* No size is stored and no refresh runs to begin with.
LEMMA SizesInitInv == SizesInit => SizesInv
<1>. SUFFICES ASSUME SizesInit PROVE SizesInv
  OBVIOUS
<1>1. <<>> \in Seq(CandidateRow) /\ <<>> \in [{} -> Observation]
  OBVIOUS
<1>2. SizesTypeOK
  <2>1. path \in [Entities -> Places] /\ size \in [Entities -> Observation \cup {Unknown}]
    BY DEF SizesInit, Places
  <2>2. selected \in [Refreshers -> Seq(CandidateRow)]
    BY <1>1 DEF SizesInit, CandidateRow
  <2>3. observed \in [Refreshers -> UNION {[s -> Observation] : s \in SUBSET Places}]
    <3>1. <<>> \in [{} -> Observation] /\ {} \in SUBSET Places
      OBVIOUS
    <3>2. <<>> \in UNION {[s -> Observation] : s \in SUBSET Places}
      BY <3>1
    <3>. QED BY <3>2 DEF SizesInit
  <2>4. 0 \in 0..MaxTime /\ MaxMoves \in 0..MaxMoves
    BY SizesAssumption
  <2>. QED BY <2>1, <2>2, <2>3, <2>4 DEF SizesInit, SizesTypeOK
<1>. QED BY <1>2, SizesAssumption DEF SizesInit, SizesInv, SizesFollowPaths, RefreshOK

\* The entities that may be measured, each with the path that it has now.
LEMMA CandidatesOK ==
    ASSUME SizesTypeOK
    PROVE  /\ Candidates \in Seq(CandidateRow) /\ Candidates # <<>>
           /\ \A i \in DOMAIN Candidates : Candidates[i].path = path[Candidates[i].entity]
<1>1. /\ Candidate("workspace") \in CandidateRow /\ Candidate("worktree") \in CandidateRow
      /\ Candidate("workspace").path = path[Candidate("workspace").entity]
      /\ Candidate("worktree").path = path[Candidate("worktree").entity]
  BY DEF Candidate, SizesTypeOK, CandidateRow, Entities
<1>2. CASE "worktree" \in gone
  BY <1>1, <1>2 DEF Candidates
<1>3. CASE "worktree" \notin gone
  BY <1>1, <1>3 DEF Candidates
<1>. QED BY <1>2, <1>3

\* What is used again was stored for that path, and is recent.
LEMMA ReusableOK ==
    ASSUME SizesTypeOK, SizesFollowPaths, NEW now \in 0..MaxTime, NEW place \in Places,
           NEW o \in Reusable(Candidates, now, place)
    PROVE  o \in Observation /\ o.path = place /\ now < o.at + Debounce
<1>1. PICK i \in DOMAIN Candidates :
        /\ Candidates[i].path = place /\ o = size[Candidates[i].entity]
        /\ Recent(size[Candidates[i].entity], now)
  BY DEF Reusable
<1>2. Candidates[i].entity \in Entities /\ Candidates[i].path = path[Candidates[i].entity]
  <2>1. Candidates[i] \in CandidateRow
    BY CandidatesOK
  <2>. QED BY <2>1, CandidatesOK DEF CandidateRow
<1>. QED BY <1>1, <1>2 DEF Recent, SizesFollowPaths, SizesTypeOK

\* What is selected has the path of its entity, and what is used again is of that
\* path. A step of one refresh leaves the others as they are.
LEMMA SelectInv ==
    ASSUME SizesInv, NEW p \in Refreshers, Select(p)
    PROVE  SizesInv'
<1>. DEFINE Of(place) == Reusable(Candidates, started[p], place)
            reused == {place \in Places : Of(place) # {}}
<1>. USE DEF SizesInv
<1>1. PICK f \in [reused -> UNION {Of(place) : place \in reused}] :
        /\ \A place \in reused : f[place] \in Of(place)
        /\ observed' = [observed EXCEPT ![p] = f]
  BY DEF Select
<1>2. \A place \in reused : f[place] \in Observation /\ f[place].path = place
                              /\ started[p] < f[place].at + Debounce
  BY <1>1, ReusableOK DEF SizesTypeOK
<1>3. f \in [reused -> Observation] /\ reused \subseteq Places /\ DOMAIN f = reused
  BY <1>1, <1>2
<1>4. Candidates \in Seq(CandidateRow) /\ Candidates # <<>>
  BY CandidatesOK
<1>5. /\ rpc' = [rpc EXCEPT ![p] = "measure"] /\ selected' = [selected EXCEPT ![p] = Candidates]
      /\ UNCHANGED <<path, gone, size, clock, moves, started, complete, missed>>
  BY DEF Select, GoesTo
<1>. HIDE DEF reused, Of
<1>6. observed' \in [Refreshers -> UNION {[s -> Observation] : s \in SUBSET Places}]
  BY <1>1, <1>3 DEF SizesTypeOK
<1>7. SizesTypeOK'
  BY <1>4, <1>5, <1>6 DEF SizesTypeOK, CandidateRow
<1>8. ASSUME NEW q \in Refreshers PROVE RefreshOK(q)'
  <2>1. CASE q = p
    BY <1>1, <1>2, <1>3, <1>4, <1>5, <2>1 DEF SizesTypeOK, RefreshOK
  <2>2. CASE q # p
    BY <1>1, <1>5, <2>2 DEF SizesTypeOK, RefreshOK
  <2>. QED BY <2>1, <2>2
<1>. QED BY <1>5, <1>7, <1>8 DEF SizesFollowPaths

\* A measurement is of the path that was selected.
LEMMA SizesScanInv ==
    ASSUME SizesInv, NEW p \in Refreshers, Scan(p)
    PROVE  SizesInv'
<1>. USE DEF SizesInv
<1>. DEFINE place == Head(selected[p]).path
<1>1. place \in Places
  <2>1. selected[p] \in Seq(CandidateRow) /\ selected[p] # <<>>
    BY DEF Scan, SizesTypeOK, RefreshOK
  <2>2. Head(selected[p]) \in CandidateRow
    BY <2>1
  <2>. QED BY <2>2 DEF CandidateRow
<1>2. PICK status \in Completeness :
        observed' = [observed EXCEPT ![p] =
            [q \in {place} \cup DOMAIN observed[p] |->
                IF q = place THEN [path |-> place, at |-> clock, status |-> status]
                ELSE observed[p][q]]]
  BY DEF Scan
<1>. DEFINE o == [path |-> place, at |-> clock, status |-> status]
            f == [q \in {place} \cup DOMAIN observed[p] |->
                     IF q = place THEN o ELSE observed[p][q]]
<1>3. o \in Observation /\ started[p] < o.at + Debounce /\ o.path = place
  BY <1>1, SizesAssumption DEF Observation, SizesTypeOK, RefreshOK
<1>4. observed[p] \in [DOMAIN observed[p] -> Observation] /\ DOMAIN observed[p] \subseteq Places
  BY DEF SizesTypeOK
<1>5. /\ DOMAIN f = {place} \cup DOMAIN observed[p]
      /\ \A s \in DOMAIN f : f[s] = IF s = place THEN o ELSE observed[p][s]
      /\ f \in [{place} \cup DOMAIN observed[p] -> Observation]
  BY <1>3, <1>4
<1>6. /\ observed' = [observed EXCEPT ![p] = f] /\ rpc[p] = "measure"
      /\ UNCHANGED <<path, gone, size, clock, moves, rpc, started, selected, complete, missed>>
  BY <1>2 DEF Scan
<1>. HIDE DEF place, o, f
<1>7. observed' \in [Refreshers -> UNION {[s -> Observation] : s \in SUBSET Places}]
  <2>1. {place} \cup DOMAIN observed[p] \in SUBSET Places
    BY <1>1, <1>4
  <2>2. f \in UNION {[s -> Observation] : s \in SUBSET Places}
    BY <1>5, <2>1
  <2>. QED BY <1>6, <2>2 DEF SizesTypeOK
<1>8. SizesTypeOK'
  BY <1>6, <1>7 DEF SizesTypeOK
<1>9. ASSUME NEW q \in Refreshers PROVE RefreshOK(q)'
  <2>1. CASE q = p
    BY <1>3, <1>5, <1>6, <2>1 DEF SizesTypeOK, RefreshOK
  <2>2. CASE q # p
    BY <1>6, <2>2 DEF SizesTypeOK, RefreshOK
  <2>. QED BY <2>1, <2>2
<1>. QED BY <1>6, <1>8, <1>9 DEF SizesFollowPaths

\* A measurement is saved only for an entity that still has the path
\* (save_if_path_unchanged).
LEMMA SaveInv ==
    ASSUME SizesInv, NEW p \in Refreshers, Save(p)
    PROVE  SizesInv'
<1>. USE DEF SizesInv
<1>. DEFINE candidate == Head(selected[p])
            saved == Unchanged(candidate)
            o == observed[p][candidate.path]
<1>1. rpc[p] = "measure" /\ selected[p] \in Seq(CandidateRow) /\ selected[p] # <<>>
  BY DEF Save, SizesTypeOK, RefreshOK
<1>2. candidate.entity \in Entities /\ candidate.path \in Places
  <2>1. candidate \in CandidateRow
    BY <1>1
  <2>. QED BY <2>1 DEF CandidateRow
<1>3. observed[p] \in [DOMAIN observed[p] -> Observation]
  BY DEF SizesTypeOK
<1>4. o \in Observation /\ o.path = candidate.path /\ started[p] < o.at + Debounce
  BY <1>3 DEF Save, RefreshOK
<1>5. started[p] \in Nat /\ o.at \in Nat /\ Debounce \in Nat
  BY <1>4, SizesAssumption DEF SizesTypeOK, Observation
<1>6. Tail(selected[p]) \in Seq(CandidateRow) /\ (Len(selected[p]) # 1 => Tail(selected[p]) # <<>>)
  <2>1. Len(selected[p]) \in Nat \ {0}
    BY <1>1
  <2>2. Tail(selected[p]) \in Seq(CandidateRow) /\ Len(Tail(selected[p])) = Len(selected[p]) - 1
    BY <1>1
  <2>3. Len(selected[p]) # 1 => Len(Tail(selected[p])) # 0
    BY <2>1, <2>2
  <2>4. Len(<<>>) = 0
    OBVIOUS
  <2>. QED BY <2>2, <2>3, <2>4
<1>7. /\ size' = IF saved THEN [size EXCEPT ![candidate.entity] = o] ELSE size
      /\ missed' = [missed EXCEPT ![p] =
            @ \/ size'[candidate.entity] # o \/ o.status # "complete"
              \/ o.at + Debounce <= started[p]]
      /\ complete' = [complete EXCEPT ![p] = @ /\ saved /\ o.status = "complete"]
      /\ selected' = [selected EXCEPT ![p] = Tail(@)]
      /\ rpc' = [rpc EXCEPT ![p] = IF Len(selected[p]) = 1 THEN "done" ELSE "measure"]
      /\ UNCHANGED <<path, gone, clock, moves, started, observed>>
  BY DEF Save, Counts
<1>8. saved => path[candidate.entity] = candidate.path
  BY DEF Unchanged
<1>. HIDE DEF candidate, saved, o
<1>9. SizesTypeOK'
  <2>1. size' \in [Entities -> Observation \cup {Unknown}]
    BY <1>2, <1>4, <1>7 DEF SizesTypeOK
  <2>2. missed' \in [Refreshers -> BOOLEAN] /\ complete' \in [Refreshers -> BOOLEAN]
    BY <1>7 DEF SizesTypeOK
  <2>3. selected' \in [Refreshers -> Seq(CandidateRow)]
    BY <1>6, <1>7 DEF SizesTypeOK
  <2>4. rpc' \in [Refreshers -> {"idle", "select", "measure", "done"}]
    BY <1>7 DEF SizesTypeOK
  <2>. QED BY <1>7, <2>1, <2>2, <2>3, <2>4 DEF SizesTypeOK
<1>10. SizesFollowPaths'
  BY <1>2, <1>4, <1>7, <1>8 DEF SizesFollowPaths, SizesTypeOK
<1>11. ASSUME NEW q \in Refreshers PROVE RefreshOK(q)'
  <2>1. CASE q # p
    BY <1>7, <2>1 DEF SizesTypeOK, RefreshOK
  <2>2. CASE q = p
    <3>1. complete'[p] => ~missed'[p]
      <4>1. SUFFICES ASSUME complete'[p] PROVE ~missed'[p]
        OBVIOUS
      <4>2. complete[p] /\ saved /\ o.status = "complete"
        BY <1>7, <4>1 DEF SizesTypeOK
      <4>3. size'[candidate.entity] = o
        BY <1>2, <1>7, <4>2 DEF SizesTypeOK
      <4>4. ~(o.at + Debounce <= started[p])
        BY <1>4, <1>5
      <4>. QED BY <1>7, <4>2, <4>3, <4>4 DEF SizesTypeOK, RefreshOK
    <3>2. rpc'[p] = "measure" => selected'[p] # <<>>
      BY <1>6, <1>7 DEF SizesTypeOK
    <3>3. rpc'[p] \in {"measure", "done"}
      BY <1>7 DEF SizesTypeOK
    <3>. QED BY <1>7, <2>2, <3>1, <3>2, <3>3 DEF RefreshOK
  <2>. QED BY <2>1, <2>2
<1>. QED BY <1>9, <1>10, <1>11

\* A refresh begins with nothing measured.
LEMMA BeginInv ==
    ASSUME SizesInv, NEW p \in Refreshers, Begin(p)
    PROVE  SizesInv'
<1>1. SizesTypeOK' /\ SizesFollowPaths'
  BY DEF Begin, GoesTo, SizesInv, SizesTypeOK, SizesFollowPaths
<1>2. \A q \in Refreshers : RefreshOK(q)'
  BY DEF Begin, GoesTo, SizesInv, SizesTypeOK, RefreshOK
<1>. QED BY <1>1, <1>2 DEF SizesInv

\* What the rest of trees does, and time.
LEMMA WorldInv ==
    ASSUME SizesInv,
           \/ Move("worktree", "root", "inside") \/ Move("worktree", "inside", "root")
           \/ Remove("worktree") \/ Remove("workspace") \/ Tick
    PROVE  SizesInv'
<1>1. UNCHANGED refreshing /\ clock' \in 0..MaxTime /\ clock <= clock'
  BY SizesAssumption DEF Move, Remove, Tick, SizesInv, SizesTypeOK
<1>2. \A q \in Refreshers : RefreshOK(q)'
  BY <1>1 DEF refreshing, RefreshOK, SizesInv, SizesTypeOK
<1>3. /\ path' \in [Entities -> Places] /\ moves' \in 0..MaxMoves
      /\ gone' \subseteq {"workspace", "worktree"}
      /\ size' \in [Entities -> Observation \cup {Unknown}]
  <2>1. Unknown \in Observation \cup {Unknown} /\ Entities = {"workspace", "worktree"}
    BY DEF Entities
  <2>2. size' \in [Entities -> Observation \cup {Unknown}]
    BY <2>1 DEF Move, Remove, Tick, Forgotten, SizesInv, SizesTypeOK
  <2>3. moves' \in 0..MaxMoves
    BY SizesAssumption DEF Move, Remove, Tick, SizesInv, SizesTypeOK
  <2>4. path' \in [Entities -> Places] /\ gone' \subseteq {"workspace", "worktree"}
    BY DEF Move, Remove, Tick, SizesInv, SizesTypeOK, Places
  <2>. QED BY <2>2, <2>3, <2>4
<1>4. SizesFollowPaths'
  BY DEF Move, Remove, Tick, Forgotten, SizesInv, SizesTypeOK, SizesFollowPaths, Entities
<1>. QED BY <1>1, <1>2, <1>3, <1>4 DEF SizesInv, SizesTypeOK, refreshing

\* Every step, and none, keeps the invariant of the sizes.
LEMMA SizesInvStep == SizesInv /\ [SizesNext]_sizeVars => SizesInv'
<1>1. SizesInv /\ UNCHANGED sizeVars => SizesInv'
  BY DEF SizesInv, SizesTypeOK, SizesFollowPaths, RefreshOK, sizeVars
<1>. QED
  BY <1>1, BeginInv, SelectInv, SizesScanInv, SaveInv, WorldInv DEF SizesNext, Refresh

\* The invariant of the sizes holds in every state.
THEOREM SizesInvariant == SizesSpec => []SizesInv
  BY SizesInitInv, SizesInvStep, PTL DEF SizesSpec

\* What is stored of an entity was measured at the path that it has, although it
\* may have moved while it was measured, and back (save_if_path_unchanged and the
\* triggers that delete a size).
THEOREM SizesFollow == SizesSpec => []SizesFollowPaths
<1>1. SizesInv => SizesFollowPaths
  BY DEF SizesInv
<1>. QED BY <1>1, SizesInvariant, PTL

\* A refresh that reports Complete saved a complete and recent measurement of every
\* entity that it selected (refresh_with_observer_at).
THEOREM SizesAreComplete == SizesSpec => []CompleteRefreshSavedAll
<1>1. SizesInv => CompleteRefreshSavedAll
  BY DEF SizesInv, RefreshOK, CompleteRefreshSavedAll
<1>. QED BY <1>1, SizesInvariant, PTL

(*****************************************************************************)
(* The scan: what has not been counted is still to be read, or is an issue.  *)
(*****************************************************************************)

Frame(d, set) == [dir |-> d, left |-> set]

\* The stack holds the root, or a directory of the root above the root.
RootOpen == \E set \in SUBSET Names : frames = <<Frame(Root, set)>>
ChildOpen ==
    \E d \in Subdirectories, set, more \in SUBSET Names :
        frames = <<Frame(d, set), Frame(Root, more)>>
Stacked == frames = <<>> \/ RootOpen \/ ChildOpen

\* A name that a directory still has to list, and a directory that was looked up
\* and is to be opened.
LeftIn(stack, d, n) == \E k \in DOMAIN stack : stack[k].dir = d /\ n \in stack[k].left
Left(d, n) == LeftIn(frames, d, n)
IsOpening(d) == \E n \in Names : <<n, d>> \in opening

TreeOK ==
    /\ names \in [Directories -> [Names -> Inodes \cup {NoEntry}]]
    /\ \A n \in Names : names[Root][n] # Root
    /\ \A d \in Subdirectories, n \in Names : names[d][n] \notin Directories
    /\ \A d \in Directories, n \in Names : <<d, n>> \in kept => <<d, n>> \notin unsure

StackOK ==
    /\ Stacked
    /\ opening = {} \/ \E n \in Names, d \in Subdirectories : opening = {<<n, d>>}
    /\ opening # {} => RootOpen
    /\ issues \in BOOLEAN
    /\ seen \subseteq counted
    /\ result = "none" => counted = {} /\ frames = <<>> /\ opening = {}

\* Nothing is missed that no issue tells of: of a directory that was counted every
\* name that has stayed was counted, or will be read.
Covered(d, n) ==
    names[d][n] \in counted \cup {NoEntry} \/ Left(d, n) \/ IsOpening(d)
CoverOK ==
    result \in {"scanning", "complete"} /\ ~issues =>
        /\ Root \in counted
        /\ \A d \in counted \cap Directories, n \in Names : <<d, n>> \in kept => Covered(d, n)

EndOK == result = "complete" => frames = <<>> /\ opening = {} /\ ~issues

ScanInv == TreeOK /\ StackOK /\ CoverOK /\ EndOK

\* What the operators on sequences make of a stack of one frame.
LEMMA OneFrame ==
    ASSUME NEW f
    PROVE  /\ <<f>> # <<>> /\ DOMAIN <<f>> = {1} /\ <<f>>[1] = f /\ Head(<<f>>) = f
           /\ Tail(<<f>>) = <<>> /\ <<f>> \o <<>> = <<f>>
OBVIOUS

\* What the operators on sequences make of a stack of two frames.
LEMMA TwoFrames ==
    ASSUME NEW f, NEW g
    PROVE  /\ <<f, g>> # <<>> /\ Len(<<f, g>>) = 2 /\ DOMAIN <<f, g>> = {1, 2}
           /\ <<f, g>>[1] = f /\ <<f, g>>[2] = g
           /\ Head(<<f, g>>) = f /\ Tail(<<f, g>>) = <<g>>
OBVIOUS

\* A sequence of two elements is made of them.
LEMMA Pair ==
    ASSUME NEW S, NEW s \in Seq(S), Len(s) = 2
    PROVE  s = <<s[1], s[2]>>
<1>1. s[1] \in S /\ s[2] \in S
  <2>1. 1 \in 1..Len(s) /\ 2 \in 1..Len(s)
    OBVIOUS
  <2>. QED BY <2>1, ElementOfSeq
<1>2. <<s[1], s[2]>> \in Seq(S) /\ Len(<<s[1], s[2]>>) = 2
  BY <1>1
<1>3. <<s[1], s[2]>>[1] = s[1] /\ <<s[1], s[2]>>[2] = s[2]
  BY TwoFrames
<1>4. \A k \in 1..Len(s) : k = 1 \/ k = 2
  OBVIOUS
<1>5. \A k \in 1..Len(s) : s[k] = <<s[1], s[2]>>[k]
  BY <1>3, <1>4
<1>. QED BY <1>2, <1>5, SeqEqual

\* A frame is pushed on a stack of one.
LEMMA Pushed == ASSUME NEW f, NEW g PROVE <<f>> \o <<g>> = <<f, g>>
<1>. DEFINE s == <<f>> \o <<g>>
<1>1. s \in Seq({f, g}) /\ Len(s) = 2
  OBVIOUS
<1>2. s[1] = f /\ s[2] = g
  OBVIOUS
<1>. HIDE DEF s
<1>3. s = <<f, g>>
  BY <1>1, <1>2, Pair
<1>. QED BY <1>3 DEF s

\* The fields of a frame.
LEMMA FrameIs ==
    ASSUME NEW d, NEW set
    PROVE  /\ Frame(d, set).dir = d /\ Frame(d, set).left = set
           /\ \A i : [Frame(d, set) EXCEPT !.left = @ \ {i}] = Frame(d, set \ {i})
BY DEF Frame

\* What is left to read, by the shape of the stack.
LEMMA LeftIs ==
    /\ \A e, n : ~LeftIn(<<>>, e, n)
    /\ \A d, set, e, n : LeftIn(<<Frame(d, set)>>, e, n) <=> e = d /\ n \in set
    /\ \A d, set, c, more, e, n :
          LeftIn(<<Frame(d, set), Frame(c, more)>>, e, n) <=>
             (e = d /\ n \in set) \/ (e = c /\ n \in more)
<1>1. ASSUME NEW d, NEW set, NEW e, NEW n
      PROVE  LeftIn(<<Frame(d, set)>>, e, n) <=> e = d /\ n \in set
  BY OneFrame, FrameIs DEF LeftIn
<1>2. ASSUME NEW d, NEW set, NEW c, NEW more, NEW e, NEW n
      PROVE  LeftIn(<<Frame(d, set), Frame(c, more)>>, e, n) <=>
                (e = d /\ n \in set) \/ (e = c /\ n \in more)
  <2>. DEFINE s == <<Frame(d, set), Frame(c, more)>>
  <2>1. /\ DOMAIN s = {1, 2}
        /\ s[1].dir = d /\ s[1].left = set /\ s[2].dir = c /\ s[2].left = more
    BY TwoFrames, FrameIs
  <2>. HIDE DEF s
  <2>2. LeftIn(s, e, n) <=> \E k \in {1, 2} : s[k].dir = e /\ n \in s[k].left
    BY <2>1 DEF LeftIn
  <2>3. LeftIn(s, e, n) <=> (e = d /\ n \in set) \/ (e = c /\ n \in more)
    BY <2>1, <2>2
  <2>. QED BY <2>3 DEF s
<1>3. \A e, n : ~LeftIn(<<>>, e, n)
  <2>1. DOMAIN <<>> = {}
    OBVIOUS
  <2>. QED BY <2>1 DEF LeftIn
<1>. QED BY <1>1, <1>2, <1>3

\* The top of a stack, and what is below it.
LEMMA TopIs ==
    /\ \A set : frames = <<Frame(Root, set)>> =>
          Top = Frame(Root, set) /\ Tail(frames) = <<>> /\ frames # <<>>
    /\ \A d, set, more : frames = <<Frame(d, set), Frame(Root, more)>> =>
          Top = Frame(d, set) /\ Tail(frames) = <<Frame(Root, more)>> /\ frames # <<>>
<1>1. ASSUME NEW set, frames = <<Frame(Root, set)>>
      PROVE  Top = Frame(Root, set) /\ Tail(frames) = <<>> /\ frames # <<>>
  BY <1>1, OneFrame DEF Top
<1>2. ASSUME NEW d, NEW set, NEW more, frames = <<Frame(d, set), Frame(Root, more)>>
      PROVE  Top = Frame(d, set) /\ Tail(frames) = <<Frame(Root, more)>> /\ frames # <<>>
  BY <1>2, TwoFrames DEF Top
<1>. QED BY <1>1, <1>2

\* The name that the top of the stack lists is no longer left there.
LEMMA ListsNext ==
    ASSUME Stacked, frames # <<>>, NEW n, Lists(n)
    PROVE  /\ Stacked' /\ Top.dir \in Directories
           /\ Top.dir \in Subdirectories \/ (Top.dir = Root /\ RootOpen')
           /\ n \in Top.left => Left(Top.dir, n)
           /\ \A d, m : Left(d, m)' <=> Left(d, m) /\ ~(d = Top.dir /\ m = n)
<1>. USE DiskUsageAssumption DEF Left
<1>1. frames' = <<[Top EXCEPT !.left = @ \ {n}]>> \o Tail(frames)
  BY DEF Lists
<1>2. ASSUME NEW set \in SUBSET Names, frames = <<Frame(Root, set)>>
      PROVE  /\ Stacked' /\ Top.dir = Root /\ RootOpen'
             /\ n \in Top.left => Left(Top.dir, n)
             /\ \A d, m : Left(d, m)' <=> Left(d, m) /\ ~(d = Top.dir /\ m = n)
  <2>1. Top = Frame(Root, set) /\ Tail(frames) = <<>> /\ Top.dir = Root
    BY <1>2, TopIs, FrameIs
  <2>2. [Top EXCEPT !.left = @ \ {n}] = Frame(Root, set \ {n})
    <3>1. [Frame(Root, set) EXCEPT !.left = @ \ {n}] = Frame(Root, set \ {n})
      BY FrameIs DEF Frame
    <3>. QED BY <2>1, <3>1
  <2>3. frames' = <<Frame(Root, set \ {n})>> /\ set \ {n} \in SUBSET Names
    BY <1>1, <2>1, <2>2, OneFrame
  <2>4. \A d, m : /\ LeftIn(frames', d, m) <=> d = Root /\ m \in set \ {n}
                  /\ LeftIn(frames, d, m) <=> d = Root /\ m \in set
    BY <1>2, <2>3, LeftIs
  <2>. QED BY <2>1, <2>3, <2>4, FrameIs DEF Stacked, RootOpen
<1>3. ASSUME NEW e \in Subdirectories, NEW set \in SUBSET Names, NEW more \in SUBSET Names,
             frames = <<Frame(e, set), Frame(Root, more)>>
      PROVE  /\ Stacked' /\ Top.dir = e
             /\ n \in Top.left => Left(Top.dir, n)
             /\ \A d, m : Left(d, m)' <=> Left(d, m) /\ ~(d = Top.dir /\ m = n)
  <2>1. Top = Frame(e, set) /\ Tail(frames) = <<Frame(Root, more)>> /\ Top.dir = e
    BY <1>3, TopIs, FrameIs
  <2>2. [Top EXCEPT !.left = @ \ {n}] = Frame(e, set \ {n})
    <3>1. [Frame(e, set) EXCEPT !.left = @ \ {n}] = Frame(e, set \ {n})
      BY FrameIs DEF Frame
    <3>. QED BY <2>1, <3>1
  <2>3. frames' = <<Frame(e, set \ {n}), Frame(Root, more)>> /\ set \ {n} \in SUBSET Names
    BY <1>1, <2>1, <2>2, Pushed
  <2>4. \A d, m : /\ LeftIn(frames', d, m) <=>
                        (d = e /\ m \in set \ {n}) \/ (d = Root /\ m \in more)
                  /\ LeftIn(frames, d, m) <=> (d = e /\ m \in set) \/ (d = Root /\ m \in more)
    BY <1>3, <2>3, LeftIs
  <2>5. e # Root
    OBVIOUS
  <2>6. Stacked'
    BY <2>3 DEF Stacked, ChildOpen
  <2>7. n \in Top.left => n \in set
    BY <2>1, FrameIs
  <2>. QED BY <2>1, <2>4, <2>5, <2>6, <2>7
<1>4. CASE RootOpen
  <2>1. PICK set \in SUBSET Names : frames = <<Frame(Root, set)>>
    BY <1>4 DEF RootOpen
  <2>. QED BY <1>2, <2>1 DEF Directories
<1>5. CASE ChildOpen
  <2>1. PICK e \in Subdirectories, set \in SUBSET Names, more \in SUBSET Names :
            frames = <<Frame(e, set), Frame(Root, more)>>
    BY <1>5 DEF ChildOpen
  <2>. QED BY <1>3, <2>1 DEF Directories
<1>. QED BY <1>4, <1>5 DEF Stacked

\* A frame goes: what its directory had left is left no more.
LEMMA ClosedNext ==
    ASSUME Stacked, frames # <<>>, frames' = Tail(frames)
    PROVE  /\ Stacked'
           /\ \A d, m : /\ Left(d, m)' => Left(d, m)
                        /\ Left(d, m) /\ ~Left(d, m)' => d = Top.dir /\ m \in Top.left
<1>. USE DEF Left
<1>1. ASSUME NEW set \in SUBSET Names, frames = <<Frame(Root, set)>>
      PROVE  /\ Stacked'
             /\ \A d, m : /\ ~Left(d, m)'
                          /\ Left(d, m) => d = Top.dir /\ m \in Top.left
  <2>1. Top = Frame(Root, set) /\ frames' = <<>>
    BY <1>1, TopIs
  <2>2. \A d, m : ~LeftIn(frames', d, m) /\ (LeftIn(frames, d, m) => d = Root /\ m \in set)
    BY <1>1, <2>1, LeftIs
  <2>. QED BY <2>1, <2>2, FrameIs DEF Stacked
<1>2. ASSUME NEW e \in Subdirectories, NEW set \in SUBSET Names, NEW more \in SUBSET Names,
             frames = <<Frame(e, set), Frame(Root, more)>>
      PROVE  /\ Stacked'
             /\ \A d, m : /\ Left(d, m)' => Left(d, m)
                          /\ Left(d, m) /\ ~Left(d, m)' => d = Top.dir /\ m \in Top.left
  <2>1. Top = Frame(e, set) /\ frames' = <<Frame(Root, more)>>
    BY <1>2, TopIs
  <2>2. \A d, m : /\ LeftIn(frames', d, m) <=> d = Root /\ m \in more
                  /\ LeftIn(frames, d, m) <=> (d = e /\ m \in set) \/ (d = Root /\ m \in more)
    BY <1>2, <2>1, LeftIs
  <2>3. Stacked'
    BY <2>1 DEF Stacked, RootOpen
  <2>4. Top.dir = e /\ Top.left = set
    BY <2>1, FrameIs
  <2>. QED BY <2>2, <2>3, <2>4
<1>. QED BY <1>1, <1>2 DEF Stacked, RootOpen, ChildOpen

\* A directory is opened above the root: the names that it has are left.
LEMMA PushedNext ==
    ASSUME RootOpen, NEW d \in Subdirectories, frames' = <<Stream(d)>> \o frames
    PROVE  /\ Stacked'
           /\ \A e, m : Left(e, m)' <=>
                 Left(e, m) \/ (e = d /\ m \in Names /\ names[d][m] # NoEntry)
<1>1. PICK set \in SUBSET Names : frames = <<Frame(Root, set)>>
  BY DEF RootOpen
<1>2. PICK there \in SUBSET Names :
          \A m : m \in there <=> m \in Names /\ names[d][m] # NoEntry
  <2>1. {m \in Names : names[d][m] # NoEntry} \in SUBSET Names
    OBVIOUS
  <2>. QED BY <2>1
<1>3. Stream(d) = Frame(d, there)
  <2>1. there = {m \in Names : names[d][m] # NoEntry}
    BY <1>2
  <2>. QED BY <2>1 DEF Stream, Frame
<1>4. frames' = <<Frame(d, there), Frame(Root, set)>>
  BY <1>1, <1>3, Pushed
<1>5. \A e, m : LeftIn(frames', e, m) <=> (e = d /\ m \in there) \/ (e = Root /\ m \in set)
  <2>1. \A e, m : LeftIn(<<Frame(d, there), Frame(Root, set)>>, e, m) <=>
                     (e = d /\ m \in there) \/ (e = Root /\ m \in set)
    BY LeftIs
  <2>. QED BY <1>4, <2>1
<1>6. \A e, m : LeftIn(frames, e, m) <=> e = Root /\ m \in set
  BY <1>1, LeftIs
<1>7. Stacked'
  BY <1>4 DEF Stacked, ChildOpen
<1>. QED BY <1>2, <1>5, <1>6, <1>7 DEF Left

\* A step of the walk leaves the tree alone, and the names that have changed.
LEMMA TreeStays ==
    ASSUME TreeOK, UNCHANGED <<names, kept>>, unsure' \subseteq unsure
    PROVE  TreeOK'
BY DEF TreeOK

\* The scan starts with nothing read and a tree that nobody has changed.
LEMMA DiskInitInv == DiskInit => ScanInv
<1>. SUFFICES ASSUME DiskInit PROVE ScanInv
  OBVIOUS
<1>1. TreeOK
  <2>1. names \in [Directories -> [Names -> Inodes \cup {NoEntry}]]
    BY DEF DiskInit, Trees
  <2>2. \A n \in Names : names[Root][n] # Root
    BY DEF DiskInit, Trees
  <2>3. \A d \in Subdirectories, n \in Names : names[d][n] \notin Directories
    BY DEF DiskInit, Trees
  <2>. QED BY <2>1, <2>2, <2>3 DEF DiskInit, TreeOK
<1>2. StackOK /\ CoverOK /\ EndOK
  BY DEF DiskInit, StackOK, Stacked, CoverOK, EndOK
<1>. QED BY <1>1, <1>2 DEF ScanInv

\* The tree changes, and the walk goes on where it was.
LEMMA ChangeInv ==
    ASSUME ScanInv, NEW e \in Directories, NEW k \in Names, NEW i \in Inodes \cup {NoEntry},
           Change(e, k, i)
    PROVE  ScanInv'
<1>. USE DiskUsageAssumption
<1>1. /\ i \in Directories => e = Root /\ i # Root
      /\ names' = [names EXCEPT ![e][k] = i] /\ kept' = kept \ {<<e, k>>}
      /\ unsure' \subseteq unsure \cup {<<e, k>>}
      /\ UNCHANGED <<frames, opening, seen, issues, result, counted>>
  BY DEF Change
<1>2. /\ names' \in [Directories -> [Names -> Inodes \cup {NoEntry}]]
      /\ \A d \in Directories, n \in Names :
            names'[d][n] = IF d = e /\ n = k THEN i ELSE names[d][n]
  BY <1>1 DEF ScanInv, TreeOK
<1>3. \A d \in Directories, n \in Names : <<d, n>> \in kept' =>
          <<d, n>> \in kept /\ ~(d = e /\ n = k) /\ <<d, n>> \notin unsure'
  BY <1>1 DEF ScanInv, TreeOK
<1>4. TreeOK'
  <2>1. \A n \in Names : names'[Root][n] # Root
    BY <1>1, <1>2 DEF ScanInv, TreeOK, Directories
  <2>2. \A d \in Subdirectories, n \in Names : names'[d][n] \notin Directories
    BY <1>1, <1>2 DEF ScanInv, TreeOK, Directories
  <2>. QED BY <1>2, <1>3, <2>1, <2>2 DEF TreeOK
<1>5. StackOK' /\ EndOK'
  BY <1>1 DEF ScanInv, StackOK, Stacked, RootOpen, ChildOpen, EndOK
<1>6. CoverOK'
  <2>1. \A d \in Directories, n \in Names : <<d, n>> \in kept' =>
            <<d, n>> \in kept /\ (Covered(d, n) => Covered(d, n)')
    BY <1>1, <1>2, <1>3 DEF Covered, Left, IsOpening
  <2>. QED BY <1>1, <2>1 DEF ScanInv, CoverOK
<1>. QED BY <1>4, <1>5, <1>6 DEF ScanInv

\* A sum that cannot be represented ends the walk.
LEMMA OverflowInv == ASSUME ScanInv, NEW i, Overflow(i) PROVE ScanInv'
<1>1. TreeOK'
  BY TreeStays DEF ScanInv, Overflow, tree
<1>2. StackOK' /\ CoverOK' /\ EndOK'
  BY DEF Overflow, ScanInv, StackOK, Stacked, CoverOK, EndOK, tree
<1>. QED BY <1>1, <1>2 DEF ScanInv

\* All names of the root are to be read when it is opened.
LEMMA OpenRootInv == ASSUME ScanInv, OpenRoot PROVE ScanInv'
<1>1. CASE Overflow(Root)
  BY <1>1, OverflowInv
<1>2. CASE ~Overflow(Root)
  <2>1. /\ Add(Root) /\ result' = "scanning" /\ frames' = <<Stream(Root)>>
        /\ UNCHANGED <<unsure, opening, issues, names, kept>>
    BY <1>2 DEF OpenRoot, tree
  <2>2. TreeOK'
    BY <2>1, TreeStays DEF ScanInv
  <2>3. PICK there \in SUBSET Names :
            \A m : m \in there <=> m \in Names /\ names[Root][m] # NoEntry
    <3>1. {m \in Names : names[Root][m] # NoEntry} \in SUBSET Names
      OBVIOUS
    <3>. QED BY <3>1
  <2>4. Stream(Root) = Frame(Root, there)
    <3>1. there = {m \in Names : names[Root][m] # NoEntry}
      BY <2>3
    <3>. QED BY <3>1 DEF Stream, Frame
  <2>5. RootOpen' /\ \A e, m : Left(e, m)' <=> e = Root /\ m \in there
    BY <2>1, <2>4, LeftIs DEF RootOpen, Left
  <2>6. counted' = {Root} /\ seen' \subseteq {Root} /\ opening' = {}
    BY <2>1 DEF OpenRoot, Add, ScanInv, StackOK
  <2>7. StackOK' /\ EndOK'
    BY <2>1, <2>5, <2>6 DEF ScanInv, StackOK, Stacked, EndOK
  <2>8. CoverOK'
    BY <2>1, <2>3, <2>5, <2>6 DEF CoverOK, Covered
  <2>. QED BY <2>2, <2>7, <2>8 DEF ScanInv
<1>. QED BY <1>1, <1>2

\* A name that is read is counted, or known, or an issue.
LEMMA ReadEntryInv == ASSUME ScanInv, ReadEntry PROVE ScanInv'
<1>. USE DiskUsageAssumption DEF Scanning, NothingOpen, tree
<1>1. PICK n, top, i :
        /\ n \in Names /\ top = Top.dir /\ i = names[top][n] /\ MayBeListed(n)
        /\ \/ /\ i = NoEntry \/ SeenBefore(i)
              /\ Lists(n) /\ issues' = Noticed(i # NoEntry)
              /\ UNCHANGED <<opening, seen, bytes, result, counted, tree>>
           \/ /\ i # NoEntry /\ Add(i)
              /\ Lists(n) /\ opening' = {<<n, d>> : d \in {i} \cap Directories}
              /\ UNCHANGED <<issues, result, tree>>
           \/ i # NoEntry /\ Overflow(i)
  BY DEF ReadEntry
<1>2. CASE Overflow(i)
  BY <1>2, OverflowInv
<1>3. CASE Lists(n) /\ ~Overflow(i)
  <2>1. frames # <<>> /\ opening = {} /\ result = "scanning"
    BY DEF ReadEntry
  <2>2. /\ Stacked' /\ top \in Directories
        /\ top \in Subdirectories \/ (top = Root /\ RootOpen')
        /\ \A d, m : Left(d, m)' <=> Left(d, m) /\ ~(d = top /\ m = n)
    BY <1>1, <1>3, <2>1, ListsNext DEF ScanInv, StackOK
  <2>3. UNCHANGED <<names, kept, result>> /\ unsure' \subseteq unsure
    BY <1>1, <1>3 DEF Lists
  <2>4. TreeOK'
    BY <2>3, TreeStays DEF ScanInv
  <2>5. i \in Inodes \cup {NoEntry}
    BY <1>1, <2>2 DEF ScanInv, TreeOK
  <2>6. CASE /\ i = NoEntry \/ SeenBefore(i)
             /\ issues' = Noticed(i # NoEntry)
             /\ UNCHANGED <<opening, seen, counted>>
    <3>1. StackOK' /\ EndOK'
      BY <2>1, <2>2, <2>3, <2>6 DEF ScanInv, StackOK, EndOK, Noticed
    <3>2. CASE i = NoEntry
      BY <3>1, <3>2, <2>4, <2>6 DEF Noticed, CoverOK, ScanInv
    <3>3. CASE i # NoEntry
      <4>1. i \in counted
        BY <2>6, <3>3 DEF SeenBefore, ScanInv, StackOK
      <4>2. ~issues' => ~issues
        BY <2>6 DEF Noticed
      <4>3. \A d \in Directories, m \in Names : Covered(d, m) => Covered(d, m)'
        BY <1>1, <2>2, <2>3, <2>6, <4>1 DEF Covered, IsOpening
      <4>4. CoverOK'
        BY <2>1, <2>3, <2>6, <4>2, <4>3 DEF CoverOK, ScanInv
      <4>. QED BY <3>1, <4>4, <2>4 DEF ScanInv
    <3>. QED BY <3>2, <3>3
  <2>7. CASE /\ i # NoEntry /\ Add(i) /\ issues' = issues
             /\ opening' = {<<n, d>> : d \in {i} \cap Directories}
    <3>1. counted' = counted \cup {i} /\ seen' \subseteq seen \cup {i}
      BY <2>7 DEF Add
    <3>2. i \in Directories => i \in Subdirectories /\ top = Root /\ opening' = {<<n, i>>}
      BY <1>1, <2>2, <2>7 DEF ScanInv, TreeOK, Directories
    <3>3. i \notin Directories => opening' = {}
      BY <2>7
    <3>4. StackOK'
      <4>1. opening' = {} \/ \E k \in Names, d \in Subdirectories : opening' = {<<k, d>>}
        BY <1>1, <3>2, <3>3
      <4>2. opening' # {} => RootOpen'
        BY <2>2, <3>2, <3>3
      <4>. QED BY <2>1, <2>2, <2>3, <2>7, <3>1, <4>1, <4>2 DEF ScanInv, StackOK
    <3>5. EndOK'
      BY <2>1, <2>3 DEF EndOK
    <3>6. CoverOK'
      <4>1. \A d \in Directories, m \in Names : Covered(d, m) => Covered(d, m)'
        BY <1>1, <2>1, <2>2, <2>3, <3>1 DEF Covered, IsOpening
      <4>2. i \in Directories => \A m \in Names : Covered(i, m)'
        <5>1. i \in Directories => IsOpening(i)'
          BY <1>1, <3>2 DEF IsOpening
        <5>. QED BY <5>1 DEF Covered, IsOpening
      <4>. QED BY <2>1, <2>3, <2>7, <3>1, <4>1, <4>2 DEF CoverOK, ScanInv
    <3>. QED BY <3>4, <3>5, <3>6, <2>4 DEF ScanInv
  <2>. QED BY <1>1, <1>3, <2>6, <2>7
<1>. QED BY <1>1, <1>2, <1>3

\* The directory that is opened has all its names to be read, or is an issue.
LEMMA OpenChildInv == ASSUME ScanInv, OpenChild PROVE ScanInv'
<1>1. PICK n \in Names, d \in Subdirectories :
        LET now == names[Top.dir][n] IN
          /\ <<n, d>> \in opening
          /\ issues' = Noticed(StillThere(now, d))
          /\ frames' = IF StillThere(now, d) THEN <<Stream(now)>> \o frames ELSE frames
  BY DEF OpenChild
<1>2. /\ result = "scanning" /\ opening = {<<n, d>>} /\ RootOpen /\ opening' = {}
      /\ UNCHANGED <<unsure, seen, result, counted, names, kept>>
  BY <1>1 DEF OpenChild, tree, ScanInv, StackOK
<1>3. TreeOK'
  BY <1>2, TreeStays DEF ScanInv
<1>4. CASE names[Top.dir][n] # d
  <2>1. issues' = TRUE /\ frames' = frames
    BY <1>1, <1>4 DEF Noticed, StillThere
  <2>2. StackOK' /\ CoverOK' /\ EndOK'
    BY <1>2, <2>1
    DEF ScanInv, StackOK, Stacked, RootOpen, ChildOpen, CoverOK, EndOK
  <2>. QED BY <1>3, <2>2 DEF ScanInv
<1>5. CASE names[Top.dir][n] = d
  <2>1. issues' = issues /\ frames' = <<Stream(d)>> \o frames
    BY <1>1, <1>5 DEF Noticed, StillThere, ScanInv, StackOK
  <2>2. /\ Stacked'
        /\ \A e, m : Left(e, m)' <=>
              Left(e, m) \/ (e = d /\ m \in Names /\ names[d][m] # NoEntry)
    BY <1>2, <2>1, PushedNext
  <2>3. StackOK' /\ EndOK'
    BY <1>2, <2>1, <2>2 DEF ScanInv, StackOK, EndOK
  <2>4. \A e \in Directories, m \in Names : Covered(e, m) => Covered(e, m)'
    <3>1. \A e : IsOpening(e) => e = d
      BY <1>2 DEF IsOpening
    <3>. QED BY <1>2, <2>2, <3>1 DEF Covered
  <2>5. CoverOK'
    BY <1>2, <2>1, <2>4 DEF ScanInv, CoverOK
  <2>. QED BY <1>3, <2>3, <2>5 DEF ScanInv
<1>. QED BY <1>4, <1>5

\* A directory that is closed has nothing left to be read that has not changed.
LEMMA CloseDirectoryInv == ASSUME ScanInv, CloseDirectory PROVE ScanInv'
<1>1. /\ result = "scanning" /\ opening = {} /\ frames # <<>>
      /\ \A n \in Top.left : <<Top.dir, n>> \in unsure
      /\ frames' = Tail(frames) /\ unsure' \subseteq unsure
      /\ UNCHANGED <<opening, seen, issues, result, counted, names, kept>>
  BY DEF CloseDirectory, Closed, Scanning, NothingOpen, tree
<1>2. /\ Stacked'
      /\ \A d, m : Left(d, m) /\ ~Left(d, m)' => d = Top.dir /\ m \in Top.left
  BY <1>1, ClosedNext DEF ScanInv, StackOK
<1>3. TreeOK'
  BY <1>1, TreeStays DEF ScanInv
<1>4. StackOK' /\ EndOK'
  BY <1>1, <1>2 DEF ScanInv, StackOK, EndOK
<1>5. \A d \in Directories, m \in Names :
         <<d, m>> \in kept /\ Covered(d, m) => Covered(d, m)'
  <2>1. \A d \in Directories, m \in Names : <<d, m>> \in kept => <<d, m>> \notin unsure
    BY DEF ScanInv, TreeOK
  <2>. QED BY <1>1, <1>2, <2>1 DEF Covered, IsOpening
<1>6. CoverOK'
  BY <1>1, <1>5 DEF ScanInv, CoverOK
<1>. QED BY <1>3, <1>4, <1>6 DEF ScanInv

\* A scan is complete only when nothing is left and there is no issue.
LEMMA FinishInv == ASSUME ScanInv, Finish PROVE ScanInv'
<1>1. /\ result = "scanning" /\ opening = {} /\ frames = <<>>
      /\ result' = IF issues THEN "partial" ELSE "complete"
      /\ UNCHANGED <<frames, unsure, opening, seen, issues, counted, names, kept>>
  BY DEF Finish, NothingOpen, tree
<1>2. TreeOK'
  BY <1>1, TreeStays DEF ScanInv
<1>3. StackOK' /\ EndOK'
  BY <1>1 DEF ScanInv, StackOK, Stacked, EndOK
<1>4. CoverOK'
  <2>1. \A d \in Directories, m \in Names : Covered(d, m) => Covered(d, m)'
    BY <1>1 DEF Covered, Left, IsOpening
  <2>. QED BY <1>1, <2>1 DEF ScanInv, CoverOK
<1>. QED BY <1>2, <1>3, <1>4 DEF ScanInv

\* A root that cannot be read leaves nothing open.
LEMMA RootUnreadableInv == ASSUME ScanInv, RootUnreadable PROVE ScanInv'
<1>1. TreeOK'
  BY TreeStays DEF ScanInv, RootUnreadable
<1>2. StackOK' /\ CoverOK' /\ EndOK'
  BY DEF RootUnreadable, ScanInv, StackOK, Stacked, CoverOK, EndOK
<1>. QED BY <1>1, <1>2 DEF ScanInv

\* What cannot be read is an issue.
LEMMA UnreadableInv == ASSUME ScanInv, Unreadable PROVE ScanInv'
<1>1. /\ result = "scanning" /\ frames # <<>> /\ issues' = TRUE /\ opening' = {}
      /\ unsure' \subseteq unsure
      /\ UNCHANGED <<seen, result, counted, names, kept>>
      /\ frames' = Tail(frames) \/ frames' = frames \/ \E n \in Names : Lists(n)
  BY DEF Unreadable, Noticed, Lists, Closed
<1>2. Stacked'
  <2>1. CASE frames' = Tail(frames)
    BY <1>1, <2>1, ClosedNext DEF ScanInv, StackOK
  <2>2. CASE frames' = frames
    BY <2>2 DEF ScanInv, StackOK, Stacked, RootOpen, ChildOpen
  <2>3. CASE \E n \in Names : Lists(n)
    BY <1>1, <2>3, ListsNext DEF ScanInv, StackOK
  <2>. QED BY <1>1, <2>1, <2>2, <2>3
<1>3. TreeOK'
  BY <1>1, TreeStays DEF ScanInv
<1>4. StackOK' /\ EndOK' /\ CoverOK'
  BY <1>1, <1>2 DEF ScanInv, StackOK, EndOK, CoverOK
<1>. QED BY <1>3, <1>4 DEF ScanInv

\* Every step, and none, keeps the invariant of the scan.
LEMMA DiskNextInv == ScanInv /\ [DiskNext]_scanVars => ScanInv'
<1>. SUFFICES ASSUME ScanInv, [DiskNext]_scanVars PROVE ScanInv'
  OBVIOUS
<1>1. CASE UNCHANGED scanVars
  BY <1>1 DEF scanVars, ScanInv, TreeOK, StackOK, Stacked, RootOpen, ChildOpen, CoverOK,
     Covered, Left, IsOpening, EndOK
<1>. QED
  BY <1>1, ChangeInv, OpenRootInv, ReadEntryInv, OpenChildInv, CloseDirectoryInv,
     FinishInv, RootUnreadableInv, UnreadableInv DEF DiskNext, ScanStep

\* The invariant of the scan holds in every state.
THEOREM DiskInvariant == DiskSpec => []ScanInv
BY DiskInitInv, DiskNextInv, PTL DEF DiskSpec

\* A measurement that is reported as complete counted the root, and of every
\* directory that it counted all that kept its name there while it ran: what could
\* not be read, or was another directory when it was opened than when it was
\* counted, is an issue (disk_usage.rs scan_entry and scan_with_hook, whose issues
\* make a result partial).
THEOREM DiskScanMissesNothing == DiskSpec => []CompleteScanMissedNothing
<1>1. ASSUME ScanInv, result = "complete"
      PROVE  /\ Root \in counted
             /\ \A d \in counted \cap Directories, n \in Names :
                   <<d, n>> \in kept => names[d][n] \in counted \cup {NoEntry}
  <2>1. frames = <<>> /\ opening = {} /\ ~issues
    BY <1>1 DEF ScanInv, EndOK
  <2>2. \A d, n : ~Left(d, n) /\ ~IsOpening(d)
    BY <2>1, LeftIs DEF Left, IsOpening
  <2>. QED BY <1>1, <2>1, <2>2 DEF ScanInv, CoverOK, Covered
<1>. QED BY <1>1, DiskInvariant, PTL DEF CompleteScanMissedNothing

(*****************************************************************************)
(* Sums over finite sets.  The library's sum is a recursive function on the  *)
(* parts of a set, which takes any element first; that it exists, and that   *)
(* the order makes no difference, is shown by induction on the parts.        *)
(*****************************************************************************)

\* A set of naturals that has zero and the successors of its elements has all.
LEMMA EveryNatural ==
    ASSUME NEW Q, 0 \in Q, \A n \in Nat : n \in Q => n + 1 \in Q
    PROVE  Nat \subseteq Q
<1>. SUFFICES ASSUME Nat \ Q # {} PROVE FALSE
  OBVIOUS
<1>1. PICK n \in Nat \ Q : \A m \in Nat \ Q : ~(<<m, n>> \in OpToRel(<, Nat))
  BY NatLessThanWellFounded, WFMin
<1>2. n # 0 /\ n - 1 \in Nat
  OBVIOUS
<1>3. n - 1 \in Q
  <2>1. <<n - 1, n>> \in OpToRel(<, Nat)
    BY <1>2 DEF OpToRel
  <2>. QED BY <1>1, <1>2, <2>1
<1>4. (n - 1) + 1 \in Q
  BY <1>2, <1>3
<1>. QED BY <1>4

\* What holds of a part of a finite set when it holds of every smaller one holds
\* of every part.
LEMMA EveryPart ==
    ASSUME NEW S, IsFiniteSet(S), NEW Q,
           \A T \in SUBSET S : (\A U \in SUBSET T : U # T => U \in Q) => T \in Q
    PROVE  SUBSET S \subseteq Q
<1>. DEFINE Upto == {n \in Nat : \A T \in SUBSET S : Cardinality(T) <= n => T \in Q}
<1>1. ASSUME NEW T \in SUBSET S
      PROVE  /\ IsFiniteSet(T) /\ Cardinality(T) \in Nat
             /\ \A U \in SUBSET T :
                   U # T => Cardinality(U) \in Nat /\ Cardinality(U) < Cardinality(T)
  <2>1. IsFiniteSet(T)
    BY FS_Subset
  <2>2. \A U \in SUBSET T : IsFiniteSet(U) /\ Cardinality(U) <= Cardinality(T)
                            /\ (Cardinality(U) = Cardinality(T) => U = T)
    BY <2>1, FS_Subset
  <2>. QED BY <2>1, <2>2, FS_CardinalityType
<1>2. 0 \in Upto
  <2>1. ASSUME NEW T \in SUBSET S, Cardinality(T) <= 0 PROVE T \in Q
    <3>1. \A U \in SUBSET T : U = T
      BY <1>1, <2>1
    <3>. QED BY <3>1
  <2>. QED BY <2>1
<1>3. ASSUME NEW n \in Nat, n \in Upto PROVE n + 1 \in Upto
  <2>1. ASSUME NEW T \in SUBSET S, Cardinality(T) <= n + 1 PROVE T \in Q
    <3>1. ASSUME NEW U \in SUBSET T, U # T PROVE U \in Q
      <4>1. Cardinality(U) <= n
        BY <1>1, <2>1, <3>1
      <4>. QED BY <1>3, <4>1
    <3>. QED BY <3>1
  <2>. QED BY <2>1
<1>. HIDE DEF Upto
<1>4. Nat \subseteq Upto
  BY <1>2, <1>3, EveryNatural
<1>. QED BY <1>1, <1>4 DEF Upto

\* The sum of weights of a set, and the function on its parts that it unfolds to.
Total(w, S) == MapThenSumSet(LAMBDA i : w[i], S)

Any(s) == CHOOSE x \in s : TRUE
Layer(w, g, s) == IF s = {} THEN 0 ELSE w[Any(s)] + g[s \ {Any(s)}]
Sums(w, S, g) == g = [s \in SUBSET S |-> Layer(w, g, s)]

\* The library's sum, unfolded.
LEMMA SumUnfolds ==
    ASSUME NEW w, NEW S
    PROVE  Total(w, S) = (CHOOSE g : Sums(w, S, g))[S]
BY DEF Total, Sums, Layer, Any, MapThenSumSet, MapThenFoldSet

\* The element that a sum takes first is one of the set.
LEMMA AnyIs == \A s : s # {} => Any(s) \in s
BY DEF Any

\* A finite set has a function that sums its parts.
LEMMA SumsExist ==
    ASSUME NEW w, NEW S, IsFiniteSet(S)
    PROVE  \E g : Sums(w, S, g)
<1>. DEFINE Upto(h, n) == \A s \in SUBSET S : Cardinality(s) <= n => h[s] = Layer(w, h, s)
            Q == {n \in Nat : \E h : Upto(h, n)}
<1>1. ASSUME NEW s \in SUBSET S
      PROVE  /\ Cardinality(s) \in Nat /\ Cardinality(s) <= Cardinality(S)
             /\ s = {} <=> Cardinality(s) = 0
             /\ s # {} => /\ s \ {Any(s)} \in SUBSET S
                          /\ Cardinality(s \ {Any(s)}) = Cardinality(s) - 1
  <2>1. IsFiniteSet(s) /\ Cardinality(s) <= Cardinality(S)
    BY FS_Subset
  <2>2. Cardinality(s) \in Nat /\ (s = {} <=> Cardinality(s) = 0)
    BY <2>1, FS_CardinalityType, FS_EmptySet
  <2>3. s # {} => Any(s) \in s
    BY AnyIs
  <2>4. s # {} => Cardinality(s \ {Any(s)}) = Cardinality(s) - 1
    BY <2>1, <2>3, FS_RemoveElement
  <2>. QED BY <2>1, <2>2, <2>4
<1>2. 0 \in Q
  <2>. DEFINE h == [s \in SUBSET S |-> 0]
  <2>1. ASSUME NEW s \in SUBSET S, Cardinality(s) <= 0 PROVE h[s] = Layer(w, h, s)
    <3>1. Cardinality(s) \in Nat /\ (s = {} <=> Cardinality(s) = 0)
      BY <1>1
    <3>2. s = {}
      BY <2>1, <3>1
    <3>. QED BY <3>2 DEF Layer
  <2>2. Upto(h, 0)
    BY <2>1
  <2>. QED BY <2>2
<1>3. ASSUME NEW n \in Nat, n \in Q PROVE n + 1 \in Q
  <2>1. PICK h : Upto(h, n)
    BY <1>3
  <2>. DEFINE g == [s \in SUBSET S |-> Layer(w, h, s)]
  <2>2. ASSUME NEW s \in SUBSET S, Cardinality(s) <= n + 1 PROVE g[s] = Layer(w, g, s)
    <3>1. CASE s = {}
      BY <3>1 DEF Layer
    <3>2. CASE s # {}
      <4>. DEFINE r == s \ {Any(s)}
      <4>1. r \in SUBSET S /\ Cardinality(r) <= n
        BY <1>1, <2>2, <3>2
      <4>2. g[r] = h[r]
        BY <2>1, <4>1
      <4>3. g[s] = w[Any(s)] + h[r] /\ Layer(w, g, s) = w[Any(s)] + g[r]
        BY <3>2 DEF Layer
      <4>. QED BY <4>2, <4>3
    <3>. QED BY <3>1, <3>2
  <2>3. Upto(g, n + 1)
    BY <2>2
  <2>4. \E f : Upto(f, n + 1)
    <3>. HIDE DEF Upto, g
    <3>. QED BY <2>3
  <2>. QED BY <2>4
<1>4. Nat \subseteq Q
  <2>. HIDE DEF Q
  <2>. QED BY <1>2, <1>3, EveryNatural
<1>5. Cardinality(S) \in Nat
  BY FS_CardinalityType
<1>6. PICK h : Upto(h, Cardinality(S))
  BY <1>4, <1>5
<1>7. \A s \in SUBSET S : h[s] = Layer(w, h, s)
  BY <1>1, <1>6
<1>. DEFINE g == [s \in SUBSET S |-> h[s]]
<1>8. ASSUME NEW s \in SUBSET S PROVE Layer(w, g, s) = Layer(w, h, s)
  <2>1. s # {} => g[s \ {Any(s)}] = h[s \ {Any(s)}]
    BY <1>1
  <2>. QED BY <2>1 DEF Layer
<1>9. g = [s \in SUBSET S |-> Layer(w, g, s)]
  <2>1. \A s \in SUBSET S : h[s] = Layer(w, g, s)
    BY <1>7, <1>8
  <2>. QED BY <2>1
<1>. QED BY <1>9 DEF Sums

\* Functions that sum the parts of two sets agree on what is a part of both.
LEMMA SumsAgree ==
    ASSUME NEW w, NEW S, IsFiniteSet(S), NEW R, S \subseteq R,
           NEW g, Sums(w, S, g), NEW h, Sums(w, R, h)
    PROVE  g[S] = h[S]
<1>. DEFINE Q == {s \in SUBSET S : g[s] = h[s]}
<1>1. ASSUME NEW T \in SUBSET S, \A U \in SUBSET T : U # T => U \in Q PROVE T \in Q
  <2>1. g[T] = Layer(w, g, T) /\ h[T] = Layer(w, h, T)
    BY DEF Sums
  <2>2. T # {} => g[T \ {Any(T)}] = h[T \ {Any(T)}]
    BY <1>1, AnyIs
  <2>. QED BY <2>1, <2>2 DEF Layer
<1>2. SUBSET S \subseteq Q
  <2>. HIDE DEF Q
  <2>. QED BY <1>1, EveryPart
<1>. QED BY <1>2

\* The sum of a part, by the function that sums the parts of the whole.
LEMMA SumOfPart ==
    ASSUME NEW w, NEW R, IsFiniteSet(R), NEW h, Sums(w, R, h), NEW S \in SUBSET R
    PROVE  Total(w, S) = h[S]
<1>1. IsFiniteSet(S)
  BY FS_Subset
<1>2. Sums(w, S, CHOOSE g : Sums(w, S, g))
  BY <1>1, SumsExist
<1>. QED BY <1>1, <1>2, SumsAgree, SumUnfolds

\* Sums of natural weights: of nothing, of one more, and of a part.
LEMMA SumsOfParts ==
    ASSUME NEW R, IsFiniteSet(R), NEW w \in [R -> Nat]
    PROVE  /\ Total(w, {}) = 0
           /\ \A S \in SUBSET R : Total(w, S) \in Nat
           /\ \A S \in SUBSET R : \A x \in R \ S : Total(w, S \cup {x}) = Total(w, S) + w[x]
           /\ \A S \in SUBSET R : \A T \in SUBSET S : Total(w, T) <= Total(w, S)
<1>1. PICK h : Sums(w, R, h)
  BY SumsExist
<1>2. \A S \in SUBSET R : Total(w, S) = h[S] /\ h[S] = Layer(w, h, S)
  <2>1. \A S \in SUBSET R : Total(w, S) = h[S]
    BY <1>1, SumOfPart
  <2>2. h = [S \in SUBSET R |-> Layer(w, h, S)]
    BY <1>1 DEF Sums
  <2>3. \A S \in SUBSET R : h[S] = Layer(w, h, S)
    BY <2>2
  <2>. QED BY <2>1, <2>3
<1>3. h[{}] = 0
  BY <1>2 DEF Layer
<1>4. \A S \in SUBSET R : S # {} => Any(S) \in S /\ h[S] = w[Any(S)] + h[S \ {Any(S)}]
  BY <1>2, AnyIs DEF Layer
<1>5. \A S \in SUBSET R : h[S] \in Nat
  <2>. DEFINE Q == {S \in SUBSET R : h[S] \in Nat}
  <2>1. ASSUME NEW S \in SUBSET R, \A U \in SUBSET S : U # S => U \in Q PROVE S \in Q
    <3>1. CASE S = {}
      BY <3>1, <1>3
    <3>2. CASE S # {}
      <4>. DEFINE y == Any(S)
      <4>1. y \in S /\ h[S] = w[y] + h[S \ {y}]
        BY <1>4, <3>2
      <4>. HIDE DEF y
      <4>2. S \ {y} \in Q
        BY <2>1, <4>1
      <4>3. w[y] \in Nat /\ h[S \ {y}] \in Nat
        BY <4>1, <4>2
      <4>4. h[S] \in Nat
        BY <4>1, <4>3
      <4>. QED BY <4>4
    <3>. QED BY <3>1, <3>2
  <2>2. SUBSET R \subseteq Q
    <3>. HIDE DEF Q
    <3>. QED BY <2>1, EveryPart
  <2>. QED BY <2>2
<1>6. \A S \in SUBSET R : \A x \in S : h[S] = w[x] + h[S \ {x}]
  <2>. DEFINE Q == {S \in SUBSET R : \A x \in S : h[S] = w[x] + h[S \ {x}]}
  <2>1. ASSUME NEW S \in SUBSET R, \A U \in SUBSET S : U # S => U \in Q PROVE S \in Q
    <3>1. ASSUME NEW x \in S PROVE h[S] = w[x] + h[S \ {x}]
      <4>. DEFINE y == Any(S)
      <4>1. y \in S /\ h[S] = w[y] + h[S \ {y}]
        BY <1>4
      <4>. HIDE DEF y
      <4>2. CASE x = y
        BY <4>1, <4>2
      <4>3. CASE x # y
        <5>1. S \ {y} \in Q /\ S \ {x} \in Q
          BY <2>1, <4>1
        <5>2. h[S \ {y}] = w[x] + h[(S \ {y}) \ {x}]
          BY <5>1, <4>1, <4>3
        <5>3. h[S \ {x}] = w[y] + h[(S \ {x}) \ {y}]
          BY <5>1, <4>1, <4>3
        <5>4. (S \ {y}) \ {x} = (S \ {x}) \ {y}
          OBVIOUS
        <5>. DEFINE r == h[(S \ {x}) \ {y}]
        <5>5. r \in Nat /\ w[x] \in Nat /\ w[y] \in Nat
          BY <1>5, <4>1
        <5>6. h[S] = w[y] + (w[x] + r) /\ h[S \ {x}] = w[y] + r
          BY <4>1, <5>2, <5>3, <5>4
        <5>. HIDE DEF r
        <5>. QED BY <5>5, <5>6
      <4>. QED BY <4>2, <4>3
    <3>. QED BY <3>1
  <2>2. SUBSET R \subseteq Q
    <3>. HIDE DEF Q
    <3>. QED BY <2>1, EveryPart
  <2>. QED BY <2>2
<1>7. \A S \in SUBSET R : \A T \in SUBSET S : h[T] <= h[S]
  <2>. DEFINE Q == {S \in SUBSET R : \A T \in SUBSET S : h[T] <= h[S]}
  <2>1. ASSUME NEW S \in SUBSET R, \A U \in SUBSET S : U # S => U \in Q PROVE S \in Q
    <3>1. ASSUME NEW T \in SUBSET S, T # S PROVE h[T] <= h[S]
      <4>1. PICK x \in S : x \notin T
        BY <3>1
      <4>2. S \ {x} \in Q /\ T \in SUBSET (S \ {x})
        BY <2>1, <4>1
      <4>3. h[T] <= h[S \ {x}]
        BY <4>2
      <4>4. h[S] = w[x] + h[S \ {x}] /\ w[x] \in Nat
        BY <1>6
      <4>5. h[T] \in Nat /\ h[S \ {x}] \in Nat
        BY <1>5
      <4>. QED BY <4>3, <4>4, <4>5
    <3>2. h[S] <= h[S]
      BY <1>5
    <3>. QED BY <3>1, <3>2
  <2>2. SUBSET R \subseteq Q
    <3>. HIDE DEF Q
    <3>. QED BY <2>1, EveryPart
  <2>. QED BY <2>2
<1>8. ASSUME NEW S \in SUBSET R, NEW x \in R \ S PROVE Total(w, S \cup {x}) = Total(w, S) + w[x]
  <2>1. (S \cup {x}) \ {x} = S /\ S \cup {x} \in SUBSET R
    OBVIOUS
  <2>2. h[S \cup {x}] = w[x] + h[S]
    BY <1>6, <2>1
  <2>3. h[S] \in Nat /\ w[x] \in Nat
    BY <1>5
  <2>. QED BY <1>2, <2>1, <2>2, <2>3
<1>9. \A S \in SUBSET R : \A T \in SUBSET S : T \in SUBSET R
  OBVIOUS
<1>. QED BY <1>2, <1>3, <1>5, <1>7, <1>8, <1>9

(*****************************************************************************)
(* The scan of a tree that nobody changes: what was counted is in the tree,  *)
(* once, and the names left to read are of inodes that are known or new.     *)
(*****************************************************************************)

\* While nobody changes the tree, it is one of those that a scan can find.
Fixed ==
    /\ names \in Trees /\ blocks \in Blocks /\ kept = Entry /\ unsure = {}
    /\ issues = FALSE /\ result # "partial"

\* The walk stays in the tree: what it opens, or is to open, was counted.
Walked ==
    /\ counted \subseteq Reachable
    /\ \A n \in Names, d \in Subdirectories :
          <<n, d>> \in opening => d \in counted /\ names[Root][n] = d
    /\ \A d \in Directories, n \in Names :
          Left(d, n) => d \in counted /\ names[d][n] # NoEntry

\* An inode that was counted and has a name that is not read yet is known.
Unread(d, n) == Left(d, n) \/ IsOpening(d) \/ d \notin counted
Once ==
    /\ seen = {i \in counted : Tracked(i)}
    /\ \A d \in Directories, n \in Names :
          Unread(d, n) /\ names[d][n] \in counted => names[d][n] \in seen

\* The size is that of what was counted, and there is none if it is too large.
Exact ==
    /\ bytes = Total(blocks, counted) /\ bytes <= MaxBytes
    /\ result = "unavailable" => Total(blocks, Reachable) > MaxBytes

Undisturbed == Fixed /\ Walked /\ Once /\ Exact

ExactInv ==
    /\ changes \in Nat /\ changes <= MaxChanges
    /\ changes = MaxChanges => Undisturbed

\* What can be reached is in the tree, and is the least that has the root and what
\* is in the directories that it has.
LEMMA TreeIs ==
    ASSUME names \in Trees
    PROVE  /\ Reachable \subseteq Inodes /\ Root \in Reachable
           /\ \A d \in Reachable \cap Directories, n \in Names :
                 names[d][n] \in Reachable \cup {NoEntry}
           /\ \A set : Root \in set /\ (\A d \in set \cap Directories, n \in Names :
                                           names[d][n] \in set \cup {NoEntry})
                       => Reachable \subseteq set
<1>. USE DiskUsageAssumption
<1>1. /\ names \in [Directories -> [Names -> Inodes \cup {NoEntry}]]
      /\ \A d \in Subdirectories, n \in Names : names[d][n] \notin Directories
  BY DEF Trees
<1>2. \A d \in Directories : In(d) \subseteq Inodes
  BY <1>1 DEF In
<1>3. Root \in Directories /\ Directories \subseteq Inodes
  BY DEF Directories, Inodes
<1>4. Reachable \subseteq Inodes /\ Root \in Reachable
  BY <1>2, <1>3 DEF Reachable
<1>5. ASSUME NEW d \in Reachable \cap Directories, NEW n \in Names
      PROVE  names[d][n] \in Reachable \cup {NoEntry}
  <2>1. names[d][n] \in In(d) \cup {NoEntry}
    BY DEF In
  <2>2. \A e \in Subdirectories : In(e) \cap Directories = {}
    BY <1>1 DEF In
  <2>3. d = Root \/ d \in In(Root) \cap Directories
    BY <2>2 DEF Reachable, Directories
  <2>. QED BY <2>1, <2>3 DEF Reachable
<1>6. ASSUME NEW set, Root \in set,
             \A d \in set \cap Directories, n \in Names : names[d][n] \in set \cup {NoEntry}
      PROVE  Reachable \subseteq set
  <2>1. \A d \in set \cap Directories : In(d) \subseteq set
    BY <1>6 DEF In
  <2>2. In(Root) \subseteq set
    BY <1>3, <1>6, <2>1
  <2>. QED BY <1>6, <2>1, <2>2 DEF Reachable
<1>. QED BY <1>4, <1>5, <1>6

\* Two elements are two.
LEMMA TwoAreTwo == ASSUME NEW a, NEW b, a # b PROVE Cardinality({a, b}) = 2
<1>1. IsFiniteSet({a}) /\ Cardinality({a}) = 1 /\ b \notin {a} /\ {a, b} = {a} \cup {b}
  BY FS_Singleton
<1>. QED BY <1>1, FS_AddElement

\* An inode with two names is remembered.
LEMMA LinkedTwice ==
    ASSUME NEW d \in Directories, NEW n \in Names, NEW e \in Directories, NEW m \in Names,
           ~(d = e /\ n = m), names[d][n] = names[e][m]
    PROVE  Tracked(names[d][n])
<1>. DEFINE i == names[d][n]
            D == {x \in Entry : names[x[1]][x[2]] = i}
<1>1. {<<d, n>>, <<e, m>>} \in SUBSET D
  BY DEF Entry
<1>2. Cardinality({<<d, n>>, <<e, m>>}) = 2
  <2>1. <<d, n>> # <<e, m>>
    OBVIOUS
  <2>. QED BY <2>1, TwoAreTwo
<1>3. IsFiniteSet(Directories)
  BY DiskUsageAssumption, FS_AddElement DEF Directories
<1>4. IsFiniteSet(Entry)
  BY <1>3, DiskUsageAssumption, FS_Product DEF Entry
<1>5. IsFiniteSet(D) /\ Cardinality(D) \in Nat
  BY <1>4, FS_Subset, FS_CardinalityType
<1>6. Cardinality({<<d, n>>, <<e, m>>}) <= Cardinality(D)
  BY <1>1, <1>5, FS_Subset
<1>7. Links(i) = Cardinality(D)
  BY DEF Links
<1>. QED BY <1>2, <1>5, <1>6, <1>7 DEF Tracked

\* What the sizes of the inodes of a tree add up to.
LEMMA Weighs ==
    ASSUME blocks \in Blocks
    PROVE  /\ Total(blocks, {}) = 0
           /\ \A S \in SUBSET Inodes : Total(blocks, S) \in Nat
           /\ \A S \in SUBSET Inodes : \A i \in Inodes \ S :
                 Total(blocks, S \cup {i}) = Total(blocks, S) + blocks[i]
           /\ \A S \in SUBSET Inodes : \A T \in SUBSET S :
                 Total(blocks, T) <= Total(blocks, S)
<1>1. IsFiniteSet(Directories)
  BY DiskUsageAssumption, FS_AddElement DEF Directories
<1>2. IsFiniteSet(Inodes)
  BY <1>1, DiskUsageAssumption, FS_Union DEF Inodes
<1>3. blocks \in [Inodes -> Nat]
  BY DiskUsageAssumption DEF Blocks
<1>. QED BY <1>2, <1>3, SumsOfParts

\* What is added is new, and so the size stays that of what was counted.
LEMMA AddIsExact ==
    ASSUME Fixed, Walked, Exact, NEW i \in Reachable, i \notin counted, Add(i)
    PROVE  /\ bytes' = Total(blocks, counted') /\ bytes' <= MaxBytes
           /\ counted' = counted \cup {i} /\ counted' \subseteq Reachable
<1>1. counted \in SUBSET Inodes /\ i \in Inodes \ counted
  BY TreeIs DEF Fixed, Walked
<1>2. Total(blocks, counted \cup {i}) = Total(blocks, counted) + blocks[i]
  BY <1>1, Weighs DEF Fixed
<1>. QED BY <1>2 DEF Add, Exact, Walked

\* A sum that cannot be represented is less than that of the tree.
LEMMA OverflowIsExact ==
    ASSUME Fixed, Walked, Exact, NEW i \in Reachable, i \notin counted, Overflow(i)
    PROVE  Total(blocks, Reachable) > MaxBytes
<1>1. counted \in SUBSET Inodes /\ i \in Inodes \ counted /\ Reachable \in SUBSET Inodes
  BY TreeIs DEF Fixed, Walked
<1>2. Total(blocks, counted \cup {i}) = Total(blocks, counted) + blocks[i]
  BY <1>1, Weighs DEF Fixed
<1>3. counted \cup {i} \in SUBSET Reachable
  BY DEF Walked
<1>4. Total(blocks, counted \cup {i}) <= Total(blocks, Reachable)
  BY <1>1, <1>3, Weighs DEF Fixed
<1>5. Total(blocks, counted \cup {i}) \in Nat /\ Total(blocks, Reachable) \in Nat
  BY <1>1, Weighs DEF Fixed
<1>6. bytes + blocks[i] > MaxBytes /\ bytes = Total(blocks, counted)
  BY DEF Overflow, Exact
<1>7. MaxBytes \in Nat
  BY DiskUsageAssumption
<1>. QED BY <1>2, <1>4, <1>5, <1>6, <1>7

\* A step that leaves the tree alone leaves what can be reached, and is remembered.
LEMMA TreeRemains ==
    ASSUME names' = names
    PROVE  Reachable' = Reachable /\ \A j : Tracked(j)' = Tracked(j)
BY DEF Reachable, In, Tracked, Links

\* The end of a scan whose sum cannot be represented.
LEMMA OverflowStays ==
    ASSUME Undisturbed, NEW i \in Reachable, i \notin counted, Overflow(i)
    PROVE  Undisturbed'
<1>1. /\ result' = "unavailable" /\ frames' = <<>> /\ opening' = {}
      /\ UNCHANGED <<unsure, seen, bytes, issues, counted, names, blocks, kept>>
  BY DEF Overflow, tree
<1>2. \A d, n : ~Left(d, n)' /\ ~IsOpening(d)'
  BY <1>1, LeftIs DEF Left, IsOpening
<1>3. Total(blocks, Reachable) > MaxBytes
  BY OverflowIsExact DEF Undisturbed
<1>4. Reachable' = Reachable /\ \A j : Tracked(j)' = Tracked(j)
  BY <1>1, TreeRemains
<1>5. Fixed'
  BY <1>1 DEF Undisturbed, Fixed, Blocks
<1>6. Walked' /\ Exact'
  BY <1>1, <1>2, <1>3, <1>4 DEF Undisturbed, Walked, Exact
<1>7. Once'
  BY <1>1, <1>2, <1>4 DEF Undisturbed, Once, Unread
<1>. QED BY <1>5, <1>6, <1>7 DEF Undisturbed

\* A step that leaves the tree and what was counted alone keeps the size exact.
LEMMA NothingCounted ==
    ASSUME Undisturbed, UNCHANGED <<names, blocks, kept, counted, bytes, seen>>,
           unsure' = {}, issues' = FALSE, result' = result \/ result' = "complete"
    PROVE  /\ Fixed' /\ Exact' /\ Reachable' = Reachable /\ seen' = {i \in counted' : Tracked(i)'}
<1>1. Reachable' = Reachable /\ \A j : Tracked(j)' = Tracked(j)
  BY TreeRemains
<1>2. Fixed'
  BY DEF Undisturbed, Fixed, Blocks
<1>3. Exact'
  BY <1>1 DEF Undisturbed, Exact
<1>. QED BY <1>1, <1>2, <1>3 DEF Undisturbed, Once

\* The root is counted before anything is read.
LEMMA OpenRootExact == ASSUME ScanInv, Undisturbed, OpenRoot PROVE Undisturbed'
<1>1. counted = {} /\ frames = <<>> /\ opening = {} /\ Root \in Reachable
  BY DEF OpenRoot, ScanInv, StackOK, Reachable
<1>2. CASE Overflow(Root)
  BY <1>1, <1>2, OverflowStays
<1>3. CASE ~Overflow(Root)
  <2>1. /\ Add(Root) /\ result' = "scanning" /\ frames' = <<Stream(Root)>>
        /\ UNCHANGED <<unsure, opening, issues, names, blocks, kept>>
    BY <1>3 DEF OpenRoot, tree
  <2>2. /\ bytes' = Total(blocks, counted') /\ bytes' <= MaxBytes
        /\ counted' = {Root} /\ counted' \subseteq Reachable
    BY <1>1, <2>1, AddIsExact DEF Undisturbed
  <2>3. Reachable' = Reachable /\ \A j : Tracked(j)' = Tracked(j)
    BY <2>1, TreeRemains
  <2>4. seen' = {Root} /\ Tracked(Root)
    <3>1. Tracked(Root)
      BY DEF Tracked, Directories
    <3>2. seen = {}
      BY <1>1 DEF Undisturbed, Once
    <3>. QED BY <2>1, <3>1, <3>2 DEF Add
  <2>5. \A d, n : Left(d, n)' => d = Root /\ n \in Names /\ names[Root][n] # NoEntry
    <3>1. Stream(Root) = Frame(Root, {n \in Names : names[Root][n] # NoEntry})
      BY DEF Stream, Frame
    <3>. QED BY <2>1, <3>1, LeftIs DEF Left
  <2>6. Fixed'
    BY <2>1 DEF Undisturbed, Fixed, Blocks
  <2>7. Walked'
    BY <1>1, <2>1, <2>2, <2>3, <2>5 DEF Walked
  <2>8. Once'
    BY <2>1, <2>2, <2>3, <2>4 DEF Once
  <2>9. Exact'
    BY <2>1, <2>2, <2>3 DEF Exact
  <2>. QED BY <2>6, <2>7, <2>8, <2>9 DEF Undisturbed
<1>. QED BY <1>2, <1>3

\* A name that is read is one of the tree, and counted unless it is known.
LEMMA ReadEntryExact == ASSUME ScanInv, Undisturbed, ReadEntry PROVE Undisturbed'
<1>. USE DEF Scanning, NothingOpen, tree
<1>1. PICK n, top, i :
        /\ n \in Names /\ top = Top.dir /\ i = names[top][n] /\ MayBeListed(n)
        /\ \/ /\ i = NoEntry \/ SeenBefore(i)
              /\ Lists(n) /\ issues' = Noticed(i # NoEntry)
              /\ UNCHANGED <<opening, seen, bytes, result, counted, tree>>
           \/ /\ i # NoEntry /\ Add(i)
              /\ Lists(n) /\ opening' = {<<n, d>> : d \in {i} \cap Directories}
              /\ UNCHANGED <<issues, result, tree>>
           \/ i # NoEntry /\ Overflow(i)
  BY DEF ReadEntry
<1>2. frames # <<>> /\ opening = {} /\ result = "scanning"
  BY DEF ReadEntry
<1>3. n \in Top.left
  BY <1>1 DEF MayBeListed, Undisturbed, Fixed
<1>4. top \in Directories /\ Left(top, n)
  <2>1. ASSUME NEW set \in SUBSET Names, frames = <<Frame(Root, set)>>
        PROVE  top \in Directories /\ Left(top, n)
    BY <1>1, <1>3, <2>1, TopIs, LeftIs, FrameIs DEF Left, Directories
  <2>2. ASSUME NEW d \in Subdirectories, NEW set \in SUBSET Names, NEW more \in SUBSET Names,
               frames = <<Frame(d, set), Frame(Root, more)>>
        PROVE  top \in Directories /\ Left(top, n)
    <3>1. Top = Frame(d, set)
      BY <2>2, TopIs
    <3>2. top = d /\ n \in set
      BY <1>1, <1>3, <3>1, FrameIs
    <3>. QED BY <2>2, <3>2, LeftIs DEF Left, Directories
  <2>. QED BY <1>2, <2>1, <2>2 DEF ScanInv, StackOK, Stacked, RootOpen, ChildOpen
<1>5. top \in counted /\ i # NoEntry /\ i \in Reachable
  <2>1. top \in counted /\ i # NoEntry /\ counted \subseteq Reachable
    BY <1>1, <1>4 DEF Undisturbed, Walked
  <2>. QED BY <1>1, <1>4, <2>1, TreeIs DEF Undisturbed, Fixed
<1>6. ~SeenBefore(i) => i \notin counted
  BY <1>1, <1>4 DEF Undisturbed, Once, SeenBefore, Unread
<1>7. CASE Overflow(i)
  BY <1>5, <1>6, <1>7, OverflowStays DEF Overflow
<1>8. Lists(n) => /\ unsure' = {}
                  /\ top \in Subdirectories \/ (top = Root /\ RootOpen')
                  /\ \A d, m : Left(d, m)' <=> Left(d, m) /\ ~(d = top /\ m = n)
  <2>1. Lists(n) => unsure' = {}
    BY DEF Lists, Undisturbed, Fixed
  <2>. QED BY <1>1, <1>2, <2>1, ListsNext DEF ScanInv, StackOK
<1>9. CASE /\ SeenBefore(i) /\ issues' = Noticed(i # NoEntry) /\ Lists(n)
           /\ UNCHANGED <<opening, seen, bytes, result, counted, tree>>
  <2>1. issues' = FALSE
    BY <1>5, <1>9 DEF Noticed, Undisturbed, Fixed
  <2>2. /\ Fixed' /\ Exact' /\ Reachable' = Reachable
        /\ seen' = {j \in counted' : Tracked(j)'}
    BY <1>8, <1>9, <2>1, NothingCounted
  <2>3. Walked'
    BY <1>2, <1>8, <1>9, <2>2 DEF Undisturbed, Walked
  <2>4. \A d, m : Unread(d, m)' => Unread(d, m)
    BY <1>2, <1>8, <1>9 DEF Unread, IsOpening
  <2>5. Once'
    BY <1>9, <2>2, <2>4 DEF Undisturbed, Once
  <2>. QED BY <2>2, <2>3, <2>5 DEF Undisturbed
<1>10. CASE /\ Add(i) /\ opening' = {<<n, d>> : d \in {i} \cap Directories} /\ Lists(n)
            /\ UNCHANGED <<issues, result, tree>>
  <2>1. i \notin counted
    BY <1>6, <1>10 DEF Add
  <2>2. /\ bytes' = Total(blocks, counted') /\ bytes' <= MaxBytes
        /\ counted' = counted \cup {i} /\ counted' \subseteq Reachable
    BY <1>5, <1>10, <2>1, AddIsExact DEF Undisturbed
  <2>3. Reachable' = Reachable /\ \A j : Tracked(j)' = Tracked(j)
    BY <1>10, TreeRemains
  <2>4. seen' = {j \in counted' : Tracked(j)} /\ seen \subseteq seen'
    BY <1>10, <2>2 DEF Add, Undisturbed, Once
  <2>5. Fixed'
    BY <1>8, <1>10 DEF Undisturbed, Fixed, Blocks
  <2>6. Exact'
    BY <1>10, <2>2, <2>3 DEF Undisturbed, Exact
  <2>7. i \in Directories => top = Root
    <3>1. \A d \in Subdirectories : names[d][n] \notin Directories
      BY <1>1 DEF ScanInv, TreeOK
    <3>. QED BY <1>1, <1>4, <3>1 DEF Directories
  <2>8. Walked'
    <3>1. \A m \in Names, d \in Subdirectories :
             <<m, d>> \in opening' => m = n /\ d = i /\ i \in Directories
      BY <1>10
    <3>2. \A m \in Names, d \in Subdirectories :
             <<m, d>> \in opening' => d \in counted' /\ names'[Root][m] = d
      BY <1>1, <1>10, <2>2, <2>7, <3>1
    <3>3. \A d \in Directories, m \in Names :
             Left(d, m)' => d \in counted' /\ names'[d][m] # NoEntry
      BY <1>8, <1>10, <2>2 DEF Undisturbed, Walked
    <3>. QED BY <2>2, <2>3, <3>2, <3>3 DEF Walked
  <2>9. ASSUME NEW d \in Directories, NEW m \in Names, Unread(d, m)', names[d][m] \in counted'
        PROVE  names[d][m] \in seen'
    <3>1. \A e, k : <<e, k>> \in opening' => k = i
      BY <1>10
    <3>2. Unread(d, m)
      BY <1>2, <1>8, <1>10, <2>1, <2>2, <2>9, <3>1 DEF Unread, IsOpening
    <3>3. ~(d = top /\ m = n)
      <4>1. ~IsOpening(top)' /\ top \in counted'
        BY <1>5, <2>1, <2>2, <3>1 DEF IsOpening
      <4>2. ~Left(top, n)'
        BY <1>8, <1>10
      <4>3. ~Unread(top, n)'
        BY <4>1, <4>2 DEF Unread
      <4>. QED BY <2>9, <4>3
    <3>4. CASE names[d][m] = i
      <4>1. Tracked(i)
        BY <1>1, <1>4, <3>3, <3>4, LinkedTwice
      <4>. QED BY <2>2, <2>4, <3>4, <4>1
    <3>5. CASE names[d][m] # i
      BY <2>2, <2>4, <2>9, <3>2, <3>5 DEF Undisturbed, Once
    <3>. QED BY <3>4, <3>5
  <2>10. Once'
    BY <1>10, <2>3, <2>4, <2>9 DEF Once
  <2>. QED BY <2>5, <2>6, <2>8, <2>10 DEF Undisturbed
<1>. QED BY <1>1, <1>5, <1>7, <1>9, <1>10

\* A directory is opened after it was counted, and before any name in it is read.
LEMMA OpenChildExact == ASSUME ScanInv, Undisturbed, OpenChild PROVE Undisturbed'
<1>1. PICK n \in Names, d \in Subdirectories :
        LET now == names[Top.dir][n] IN
          /\ <<n, d>> \in opening
          /\ issues' = Noticed(StillThere(now, d))
          /\ frames' = IF StillThere(now, d) THEN <<Stream(now)>> \o frames ELSE frames
  BY DEF OpenChild
<1>2. /\ result = "scanning" /\ opening = {<<n, d>>} /\ RootOpen /\ opening' = {}
      /\ UNCHANGED <<unsure, seen, bytes, result, counted, names, blocks, kept>>
  BY <1>1 DEF OpenChild, tree, ScanInv, StackOK
<1>3. Top.dir = Root
  BY <1>2, TopIs, FrameIs DEF RootOpen
<1>4. d \in counted /\ names[Root][n] = d
  BY <1>1 DEF Undisturbed, Walked
<1>5. issues' = FALSE /\ frames' = <<Stream(d)>> \o frames
  BY <1>1, <1>3, <1>4 DEF Noticed, StillThere, Undisturbed, Fixed
<1>6. \A e, m : Left(e, m)' <=>
         Left(e, m) \/ (e = d /\ m \in Names /\ names[d][m] # NoEntry)
  BY <1>2, <1>5, PushedNext
<1>7. /\ Fixed' /\ Exact' /\ Reachable' = Reachable
      /\ seen' = {i \in counted' : Tracked(i)'}
  <2>1. unsure' = {}
    BY <1>2 DEF Undisturbed, Fixed
  <2>. QED BY <1>2, <1>5, <2>1, NothingCounted
<1>8. Walked'
  BY <1>2, <1>4, <1>6, <1>7 DEF Undisturbed, Walked
<1>9. \A e, m : Unread(e, m)' => Unread(e, m)
  <2>1. IsOpening(d) /\ \A e : ~IsOpening(e)'
    BY <1>2 DEF IsOpening
  <2>. QED BY <1>2, <1>6, <2>1 DEF Unread
<1>10. Once'
  BY <1>2, <1>7, <1>9 DEF Undisturbed, Once
<1>. QED BY <1>7, <1>8, <1>10 DEF Undisturbed

\* Nothing is counted when a directory is closed.
LEMMA CloseDirectoryExact == ASSUME ScanInv, Undisturbed, CloseDirectory PROVE Undisturbed'
<1>1. /\ result = "scanning" /\ opening = {} /\ frames # <<>>
      /\ frames' = Tail(frames) /\ unsure' = {}
      /\ UNCHANGED <<opening, seen, bytes, issues, result, counted, names, blocks, kept>>
  BY DEF CloseDirectory, Closed, Scanning, NothingOpen, tree, Undisturbed, Fixed
<1>2. issues' = FALSE
  BY <1>1 DEF Undisturbed, Fixed
<1>3. /\ Fixed' /\ Exact' /\ Reachable' = Reachable
      /\ seen' = {i \in counted' : Tracked(i)'}
  BY <1>1, <1>2, NothingCounted
<1>4. \A d, m : Left(d, m)' => Left(d, m)
  BY <1>1, ClosedNext DEF ScanInv, StackOK
<1>5. Walked'
  BY <1>1, <1>3, <1>4 DEF Undisturbed, Walked
<1>6. \A d, m : Unread(d, m)' => Unread(d, m)
  BY <1>1, <1>4 DEF Unread, IsOpening
<1>7. Once'
  BY <1>1, <1>3, <1>6 DEF Undisturbed, Once
<1>. QED BY <1>3, <1>5, <1>7 DEF Undisturbed

\* A scan that nobody disturbed is complete.
LEMMA FinishExact == ASSUME ScanInv, Undisturbed, Finish PROVE Undisturbed'
<1>1. /\ result = "scanning" /\ opening = {} /\ frames = <<>>
      /\ result' = IF issues THEN "partial" ELSE "complete"
      /\ UNCHANGED <<frames, unsure, opening, seen, bytes, issues, counted, names, blocks, kept>>
  BY DEF Finish, NothingOpen, tree
<1>2. issues' = FALSE /\ result' = "complete" /\ unsure' = {}
  BY <1>1 DEF Undisturbed, Fixed
<1>3. /\ Fixed' /\ Exact' /\ Reachable' = Reachable
      /\ seen' = {i \in counted' : Tracked(i)'}
  BY <1>1, <1>2, NothingCounted
<1>4. \A d, m : Left(d, m)' = Left(d, m) /\ Unread(d, m)' = Unread(d, m)
  BY <1>1 DEF Left, Unread, IsOpening
<1>5. Walked' /\ Once'
  BY <1>1, <1>3, <1>4 DEF Undisturbed, Walked, Once
<1>. QED BY <1>3, <1>5 DEF Undisturbed

\* The scan starts in a tree that is as it will be found.
LEMMA DiskInitExact == DiskInit => ExactInv
<1>. SUFFICES ASSUME DiskInit PROVE ExactInv
  OBVIOUS
<1>1. \A d, n : ~Left(d, n)
  BY LeftIs DEF DiskInit, Left
<1>2. Total(blocks, {}) = 0
  BY Weighs DEF DiskInit
<1>3. Fixed /\ Exact
  BY <1>2, DiskUsageAssumption DEF DiskInit, Fixed, Exact
<1>4. Walked /\ Once
  BY <1>1 DEF DiskInit, Walked, Once
<1>. QED BY <1>3, <1>4, DiskUsageAssumption DEF DiskInit, ExactInv, Undisturbed

\* Every step, and none, keeps the size exact; a change ends what is promised.
LEMMA DiskNextExact == ScanInv /\ ExactInv /\ [DiskNext]_scanVars => ExactInv'
<1>. SUFFICES ASSUME ScanInv, ExactInv, [DiskNext]_scanVars PROVE ExactInv'
  OBVIOUS
<1>1. CASE UNCHANGED scanVars
  <2>1. Reachable' = Reachable /\ \A j : Tracked(j)' = Tracked(j)
    BY <1>1, TreeRemains DEF scanVars
  <2>. QED
    BY <1>1, <2>1 DEF scanVars, ExactInv, Undisturbed, Fixed, Walked, Once, Exact, Blocks,
       Left, Unread, IsOpening
<1>2. CASE ScanStep
  <2>1. changes' = changes
    BY <1>2 DEF ScanStep, OpenRoot, ReadEntry, OpenChild, CloseDirectory, Finish, Overflow, tree
  <2>2. Undisturbed => Undisturbed'
    BY <1>2, OpenRootExact, ReadEntryExact, OpenChildExact, CloseDirectoryExact, FinishExact
    DEF ScanStep
  <2>. QED BY <2>1, <2>2 DEF ExactInv
<1>3. CASE ~ScanStep /\ DiskNext
  <2>1. changes > 0 /\ changes' = changes - 1
    BY <1>3 DEF DiskNext, RootUnreadable, Unreadable, Change, MayChange
  <2>2. changes \in Nat /\ changes <= MaxChanges /\ MaxChanges \in Nat
    BY DiskUsageAssumption DEF ExactInv
  <2>3. changes' \in Nat /\ changes' <= MaxChanges /\ changes' # MaxChanges
    BY <2>1, <2>2
  <2>. QED BY <2>3 DEF ExactInv
<1>. QED BY <1>1, <1>2, <1>3

\* A tree that nobody changes is measured exactly: each inode once, however many
\* names it has, and a sum that cannot be represented is unavailable and never a
\* smaller number (disk_usage.rs scan_with_hook and Accumulator::add).
THEOREM DiskScanIsExact == DiskSpec => []UndisturbedScanIsExact
<1>1. DiskSpec => []ExactInv
  BY DiskInitExact, DiskNextExact, DiskInvariant, PTL, DiskInitInv, DiskNextInv DEF DiskSpec
<1>2. ASSUME ScanInv, ExactInv, CompleteScanMissedNothing PROVE UndisturbedScanIsExact
  <2>. SUFFICES ASSUME changes = MaxChanges, result \in {"partial", "complete", "unavailable"}
                PROVE  IF Occupied(Reachable) <= MaxBytes
                       THEN result = "complete" /\ bytes = Occupied(Reachable)
                       ELSE result = "unavailable"
    BY DEF UndisturbedScanIsExact
  <2>1. Occupied(Reachable) = Total(blocks, Reachable)
    BY DEF Occupied, Total
  <2>2. Undisturbed
    BY <1>2 DEF ExactInv
  <2>3. result \in {"complete", "unavailable"}
    BY <2>2 DEF Undisturbed, Fixed
  <2>4. CASE result = "complete"
    <3>1. /\ Root \in counted
          /\ \A d \in counted \cap Directories, n \in Names :
                names[d][n] \in counted \cup {NoEntry}
      BY <1>2, <2>2, <2>4 DEF CompleteScanMissedNothing, Undisturbed, Fixed, Entry
    <3>2. Reachable \subseteq counted
      BY <2>2, <3>1, TreeIs DEF Undisturbed, Fixed
    <3>3. counted = Reachable
      BY <2>2, <3>2 DEF Undisturbed, Walked
    <3>. QED BY <2>1, <2>2, <2>4, <3>3 DEF Undisturbed, Exact
  <2>5. CASE result = "unavailable"
    <3>1. Total(blocks, Reachable) > MaxBytes
      BY <2>2, <2>5 DEF Undisturbed, Exact
    <3>2. Total(blocks, Reachable) \in Nat /\ MaxBytes \in Nat
      BY <2>2, TreeIs, Weighs, DiskUsageAssumption DEF Undisturbed, Fixed
    <3>. QED BY <2>1, <2>5, <3>1, <3>2
  <2>. QED BY <2>3, <2>4, <2>5
<1>. QED BY <1>1, <1>2, DiskInvariant, DiskScanMissesNothing, PTL

(*****************************************************************************)
(* The report of `trees status`.  Every query sees the tables that the first *)
(* one pinned.                                                               *)
(*****************************************************************************)

\* The rows fit together: only a workspace that is there is claimed, and only one
\* that is there, or will be, has a lease.
WellFormed(t) ==
    /\ t \in [state : [Spaces -> States], claims : SUBSET Spaces, leases : SUBSET Spaces]
    /\ \A w \in t.claims : t.state[w] \in {"ready", "degraded"}
    /\ \A w \in t.leases : t.state[w] \in {"creating", "ready", "degraded"}

\* What each query returned is what the pinned tables say.
AtMoment(m) == {<<w, m.state[w]>> : w \in Listed(m)}
ReadSoFar ==
    /\ query \in {"rows", "claims", "leases", "load_target"} =>
          aim = IF Located(pinned) = "none" THEN Nowhere
                ELSE [row |-> Located(pinned), state |-> pinned.state[Located(pinned)],
                      claim |-> FALSE, lease |-> FALSE]
    /\ query \in {"claims", "leases", "load_target", "boundaries", "done"} =>
          rows = AtMoment(pinned)
    /\ query \in {"leases", "load_target", "boundaries", "done"} =>
          claimants = pinned.claims \cap Listed(pinned)
    /\ query \in {"load_target", "boundaries", "done"} =>
          leased = pinned.leases \cap Listed(pinned)
    /\ query \in {"boundaries", "done"} =>
          aim = IF Located(pinned) = "none" THEN Nowhere
                ELSE [row |-> Located(pinned), state |-> pinned.state[Located(pinned)],
                      claim |-> Located(pinned) \in pinned.claims,
                      lease |-> Located(pinned) \in pinned.leases]
    /\ query = "done" =>
          edges = IF Located(pinned) = "none" THEN {}
                  ELSE {w \in Spaces : pinned.state[w] # "none"}

StatusInv ==
    /\ query \in {"target", "rows", "claims", "leases", "load_target", "boundaries", "done"}
    /\ WellFormed(tables) /\ tables \in moments
    /\ query = "target" => pinned = <<>>
    /\ query # "target" => pinned \in moments /\ WellFormed(pinned)
    /\ ReadSoFar

\* The tables fit together to begin with, and nothing is read.
LEMMA StatusInitInv == StatusInit => StatusInv
  BY DEF StatusInit, StatusInv, InitialTables, WellFormed, ReadSoFar, States

\* Tables that fit together are a record, which is not the empty sequence.
LEMMA TablesAreNotEmpty ==
    ASSUME NEW t, WellFormed(t)
    PROVE  t # <<>>
<1>1. DOMAIN t = {"state", "claims", "leases"} /\ DOMAIN <<>> = {}
  BY DEF WellFormed
<1>. QED BY <1>1

\* A commit beside the report leaves what it has read, and the moments that were.
LEMMA CommitInv ==
    ASSUME StatusInv, NEW new, Commit(new), WellFormed(new)
    PROVE  StatusInv'
<1>1. \A m : Located(m)' = Located(m) /\ Listed(m)' = Listed(m) /\ AtMoment(m)' = AtMoment(m)
  BY DEF Commit, Located, Listed, AtMoment
<1>. QED BY <1>1 DEF StatusInv, Commit, ReadSoFar

\* Every transaction of the lifecycle keeps the rows that fit together.
LEMMA CommitsFit ==
    ASSUME WellFormed(tables), NEW w \in Spaces,
           \/ Register(w) \/ BeginOperation(w) \/ Observed(w)
           \/ EndClaim(w) \/ EndRelease(w) \/ EndRemoval(w)
    PROVE  \E new : Commit(new) /\ WellFormed(new)
<1>. USE DEF WellFormed, Existing, States
<1>1. CASE Register(w)
  <2>. DEFINE new == [tables EXCEPT !.state[w] = "creating", !.leases = @ \cup {w}]
  <2>1. /\ new \in [state : [Spaces -> States], claims : SUBSET Spaces, leases : SUBSET Spaces]
        /\ new.state = [tables.state EXCEPT ![w] = "creating"] /\ new.claims = tables.claims
        /\ new.leases = tables.leases \cup {w}
    OBVIOUS
  <2>2. WellFormed(new)
    BY <1>1, <2>1 DEF Register
  <2>. QED BY <1>1, <2>2 DEF Register
<1>2. CASE BeginOperation(w)
  BY <1>2 DEF BeginOperation
<1>3. CASE Observed(w)
  BY <1>3 DEF Observed
<1>4. CASE EndClaim(w)
  BY <1>4 DEF EndClaim
<1>5. CASE EndRelease(w)
  <2>. DEFINE new == [tables EXCEPT !.leases = @ \ {w}, !.claims = @ \ {w}]
  <2>1. /\ new \in [state : [Spaces -> States], claims : SUBSET Spaces, leases : SUBSET Spaces]
        /\ new.state = tables.state /\ new.claims = tables.claims \ {w}
        /\ new.leases = tables.leases \ {w}
    OBVIOUS
  <2>2. WellFormed(new)
    BY <2>1
  <2>. QED BY <1>5, <2>2 DEF EndRelease
<1>6. CASE EndRemoval(w)
  BY <1>6 DEF EndRemoval
<1>. QED BY <1>1, <1>2, <1>3, <1>4, <1>5, <1>6

\* A query sees the pinned tables, and pins them if it is the first.
LEMMA QuerySees ==
    ASSUME StatusInv, NEW name, NEW next, Query(name, next)
    PROVE  /\ pinned' = Seen /\ Seen \in moments /\ WellFormed(Seen)
           /\ query # "target" => Seen = pinned
           /\ UNCHANGED <<tables, moments>>
           /\ \A m : Located(m)' = Located(m) /\ Listed(m)' = Listed(m)
                     /\ AtMoment(m)' = AtMoment(m)
<1>1. query # "target" => Seen = pinned
  BY TablesAreNotEmpty DEF StatusInv, Seen
<1>2. query = "target" => Seen = tables
  BY DEF StatusInv, Seen
<1>3. \A m : Located(m)' = Located(m) /\ Listed(m)' = Listed(m)
             /\ AtMoment(m)' = AtMoment(m)
  BY DEF Query, Located, Listed, AtMoment
<1>. QED BY <1>1, <1>2, <1>3 DEF Query, StatusInv

\* A query adds what the pinned tables say to what was read.
LEMMA QueryInv ==
    ASSUME StatusInv, \/ SelectTarget \/ ListRows \/ ListClaims \/ ListLeases \/ LoadTarget
                      \/ ListBoundaries
    PROVE  StatusInv'
<1>1. CASE SelectTarget
  <2>1. Query("target", "rows")
    BY <1>1 DEF SelectTarget
  <2>2. aim' = IF Located(Seen) = "none" THEN Nowhere
               ELSE [row |-> Located(Seen), state |-> Seen.state[Located(Seen)],
                     claim |-> FALSE, lease |-> FALSE]
    BY <1>1 DEF SelectTarget
  <2>3. /\ pinned' = Seen /\ Seen \in moments /\ WellFormed(Seen) /\ UNCHANGED <<tables, moments>>
        /\ query' = "rows"
        /\ Located(pinned)' = Located(Seen)
    BY <2>1, QuerySees DEF Query
  <2>. QED BY <2>2, <2>3 DEF StatusInv, ReadSoFar
<1>2. CASE ListRows
  <2>1. Query("rows", "claims")
    BY <1>2 DEF ListRows
  <2>. QED BY <1>2, <2>1, QuerySees DEF ListRows, StatusInv, ReadSoFar, Query, AtMoment
<1>3. CASE ListClaims
  <2>1. Query("claims", "leases")
    BY <1>3 DEF ListClaims
  <2>. QED BY <1>3, <2>1, QuerySees DEF ListClaims, StatusInv, ReadSoFar, Query
<1>4. CASE ListLeases
  <2>1. Query("leases", "load_target")
    BY <1>4 DEF ListLeases
  <2>. QED BY <1>4, <2>1, QuerySees DEF ListLeases, StatusInv, ReadSoFar, Query
<1>5. CASE LoadTarget
  <2>1. Query("load_target", "boundaries")
    BY <1>5 DEF LoadTarget
  <2>2. Seen = pinned /\ pinned' = pinned
    BY <2>1, QuerySees DEF Query
  <2>. DEFINE w == Located(pinned)
  <2>3. CASE w = "none"
    BY <1>5, <2>1, <2>2, <2>3, QuerySees
    DEF LoadTarget, StatusInv, ReadSoFar, Query, Nowhere
  <2>4. CASE w # "none"
    <3>1. aim.row = w /\ aim.state = pinned.state[w]
      BY <2>1, <2>4 DEF StatusInv, ReadSoFar, Query
    <3>2. \A r \in rows : r[1] \in Listed(pinned) /\ r[2] = pinned.state[r[1]]
      BY <2>1 DEF StatusInv, ReadSoFar, Query, AtMoment
    <3>3. aim' = [row |-> w, claim |-> w \in pinned.claims, lease |-> w \in pinned.leases,
                  state |-> pinned.state[w]]
      <4>1. CASE view # "pools" /\ \E r \in rows : r[1] = w
        <5>1. (CHOOSE r \in rows : r[1] = w)[2] = pinned.state[w] /\ w \in Listed(pinned)
          BY <3>2, <4>1
        <5>2. claimants = pinned.claims \cap Listed(pinned)
              /\ leased = pinned.leases \cap Listed(pinned)
          BY <2>1 DEF StatusInv, ReadSoFar, Query
        <5>. QED BY <1>5, <2>4, <3>1, <4>1, <5>1, <5>2 DEF LoadTarget
      <4>2. CASE ~(view # "pools" /\ \E r \in rows : r[1] = w)
        BY <1>5, <2>2, <2>4, <3>1, <4>2 DEF LoadTarget
      <4>. QED BY <4>1, <4>2
    <3>. QED
      BY <1>5, <2>1, <2>2, <2>4, <3>3, QuerySees DEF LoadTarget, StatusInv, ReadSoFar, Query
  <2>. QED BY <2>3, <2>4
<1>6. CASE ListBoundaries
  <2>1. Query("boundaries", "done")
    BY <1>6 DEF ListBoundaries
  <2>. QED BY <1>6, <2>1, QuerySees DEF ListBoundaries, StatusInv, ReadSoFar, Query, Nowhere
<1>. QED BY <1>1, <1>2, <1>3, <1>4, <1>5, <1>6

\* Every step, and none, keeps the invariant of the report.
LEMMA StatusInvStep == StatusInv /\ [StatusNext]_statusVars => StatusInv'
<1>1. ASSUME StatusInv, UNCHANGED statusVars PROVE StatusInv'
  <2>1. \A m : Located(m)' = Located(m) /\ Listed(m)' = Listed(m) /\ AtMoment(m)' = AtMoment(m)
    BY <1>1 DEF statusVars, Located, Listed, AtMoment
  <2>. QED BY <1>1, <2>1 DEF StatusInv, statusVars, ReadSoFar
<1>2. ASSUME StatusInv, NEW w \in Spaces,
             \/ Register(w) \/ BeginOperation(w) \/ Observed(w)
             \/ EndClaim(w) \/ EndRelease(w) \/ EndRemoval(w)
      PROVE  StatusInv'
  BY <1>2, CommitInv, CommitsFit DEF StatusInv
<1>. QED BY <1>1, <1>2, QueryInv DEF StatusNext

\* The invariant of a report holds in every state.
THEOREM StatusInvariant == StatusSpec => []StatusInv
  BY StatusInitInv, StatusInvStep, PTL DEF StatusSpec

\* A report is true of one moment since it began, whatever committed between its
\* queries (combined.rs load_with_observer, report.rs load_persisted).
THEOREM StatusIsOfOneMoment == StatusSpec => []ReportIsOfOneMoment
<1>1. ASSUME StatusInv PROVE ReportIsOfOneMoment
  <2>. SUFFICES ASSUME query = "done" PROVE ReportIsOfOneMoment
    BY DEF ReportIsOfOneMoment
  <2>. DEFINE at == AtMoment(pinned)
  <2>1. pinned \in moments /\ WellFormed(pinned) /\ rows = at
        /\ claimants = pinned.claims \cap Listed(pinned)
        /\ leased = pinned.leases \cap Listed(pinned)
    BY <1>1 DEF StatusInv, ReadSoFar
  <2>2. claimants = pinned.claims /\ leased = pinned.leases
    BY <2>1 DEF WellFormed, Listed
  <2>3. IF view = "pools"
        THEN Counts3(rows, claimants, leased) = Counts3(at, pinned.claims, pinned.leases)
        ELSE rows = at /\ claimants = pinned.claims /\ leased = pinned.leases
    BY <2>1, <2>2
  <2>4. aim = IF Located(pinned) = "none" THEN Nowhere
              ELSE [row |-> Located(pinned), state |-> pinned.state[Located(pinned)],
                    claim |-> Located(pinned) \in pinned.claims,
                    lease |-> Located(pinned) \in pinned.leases]
    BY <1>1 DEF StatusInv, ReadSoFar
  <2>5. edges = IF Located(pinned) = "none" THEN {}
                ELSE {w \in Spaces : pinned.state[w] # "none"}
    BY <1>1 DEF StatusInv, ReadSoFar
  <2>. QED BY <2>1, <2>3, <2>4, <2>5 DEF ReportIsOfOneMoment, AtMoment
<1>. QED BY <1>1, StatusInvariant, PTL

(*****************************************************************************)
(* The labels of repositories.  A label is deepened only where it is shared, *)
(* and paths that share one of their labels have the same depth.             *)
(*****************************************************************************)

PathNames == Parts \cup {"/"}

\* A path is a sequence of names, of which the first and only the first is "/".
LEMMA PathFacts ==
    ASSUME NEW p \in Paths
    PROVE  /\ p \in Seq(PathNames) /\ Len(p) \in Nat \ {0}
           /\ p[1] = "/" /\ \A i \in 2..Len(p) : p[i] # "/"
<1>1. PICK n \in 1..MaxParts : \E s \in [1..n -> Parts] : p = <<"/">> \o s
  BY DEF Paths
<1>2. PICK s \in [1..n -> Parts] : p = <<"/">> \o s
  BY <1>1
<1>3. n \in Nat /\ s \in Seq(PathNames) /\ Len(s) = n
  <2>1. n \in Nat /\ s \in [1..n -> PathNames]
    BY <1>2 DEF PathNames
  <2>. QED BY <2>1, SeqDef, LenProperties
<1>4. <<"/">> \in Seq(PathNames) /\ Len(<<"/">>) = 1 /\ <<"/">>[1] = "/"
  BY DEF PathNames
<1>5. /\ p \in Seq(PathNames) /\ Len(p) = 1 + n
      /\ \A i \in 1..1 + n : p[i] = IF i <= 1 THEN <<"/">>[i] ELSE s[i - 1]
  BY <1>2, <1>3, <1>4, ConcatProperties
<1>6. ASSUME NEW i \in 2..Len(p) PROVE p[i] # "/"
  <2>1. p[i] = s[i - 1] /\ i - 1 \in 1..n
    BY <1>3, <1>5, <1>6
  <2>. QED BY <1>2, <2>1, LabelsAssumption
<1>. QED BY <1>3, <1>4, <1>5, <1>6

\* The ends of two paths are equal if they have the same names, from the last on.
LEMMA SuffixFacts ==
    ASSUME NEW p \in Paths, NEW n \in 1..Len(p)
    PROVE  /\ Suffix(p, n) \in Seq(PathNames) /\ Len(Suffix(p, n)) = n
           /\ \A i \in 1..n : Suffix(p, n)[i] = p[Len(p) - n + i]
<1>. DEFINE a == Len(p) - n + 1
            b == Len(p)
<1>1. p \in Seq(PathNames) /\ Len(p) \in Nat \ {0}
  BY PathFacts
<1>2. a \in 1..b /\ b \in Int /\ a \in Int
  BY <1>1
<1>3. \A i \in a..b : p[i] \in PathNames
  BY <1>1, <1>2, ElementOfSeq
<1>4. /\ SubSeq(p, a, b) \in Seq(PathNames)
      /\ Len(SubSeq(p, a, b)) = IF a <= b THEN b - a + 1 ELSE 0
      /\ \A i \in 1..b - a + 1 : SubSeq(p, a, b)[i] = p[a + i - 1]
  BY <1>2, <1>3, SubSeqProperties
<1>5. b - a + 1 = n /\ a <= b /\ \A i \in 1..n : a + i - 1 = Len(p) - n + i
  BY <1>1
<1>. QED BY <1>4, <1>5 DEF Suffix

\* Paths with the same last names have the same end.
LEMMA SameSuffix ==
    ASSUME NEW p \in Paths, NEW q \in Paths, NEW n \in 1..Len(p), n \in 1..Len(q),
           \A i \in 1..n : p[Len(p) - n + i] = q[Len(q) - n + i]
    PROVE  Suffix(p, n) = Suffix(q, n)
<1>1. /\ Suffix(p, n) \in Seq(PathNames) /\ Len(Suffix(p, n)) = n
      /\ \A i \in 1..n : Suffix(p, n)[i] = p[Len(p) - n + i]
  BY SuffixFacts
<1>2. /\ Suffix(q, n) \in Seq(PathNames) /\ Len(Suffix(q, n)) = n
      /\ \A i \in 1..n : Suffix(q, n)[i] = q[Len(q) - n + i]
  BY SuffixFacts
<1>3. \A i \in 1..n : Suffix(p, n)[i] = Suffix(q, n)[i]
  BY <1>1, <1>2
<1>. QED BY <1>1, <1>2, <1>3, SeqEqual

\* Paths with the same end have the same last names.
LEMMA SuffixSame ==
    ASSUME NEW p \in Paths, NEW q \in Paths, NEW n \in 1..Len(p), NEW m \in 1..Len(q),
           Suffix(p, n) = Suffix(q, m)
    PROVE  n = m /\ \A i \in 1..n : p[Len(p) - n + i] = q[Len(q) - n + i]
<1>1. /\ Suffix(p, n) \in Seq(PathNames) /\ Len(Suffix(p, n)) = n
      /\ \A i \in 1..n : Suffix(p, n)[i] = p[Len(p) - n + i]
  BY SuffixFacts
<1>2. /\ Suffix(q, m) \in Seq(PathNames) /\ Len(Suffix(q, m)) = m
      /\ \A i \in 1..m : Suffix(q, m)[i] = q[Len(q) - m + i]
  BY SuffixFacts
<1>. QED BY <1>1, <1>2

\* Paths that end in the same names end in fewer of the same names.
LEMMA SuffixShrinks ==
    ASSUME NEW p \in Paths, NEW q \in Paths, NEW n \in 1..Len(p), n <= Len(q),
           Suffix(p, n) = Suffix(q, n), NEW m \in 1..n
    PROVE  Suffix(p, m) = Suffix(q, m)
<1>1. Len(p) \in Nat /\ Len(q) \in Nat
  BY PathFacts
<1>2. \A i \in 1..n : p[Len(p) - n + i] = q[Len(q) - n + i]
  BY <1>1, SuffixSame
<1>3. ASSUME NEW i \in 1..m PROVE p[Len(p) - m + i] = q[Len(q) - m + i]
  <2>1. i + (n - m) \in 1..n
    BY <1>1
  <2>2. p[Len(p) - n + (i + (n - m))] = q[Len(q) - n + (i + (n - m))]
    BY <1>2, <2>1
  <2>3. Len(p) - n + (i + (n - m)) = Len(p) - m + i
        /\ Len(q) - n + (i + (n - m)) = Len(q) - m + i
    BY <1>1
  <2>. QED BY <2>2, <2>3
<1>4. m \in 1..Len(p) /\ m \in 1..Len(q)
  BY <1>1
<1>. QED BY <1>3, <1>4, SameSuffix

\* No path is the end of another one.
LEMMA NoPathEndsAnother ==
    ASSUME NEW p \in Paths, NEW q \in Paths, Len(p) <= Len(q),
           Suffix(p, Len(p)) = Suffix(q, Len(p))
    PROVE  p = q
<1>1. /\ p \in Seq(PathNames) /\ q \in Seq(PathNames) /\ Len(p) \in Nat \ {0} /\ Len(q) \in Nat
      /\ p[1] = "/" /\ \A i \in 2..Len(q) : q[i] # "/"
  BY PathFacts
<1>2. \A i \in 1..Len(p) : p[Len(p) - Len(p) + i] = q[Len(q) - Len(p) + i]
  BY <1>1, SuffixSame
<1>3. \A i \in 1..Len(p) : p[i] = q[Len(q) - Len(p) + i]
  <2>1. \A i \in 1..Len(p) : Len(p) - Len(p) + i = i
    BY <1>1
  <2>. QED BY <1>2, <2>1
<1>4. Len(q) - Len(p) + 1 \notin 2..Len(q)
  BY <1>1, <1>3
<1>5. Len(p) = Len(q)
  BY <1>1, <1>4
<1>6. \A i \in 1..Len(p) : p[i] = q[i]
  BY <1>1, <1>3, <1>5
<1>. QED BY <1>1, <1>5, <1>6, SeqEqual

\* So far each label is deep enough only where a shorter one is shared, and paths
\* that share the label of one of them are equally deep.
Shared(p, q, n) == n <= Len(q) /\ Suffix(p, n) = Suffix(q, n)
LabelsInv ==
    /\ sources \subseteq Paths /\ depths \in [sources -> Nat]
    /\ \A p \in sources :
          /\ depths[p] \in 1..Len(p)
          /\ \A n \in 1..depths[p] - 1 : \E q \in sources \ {p} : Shared(p, q, n)
          /\ \A q \in sources \ {p}, n \in 1..Len(p) :
                Shared(p, q, n) /\ depths[p] <= n => depths[q] = depths[p]
          /\ settled => ~Ambiguous(p) \/ depths[p] = Len(p)

\* Every label starts with the last name of its path.
LEMMA LabelsInitInv == LabelsInit => LabelsInv
<1>. SUFFICES ASSUME LabelsInit PROVE LabelsInv
  OBVIOUS
<1>1. sources \subseteq Paths
  BY DEF LabelsInit, Tables
<1>2. \A p \in sources : 1 \in 1..Len(p)
  BY <1>1, PathFacts
<1>. QED BY <1>1, <1>2 DEF LabelsInit, LabelsInv

\* Paths that share a label that is deep enough for one are both ambiguous, and
\* neither label is its whole path.
LEMMA SharedIsAmbiguous ==
    ASSUME LabelsInv, NEW p \in sources, NEW q \in sources \ {p}, NEW n \in 1..Len(p),
           Shared(p, q, n), depths[p] <= n
    PROVE  /\ depths[q] = depths[p] /\ Ambiguous(p) /\ Ambiguous(q)
           /\ depths[p] < Len(p) /\ depths[q] < Len(q)
<1>1. p \in Paths /\ q \in Paths /\ p # q /\ Len(p) \in Nat /\ Len(q) \in Nat
      /\ depths[p] \in 1..Len(p) /\ depths[q] = depths[p] /\ depths[q] \in 1..Len(q)
  BY PathFacts DEF LabelsInv
<1>2. depths[p] \in 1..n
  BY <1>1
<1>3. Suffix(p, depths[p]) = Suffix(q, depths[p])
  BY <1>1, <1>2, SuffixShrinks DEF Shared
<1>4. Ambiguous(p) /\ Ambiguous(q)
  BY <1>1, <1>3 DEF Ambiguous, LabelOf
<1>5. depths[p] # Len(p)
  BY <1>1, <1>3, NoPathEndsAnother
<1>6. depths[q] # Len(q)
  BY <1>1, <1>3, NoPathEndsAnother
<1>. QED BY <1>1, <1>4, <1>5, <1>6

\* A round of the loop lengthens the labels that are ambiguous, and only those.
LEMMA LabelsStepInv ==
    ASSUME LabelsInv, LabelsNext
    PROVE  LabelsInv'
<1>. DEFINE deeper == {p \in sources : Ambiguous(p) /\ depths[p] < Len(p)}
<1>1. /\ settled' = (deeper = {}) /\ UNCHANGED sources
      /\ depths' = [p \in sources |-> IF p \in deeper THEN depths[p] + 1 ELSE depths[p]]
  BY DEF LabelsNext
<1>2. depths' \in [sources -> Nat]
  BY <1>1 DEF LabelsInv
<1>3. ASSUME NEW p \in sources
      PROVE  /\ depths'[p] \in 1..Len(p)
             /\ \A n \in 1..depths'[p] - 1 : \E q \in sources \ {p} : Shared(p, q, n)
  <2>1. p \in Paths /\ Len(p) \in Nat /\ depths[p] \in 1..Len(p)
        /\ \A n \in 1..depths[p] - 1 : \E q \in sources \ {p} : Shared(p, q, n)
    BY PathFacts DEF LabelsInv
  <2>2. CASE p \notin deeper
    BY <1>1, <2>1, <2>2
  <2>3. CASE p \in deeper
    <3>1. PICK q \in sources \ {p} : LabelOf(q) = LabelOf(p)
      BY <2>3 DEF Ambiguous
    <3>2. q \in Paths /\ depths[q] \in 1..Len(q)
      BY DEF LabelsInv
    <3>3. Shared(p, q, depths[p])
      BY <2>1, <3>1, <3>2, SuffixSame DEF LabelOf, Shared
    <3>4. depths'[p] = depths[p] + 1 /\ depths[p] < Len(p)
      BY <1>1, <2>3
    <3>5. \A n \in 1..depths'[p] - 1 : n = depths[p] \/ n \in 1..depths[p] - 1
      BY <2>1, <3>4
    <3>. QED BY <2>1, <3>3, <3>4, <3>5
  <2>. QED BY <2>2, <2>3
<1>4. ASSUME NEW p \in sources, NEW q \in sources \ {p}, NEW n \in 1..Len(p),
             Shared(p, q, n), depths'[p] <= n
      PROVE  depths'[q] = depths'[p]
  <2>1. depths[p] \in Nat /\ depths'[p] \in {depths[p], depths[p] + 1} /\ n \in Nat
    BY <1>1 DEF LabelsInv
  <2>2. depths[p] <= n
    BY <1>4, <2>1
  <2>3. p \in deeper /\ q \in deeper /\ depths[q] = depths[p]
    BY <1>4, <2>2, SharedIsAmbiguous
  <2>. QED BY <1>1, <2>3
<1>5. ASSUME settled', NEW p \in sources
      PROVE  ~Ambiguous(p)' \/ depths'[p] = Len(p)
  <2>1. deeper = {} /\ depths' = depths
    BY <1>1, <1>5 DEF LabelsInv
  <2>2. Ambiguous(p)' => Ambiguous(p)
    BY <1>1, <2>1 DEF Ambiguous, LabelOf
  <2>3. depths[p] \in 1..Len(p) /\ Len(p) \in Nat
    BY PathFacts DEF LabelsInv
  <2>. QED BY <2>1, <2>2, <2>3
<1>. HIDE DEF deeper
<1>. QED BY <1>1, <1>2, <1>3, <1>4, <1>5 DEF LabelsInv

\* Every step, and none, keeps the invariant of the labels.
LEMMA LabelsInvStep == LabelsInv /\ [LabelsNext]_labelVars => LabelsInv'
<1>1. LabelsInv /\ UNCHANGED labelVars => LabelsInv'
  BY DEF LabelsInv, labelVars, Ambiguous, LabelOf
<1>. QED BY <1>1, LabelsStepInv

\* The invariant of the labels holds in every state.
THEOREM LabelsInvariant == LabelsSpec => []LabelsInv
  BY LabelsInitInv, LabelsInvStep, PTL DEF LabelsSpec

\* When the loop ends every label is the shortest end of its path that no other
\* path has (shortest_unique_path_labels).
THEOREM LabelsAreShortest == LabelsSpec => []LabelsAreShortestUnique
<1>1. ASSUME LabelsInv, settled, NEW p \in sources
      PROVE  LET unique == {n \in 1..Len(p) : \A q \in sources \ {p} :
                              n > Len(q) \/ Suffix(p, n) # Suffix(q, n)}
             IN depths[p] \in unique /\ \A n \in unique : depths[p] <= n
  <2>. DEFINE unique == {n \in 1..Len(p) : \A q \in sources \ {p} :
                          n > Len(q) \/ Suffix(p, n) # Suffix(q, n)}
  <2>1. depths[p] \in 1..Len(p) /\ depths[p] <= depths[p] /\ Len(p) \in Nat
        /\ (~Ambiguous(p) \/ depths[p] = Len(p))
    BY <1>1, PathFacts DEF LabelsInv
  <2>2. \A q \in sources \ {p} : ~Shared(p, q, depths[p])
    <3>. SUFFICES ASSUME NEW q \in sources \ {p}, Shared(p, q, depths[p]) PROVE FALSE
      OBVIOUS
    <3>1. Ambiguous(p) /\ depths[p] < Len(p)
      BY <1>1, <2>1, SharedIsAmbiguous
    <3>. QED BY <2>1, <3>1
  <2>3. \A q \in sources \ {p} : Len(q) \in Nat
    BY <1>1, PathFacts DEF LabelsInv
  <2>4. depths[p] \in unique
    <3>1. \A q \in sources \ {p} :
              depths[p] > Len(q) \/ Suffix(p, depths[p]) # Suffix(q, depths[p])
      BY <2>1, <2>2, <2>3 DEF Shared
    <3>. QED BY <2>1, <3>1
  <2>5. ASSUME NEW n \in unique, ~(depths[p] <= n) PROVE FALSE
    <3>1. n \in 1..depths[p] - 1
      BY <2>1, <2>5
    <3>2. PICK q \in sources \ {p} : Shared(p, q, n)
      BY <1>1, <3>1 DEF LabelsInv
    <3>. QED BY <2>3, <3>1, <3>2 DEF Shared
  <2>. QED BY <2>4, <2>5
<1>2. LabelsInv => LabelsAreShortestUnique
  BY <1>1 DEF LabelsAreShortestUnique
<1>. QED BY <1>2, LabelsInvariant, PTL

(*****************************************************************************)
(* The composition.                                                          *)
(*****************************************************************************)

\* A behaviour of Programs is a behaviour of each part: the part takes a step of
\* its own or stutters.
THEOREM ProgramsAreTheirParts ==
    ProgramsSpec => /\ OriginsSpec /\ SessionSpec /\ SizesSpec /\ DiskSpec
                    /\ HookSpec /\ ProbeSpec /\ StatusSpec /\ LabelsSpec
<1>1. ProgramsInit => /\ OriginsInit /\ SessionInit /\ SizesInit /\ DiskInit /\ HookInit
                      /\ ProbeInit /\ StatusInit /\ LabelsInit
  BY DEF ProgramsInit
<1>2. [ProgramsNext]_programVars => [OriginsNext]_originVars
  BY DEF ProgramsNext, programVars
<1>3. [ProgramsNext]_programVars => [SessionNext]_sessionVars
  BY DEF ProgramsNext, programVars
<1>4. [ProgramsNext]_programVars => [SizesNext]_sizeVars
  BY DEF ProgramsNext, programVars
<1>5. [ProgramsNext]_programVars => [DiskNext]_scanVars
  BY DEF ProgramsNext, programVars
<1>6. [ProgramsNext]_programVars => [HookNext]_hookVars
  BY DEF ProgramsNext, programVars
<1>7. [ProgramsNext]_programVars => [ProbeNext]_probeVars
  BY DEF ProgramsNext, programVars
<1>8. [ProgramsNext]_programVars => [StatusNext]_statusVars
  BY DEF ProgramsNext, programVars
<1>9. [ProgramsNext]_programVars => [LabelsNext]_labelVars
  BY DEF ProgramsNext, programVars
<1>. QED
  BY <1>1, <1>2, <1>3, <1>4, <1>5, <1>6, <1>7, <1>8, <1>9, PTL
  DEF ProgramsSpec, OriginsSpec, SessionSpec, SizesSpec, DiskSpec, HookSpec, ProbeSpec,
      StatusSpec, LabelsSpec

\* The types of the variables of all programs.
THEOREM ProgramsTypes == ProgramsSpec => []ProgramsTypeOK
<1>1. /\ OriginsTypeOK /\ SessionInv /\ SizesInv /\ HookInv /\ ProbeTypeOK
      => ProgramsTypeOK
  BY DEF ProgramsTypeOK, SessionInv, SizesInv, HookInv
<1>. QED
  BY <1>1, ProgramsAreTheirParts, OriginsTypes, SessionInvariant, SizesInvariant,
     HookInvariant, ProbeTypes, PTL

\* What is proved of the parts holds of every program: the safety properties that
\* the run of Programs checks.
THEOREM ProgramsAreSafe ==
    ProgramsSpec =>
        /\ [](OneManagedClone /\ NoTakeover /\ ReferencesResolve) /\ CloneSurvives
        /\ []ZeroMeansReleased /\ ReleasesOnlyItsOwn
        /\ [](SizesFollowPaths /\ CompleteRefreshSavedAll)
        /\ [](UndisturbedScanIsExact /\ CompleteScanMissedNothing)
        /\ [](AnswersAreWhole /\ NothingIsLeft)
        /\ [](ReportedProcessWasThere /\ CompleteMissesNobody)
        /\ []ReportIsOfOneMoment /\ []LabelsAreShortestUnique
BY ProgramsAreTheirParts, OriginIsManagedOnce, OriginIsNotTakenOver,
   OriginReferencesResolve, OriginClonesSurvive, SessionTellsTheTruth,
   SessionReleasesItsOwn, SizesFollow, SizesAreComplete, DiskScanIsExact,
   DiskScanMissesNothing, HookAnswersAreWhole, HookLeavesNothing,
   ProbeReportsTheLiving, ProbeIsComplete, StatusIsOfOneMoment, LabelsAreShortest, PTL
===============================================================================
