-------------------------------- MODULE Sizes ---------------------------------
(***************************************************************************)
(* The disk-usage cache: after a command that changed files, trees         *)
(* measures the workspace, its worktree and the origin repository of it,   *)
(* and keeps each measurement in the row of its entity.                    *)
(*                                                                         *)
(* A measurement runs outside of any transaction: entities move and are    *)
(* removed meanwhile, and other commands measure too.  The rows are        *)
(* selected in one transaction, and a measurement is saved only if its     *)
(* entity still has the path that was measured; triggers clear what is     *)
(* stored of an entity that moves or is removed.                           *)
(*                                                                         *)
(* Abstractions.  One workspace, which has one worktree, at its root or in *)
(* a directory of it.  The origin repository of the worktree is measured   *)
(* and moves like it, and is left out.  Of a measurement the model keeps   *)
(* the path, the time that it began and how complete it is.  DiskUsage     *)
(* models the scan itself.                                                 *)
(***************************************************************************)
EXTENDS Naturals, Sequences

CONSTANTS
    Refreshers,  \* the concurrent commands that measure
    Debounce,    \* how long a measurement is used again (DEBOUNCE_SECONDS)
    MaxTime,     \* bound: the clock
    MaxMoves     \* bound: entities moved

ASSUME SizesAssumption ==
    Debounce \in Nat \ {0} /\ MaxTime \in Nat /\ MaxMoves \in Nat

Entities == {"workspace", "worktree"}
Places == {"root", "inside"}
Completeness == {"complete", "partial"}  \* partial: or unavailable
Observation == [path : Places, at : 0..MaxTime, status : Completeness]
Unknown == [path |-> "root", at |-> 0, status |-> "unknown"]
CandidateRow == [entity : Entities, path : Places]

VARIABLES
    path,      \* canonical_path, worktree_path and source_path
    gone,      \* the entities whose state is removed
    size,      \* disk_usage_json of each entity
    clock,     \* the wall clock
    moves,     \* moves left
    rpc,       \* the next step of each command
    started,   \* `now` of refresh_with_observer
    selected,  \* the candidates that are left
    observed,  \* observed_paths: the observation of each path
    complete,  \* the outcome so far
    missed     \* history: is there an entity whose size it did not save?

refreshing == <<rpc, started, selected, observed, complete, missed>>
sizeVars == <<path, gone, size, clock, moves, rpc, started, selected, observed,
              complete, missed>>

SizesInit ==
    /\ path = [e \in Entities |-> "root"]
    /\ gone = {} /\ size = [e \in Entities |-> Unknown]
    /\ clock = 0 /\ moves = MaxMoves
    /\ rpc = [p \in Refreshers |-> "idle"]
    /\ started = [p \in Refreshers |-> 0]
    /\ selected = [p \in Refreshers |-> <<>>]
    /\ observed = [p \in Refreshers |-> <<>>]
    /\ complete = [p \in Refreshers |-> TRUE]
    /\ missed = [p \in Refreshers |-> FALSE]

(***************************************************************************)
(* A refresh.                                                              *)
(***************************************************************************)

GoesTo(p, from, to) == rpc[p] = from /\ rpc' = [rpc EXCEPT ![p] = to]

Begin(p) ==
    /\ GoesTo(p, "idle", "select")
    /\ started' = [started EXCEPT ![p] = clock]
    /\ complete' = [complete EXCEPT ![p] = TRUE]
    /\ missed' = [missed EXCEPT ![p] = FALSE]
    /\ UNCHANGED <<path, gone, size, clock, moves, selected, observed>>

\* recent: neither expired nor of the future.
Recent(o, now) == o # Unknown /\ o.at <= now /\ now < o.at + Debounce

Candidate(e) == [entity |-> e, path |-> path[e]]

\* workspace_candidates: the worktrees that are not removed, and the workspace
\* whatever its state.
Candidates ==
    IF "worktree" \in gone THEN <<Candidate("workspace")>>
    ELSE <<Candidate("workspace"), Candidate("worktree")>>

\* A measurement that is recent is used again for its path; of a path that is
\* stored twice, one of the newest.
Reusable(cs, now, place) ==
    LET recent == {size[cs[i].entity] : i \in {j \in DOMAIN cs :
                     cs[j].path = place /\ Recent(size[cs[j].entity], now)}}
    IN {o \in recent : \A other \in recent : other.at <= o.at}

Select(p) ==
    LET Of(place) == Reusable(Candidates, started[p], place)
        reused == {place \in Places : Of(place) # {}} IN
    /\ GoesTo(p, "select", "measure")
    /\ selected' = [selected EXCEPT ![p] = Candidates]
    /\ \E f \in [reused -> UNION {Of(place) : place \in reused}] :
          /\ \A place \in reused : f[place] \in Of(place)
          /\ observed' = [observed EXCEPT ![p] = f]
    /\ UNCHANGED <<path, gone, size, clock, moves, started, complete, missed>>

\* observe: the time is read before the scan, which takes a while.
Scan(p) ==
    LET place == Head(selected[p]).path IN
    /\ rpc[p] = "measure" /\ place \notin DOMAIN observed[p]
    /\ \E status \in Completeness :
          observed' = [observed EXCEPT ![p] =
              [q \in {place} \cup DOMAIN @ |->
                  IF q = place THEN [path |-> place, at |-> clock, status |-> status]
                  ELSE @[q]]]
    /\ UNCHANGED <<path, gone, size, clock, moves, rpc, started, selected,
                   complete, missed>>

\* Mutant: a measurement is saved by the id of its entity alone.
SavedById(candidate) == TRUE
\* save_if_path_unchanged: UPDATE ... WHERE id = ? AND path = ?
Unchanged(candidate) == path[candidate.entity] = candidate.path

\* Mutant: a measurement that was thrown away does not count as missing.
CountsSavedOnly(o, saved) == ~saved \/ o.status = "complete"
\* The refresh is complete while every measurement is and has been saved.
Counts(o, saved) == saved /\ o.status = "complete"

Save(p) ==
    LET candidate == Head(selected[p])
        saved == Unchanged(candidate)
        o == observed[p][candidate.path] IN
    /\ rpc[p] = "measure" /\ candidate.path \in DOMAIN observed[p]
    /\ size' = IF saved THEN [size EXCEPT ![candidate.entity] = o] ELSE size
    /\ missed' = [missed EXCEPT ![p] =
          @ \/ size'[candidate.entity] # o \/ o.status # "complete"
            \/ o.at + Debounce <= started[p]]
    /\ complete' = [complete EXCEPT ![p] = @ /\ Counts(o, saved)]
    /\ selected' = [selected EXCEPT ![p] = Tail(@)]
    /\ rpc' = [rpc EXCEPT ![p] = IF Len(selected[p]) = 1 THEN "done" ELSE "measure"]
    /\ UNCHANGED <<path, gone, clock, moves, started, observed>>

(***************************************************************************)
(* The rest of trees, and time.                                            *)
(***************************************************************************)

\* The triggers ..._disk_usage_path_changed: unknown again.
Forgotten(e) == [size EXCEPT ![e] = Unknown]

\* An addition relocates the worktree, or takes that back.
Move(e, from, to) ==
    /\ moves > 0 /\ moves' = moves - 1
    /\ e \notin gone /\ path[e] = from
    /\ path' = [path EXCEPT ![e] = to]
    /\ size' = Forgotten(e)
    /\ UNCHANGED <<gone, clock, refreshing>>

\* The triggers ..._disk_usage_removed: a removed worktree takes the size of its
\* workspace along, and a removed workspace those of its worktrees.
Remove(e) ==
    /\ e \notin gone /\ gone' = gone \cup {e}
    /\ size' = [size EXCEPT !["workspace"] = Unknown, !["worktree"] = Unknown]
    /\ UNCHANGED <<path, clock, moves, refreshing>>

Tick ==
    /\ clock < MaxTime /\ clock' = clock + 1
    /\ UNCHANGED <<path, gone, size, moves, refreshing>>

Refresh(p) ==
    Begin(p) \/ Select(p) \/ Scan(p) \/ Save(p)

SizesNext ==
    \/ \E p \in Refreshers : Refresh(p)
    \/ Move("worktree", "root", "inside") \/ Move("worktree", "inside", "root")
    \/ Remove("worktree") \/ Remove("workspace")
    \/ Tick

-------------------------------------------------------------------------------

SizesTypeOK ==
    /\ path \in [Entities -> Places]
    /\ gone \subseteq {"workspace", "worktree"}
    /\ size \in [Entities -> Observation \cup {Unknown}]
    /\ clock \in 0..MaxTime /\ moves \in 0..MaxMoves
    /\ rpc \in [Refreshers -> {"idle", "select", "measure", "done"}]
    /\ started \in [Refreshers -> 0..MaxTime]
    /\ selected \in [Refreshers -> Seq(CandidateRow)]
    /\ observed \in [Refreshers -> UNION {[s -> Observation] : s \in SUBSET Places}]
    /\ complete \in [Refreshers -> BOOLEAN] /\ missed \in [Refreshers -> BOOLEAN]

\* Status never shows the size of another directory: what is stored of an entity
\* was measured at the path that it has now, although it may have moved while it
\* was measured, and back, and the measurement may come from the row of another
\* entity (save_if_path_unchanged, the triggers, the debounce).
SizesFollowPaths ==
    \A e \in Entities : size[e] # Unknown => size[e].path = path[e]

\* A refresh reports Complete only if it saved a complete measurement, not older
\* than the debounce allows, for every entity that it selected
\* (refresh_with_observer_at).
CompleteRefreshSavedAll ==
    \A p \in Refreshers : rpc[p] = "done" /\ complete[p] => ~missed[p]

SizesSpec == SizesInit /\ [][SizesNext]_sizeVars
===============================================================================
