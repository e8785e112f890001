------------------------------ MODULE DiskUsage -------------------------------
(***************************************************************************)
(* The measurement of one directory tree: a walk that keeps a stack of     *)
(* open directories, looks up every name that they list, counts the blocks *)
(* of what it finds, and those of an inode that can come up again once.    *)
(*                                                                         *)
(* The tree may change under the walk.  A name is looked up, and if it is  *)
(* a directory opened, at two moments: between them another may take its   *)
(* place.  A name that is gone when it is looked up, or another directory  *)
(* when it is opened, is an issue, and a measurement with an issue is not  *)
(* complete.                                                               *)
(*                                                                         *)
(* Abstractions.  The root holds directories and files, the directories    *)
(* hold files.  Sizes are small numbers and MaxBytes stands for the        *)
(* largest u64.  The tree changes while it is scanned only, and there only *)
(* where the walk is or may come: every tree is an initial one, and what a *)
(* directory that is moved into it holds is chosen with it.                *)
(***************************************************************************)
EXTENDS Naturals, Sequences, FiniteSets, FiniteSetsExt

CONSTANTS
    Names,           \* the names in a directory
    Files,           \* the files, as inodes
    Subdirectories,  \* the directories below the root, as inodes
    BlockCounts,     \* what an inode may occupy
    MaxBytes,        \* the largest size that can be represented
    MaxChanges       \* bound: entries that change or cannot be read

Root == "root"
NoEntry == "nothing"  \* what a name denotes that is not there
Directories == {Root} \cup Subdirectories
Inodes == Files \cup Directories
Entry == Directories \X Names

ASSUME DiskUsageAssumption ==
    /\ IsFiniteSet(Names) /\ IsFiniteSet(Files) /\ IsFiniteSet(Subdirectories)
    /\ Files \cap Directories = {} /\ Root \notin Subdirectories /\ NoEntry \notin Inodes
    /\ BlockCounts \subseteq Nat /\ MaxBytes \in Nat /\ MaxChanges \in Nat

VARIABLES
    names,    \* names[d][n]: the inode that the name n denotes in d
    blocks,   \* what each inode occupies
    frames,   \* the stack: directories, and the names not yet listed of each
    unsure,   \* the names of open directories that changed since the opening
    opening,  \* the name that was looked up and is to be opened, if any, and
              \* the directory that it denoted
    seen,     \* Accumulator.seen
    bytes,    \* Accumulator.allocated_bytes
    issues,   \* has Accumulator.issues an entry?
    result,   \* of the scan
    changes,  \* changes left
    kept,     \* history: the names that denoted the same all along
    counted   \* history: the inodes whose blocks were added

tree == <<names, blocks, changes, kept>>
scanVars == <<names, blocks, frames, unsure, opening, seen, bytes, issues, result,
              changes, kept, counted>>

\* A directory has at most one name; a file may have several (hard links).
Trees ==
    {t \in [Directories -> [Names -> Inodes \cup {NoEntry}]] :
        \A n \in Names :
            /\ t[Root][n] # Root
            /\ \A d \in Subdirectories : t[d][n] \notin Directories
            /\ \A m \in Names : m # n /\ t[Root][n] = t[Root][m] => t[Root][n] \notin Directories}

\* What the names of a directory denote.
In(d) == {names[d][n] : n \in Names} \ {NoEntry}

Links(i) == Cardinality({e \in Entry : names[e[1]][e[2]] = i})

\* Mutant: only directories are remembered.
TrackedDirectory(i) == i \in Directories
\* Accumulator::add remembers what can come up again, and asks the same when it
\* does: an inode that has lost its other names is counted a second time.
Tracked(i) == i \in Directories \/ Links(i) > 1
SeenBefore(i) == Tracked(i) /\ i \in seen

Blocks == [Inodes -> BlockCounts]

DiskInit ==
    /\ names \in Trees
    /\ blocks \in Blocks
    /\ frames = <<>> /\ opening = {} /\ seen = {} /\ bytes = 0 /\ counted = {}
    /\ issues = FALSE /\ result = "none" /\ changes = MaxChanges
    /\ kept = Entry /\ unsure = {}

NothingOpen == opening = {}
Open == {frames[k].dir : k \in DOMAIN frames}
Top == Head(frames)

\* A stream of names: those that are there when the directory is opened.
Stream(d) == [dir |-> d, left |-> {n \in Names : names[d][n] # NoEntry}]

\* Accumulator::add of an inode that was looked up; false if it is known.
Add(i) ==
    /\ ~SeenBefore(i)
    /\ bytes + blocks[i] <= MaxBytes
    /\ bytes' = bytes + blocks[i] /\ counted' = counted \cup {i}
    /\ seen' = IF Tracked(i) THEN seen \cup {i} ELSE seen

\* checked_add: the size is unavailable, and the scan stops.
Overflow(i) ==
    /\ ~SeenBefore(i)
    /\ bytes + blocks[i] > MaxBytes
    /\ result' = "unavailable" /\ frames' = <<>> /\ opening' = {}
    /\ UNCHANGED <<unsure, seen, bytes, issues, counted, tree>>

OpenRoot ==
    /\ result = "none"
    /\ \/ /\ Add(Root)
          /\ result' = "scanning" /\ frames' = <<Stream(Root)>>
          /\ UNCHANGED <<unsure, opening, issues, tree>>
       \/ Overflow(Root)

Scanning == result = "scanning" /\ NothingOpen /\ frames # <<>>

\* readdir lists each name that was there when the directory was opened.  What a
\* name denoted before it changed may be left out, what it denotes now listed too.
MayBeListed(n) == n \in Top.left \/ <<Top.dir, n>> \in unsure
Lists(n) ==
    /\ frames' = <<[Top EXCEPT !.left = @ \ {n}]>> \o Tail(frames)
    /\ unsure' = IF n \in Top.left THEN unsure ELSE unsure \ {<<Top.dir, n>>}

Closed == frames' = Tail(frames) /\ unsure' = {e \in unsure : e[1] # Top.dir}

\* A name that is gone, or denotes another directory, or cannot be read.
Noticed(there) == issues \/ ~there

\* scan_entry: readdir lists a name, and fstatat looks up what it denotes now.
ReadEntry ==
    /\ Scanning
    /\ \E n \in Names :
          LET i == names[Top.dir][n] IN
          /\ MayBeListed(n)
          /\ \/ /\ i = NoEntry \/ SeenBefore(i)
                /\ Lists(n) /\ issues' = Noticed(i # NoEntry)
                /\ UNCHANGED <<opening, seen, bytes, result, counted, tree>>
             \/ /\ i # NoEntry /\ Add(i)
                /\ Lists(n) /\ opening' = {<<n, d>> : d \in {i} \cap Directories}
                /\ UNCHANGED <<issues, result, tree>>
             \/ i # NoEntry /\ Overflow(i)

\* Mutant: whatever directory has the name now is read.
AnyDirectory(now, d) == now \in Directories
\* openat follows no link and opens directories only; fstat tells whether it is
\* the one that was looked up.
StillThere(now, d) == now = d

OpenChild ==
    /\ result = "scanning"
    /\ \E n \in Names, d \in Subdirectories :
          LET now == names[Top.dir][n] IN
          /\ <<n, d>> \in opening
          /\ issues' = Noticed(StillThere(now, d))
          /\ frames' = IF StillThere(now, d) THEN <<Stream(now)>> \o frames ELSE frames
    /\ opening' = {}
    /\ UNCHANGED <<unsure, seen, bytes, result, counted, tree>>

\* readdir is at the end.
CloseDirectory ==
    /\ Scanning /\ \A n \in Top.left : <<Top.dir, n>> \in unsure
    /\ Closed
    /\ UNCHANGED <<opening, seen, bytes, issues, result, counted, tree>>

\* Accumulator::finish.
Finish ==
    /\ result = "scanning" /\ frames = <<>> /\ NothingOpen
    /\ result' = IF issues THEN "partial" ELSE "complete"
    /\ UNCHANGED <<frames, unsure, opening, seen, bytes, issues, counted, tree>>

MayChange == changes > 0 /\ changes' = changes - 1

\* The root is missing or cannot be read.
RootUnreadable ==
    /\ result = "none" /\ MayChange /\ result' = "unavailable"
    /\ UNCHANGED <<names, blocks, frames, unsure, opening, seen, bytes, issues, kept,
                   counted>>

\* A directory that cannot be opened, a name that cannot be looked up, or a
\* directory that cannot be listed to its end.
Unreadable ==
    /\ result = "scanning" /\ frames # <<>> /\ MayChange /\ issues' = Noticed(FALSE)
    /\ \/ ~NothingOpen /\ UNCHANGED <<frames, unsure>>
       \/ NothingOpen /\ \E n \in Names : MayBeListed(n) /\ Lists(n)
       \/ NothingOpen /\ Closed
    /\ opening' = {}
    /\ UNCHANGED <<names, blocks, seen, bytes, result, kept, counted>>

\* Somebody makes or removes what a name denotes, or puts something else in its
\* place; a move is the one after the other.
Change(d, n, i) ==
    /\ result = "scanning" /\ MayChange
    /\ d \in Open \cup In(Root)
    /\ i # names[d][n]
    /\ i \in Directories => d = Root /\ i # Root /\ Links(i) = 0
    /\ names' = [names EXCEPT ![d][n] = i]
    /\ kept' = kept \ {<<d, n>>}
    /\ unsure' = IF d \in Open THEN unsure \cup {<<d, n>>} ELSE unsure
    /\ UNCHANGED <<blocks, frames, opening, seen, bytes, issues, result, counted>>

ScanStep == OpenRoot \/ ReadEntry \/ OpenChild \/ CloseDirectory \/ Finish

DiskNext ==
    \/ ScanStep \/ RootUnreadable \/ Unreadable
    \/ \E d \in Directories, n \in Names, i \in Inodes \cup {NoEntry} : Change(d, n, i)

-------------------------------------------------------------------------------

Reachable == {Root} \cup In(Root) \cup UNION {In(d) : d \in In(Root) \cap Directories}
Occupied(set) == MapThenSumSet(LAMBDA i : blocks[i], set)

\* A tree that nobody changes is measured exactly, in whatever order the system
\* lists it: each inode once, however many names it has, and a sum that cannot
\* be represented is unavailable and never a smaller number (scan_with_hook,
\* Accumulator::add).
UndisturbedScanIsExact ==
    changes = MaxChanges /\ result \in {"partial", "complete", "unavailable"} =>
        IF Occupied(Reachable) <= MaxBytes
        THEN result = "complete" /\ bytes = Occupied(Reachable)
        ELSE result = "unavailable"

\* A measurement that is complete counted the root, and of every directory that
\* it counted whatever kept its name there while it ran, wherever the directory
\* itself was moved meanwhile.  So one that is exchanged between its lookup and
\* its opening is not counted without its contents, with those of another in
\* their place; and what could not be read, or was gone, is not left out
\* silently (scan_entry, scan_with_hook).
CompleteScanMissedNothing ==
    result = "complete" =>
        /\ Root \in counted
        /\ \A d \in counted \cap Directories, n \in Names :
              <<d, n>> \in kept => names[d][n] \in counted \cup {NoEntry}

DiskSpec == DiskInit /\ [][DiskNext]_scanVars
===============================================================================
