----------------------------- MODULE ProcessProbe ------------------------------
(***************************************************************************)
(* Which processes of the user work in a workspace: `trees status` reads   *)
(* /proc, process by process, while processes come and go.                 *)
(*                                                                         *)
(* Nothing in /proc holds still.  Between two reads a process may end, its *)
(* PID be used again, its user or its directory change, and the directory  *)
(* be exchanged.  The probe reads the start time and the user of a PID     *)
(* before and after its directory, takes a path only if it names the very  *)
(* directory the process is in, and counts what it could not tell.         *)
(*                                                                         *)
(* Abstractions.  Two processes that have one PID in turn start at         *)
(* different times.  A directory is a number; canonicalize and metadata of *)
(* one path are one step.  The reads of macOS are the same protocol.       *)
(***************************************************************************)
EXTENDS Naturals, Sequences

CONSTANTS
    Pids,      \* the PIDs that processes may have
    MaxStarts, \* bound: processes started
    MaxEvents  \* bound: changes of processes and directories

ASSUME ProbeAssumption == MaxStarts \in Nat \ {0} /\ MaxEvents \in Nat

\* The places: in the workspace, in another one nested in it, outside, and the
\* name in the workspace by which the system calls a directory that is deleted.
Spots == {"inside", "nested", "outside", "deleted"}
Folders == 1..4

NoHolder == [start |-> 0, mine |-> FALSE, cwd |-> 0, exited |-> FALSE]

VARIABLES
    holder,   \* the process that has each PID
    starts,   \* processes started so far
    folder,   \* the directory that each place names, 0 for none
    events,   \* changes left
    probe,    \* the next step of the probe
    todo,     \* the PIDs that are not looked at yet
    pid,      \* the PID that is looked at
    before,   \* its start time, as first read
    link,     \* the place that its cwd link named, "none" if unreadable
    inode,    \* the directory behind its cwd link, 0 if unreadable
    found,    \* the processes that are reported: PID, start and place
    trouble,  \* is there an issue?
    verdict,  \* complete, partial or unavailable
    present,  \* history: the processes that were at a place
    users,    \* history: the processes that were the user's
    steady    \* history: the processes of the user that did not move

world == <<holder, starts, folder, events>>
reading == <<todo, pid, before, link, inode, found, trouble, verdict>>
history == <<present, users, steady>>
probeVars == <<world, probe, reading, history>>

Live(n) == holder[n].start # 0 /\ ~holder[n].exited

\* The name of a directory: its place, or "deleted" once no place names it.
NameOf(d) ==
    IF \E s \in Spots : folder[s] = d
    THEN CHOOSE s \in Spots : folder[s] = d ELSE "deleted"

\* The processes, where they are, and those of the user.
WhereTheyAre ==
    {w \in Pids \X (1..MaxStarts) \X Spots :
        /\ Live(w[1]) /\ holder[w[1]].start = w[2]
        /\ folder[w[3]] = holder[w[1]].cwd}
Users ==
    {u \in Pids \X (1..MaxStarts) :
        Live(u[1]) /\ holder[u[1]].start = u[2] /\ holder[u[1]].mine}
Working == {w \in WhereTheyAre : <<w[1], w[2]>> \in Users}

\* The workspaces whose directory is an ancestor of the place, from the root on.
Boundaries(s) ==
    CASE s \in {"inside", "deleted"} -> <<"target">>
      [] s = "nested" -> <<"target", "other">>
      [] s = "outside" -> <<>>

\* owner: the nearest boundary is the target.
Owned(s) == LET b == Boundaries(s) IN b # <<>> /\ b[Len(b)] = "target"

\* There is one process of the user.
Holders ==
    {[q \in Pids |->
        IF q = n THEN [start |-> 1, mine |-> TRUE, cwd |-> d, exited |-> FALSE]
        ELSE NoHolder] : n \in Pids, d \in Folders}

ProbeInit ==
    /\ folder = [inside |-> 1, nested |-> 2, outside |-> 3, deleted |-> 4]
    /\ holder \in Holders
    /\ starts = 1
    /\ events = MaxEvents
    /\ probe = "list" /\ todo = {} /\ pid = 0 /\ before = 0 /\ link = "none"
    /\ inode = 0 /\ found = {} /\ trouble = FALSE /\ verdict = "none"
    /\ present = {} /\ users = {} /\ steady = {}

(***************************************************************************)
(* The probe: collect and Procfs.                                          *)
(***************************************************************************)

\* A step that reads.
Reads(from) == probe = from /\ UNCHANGED <<world, history>>

\* pids; without a list there is nothing to say.
List ==
    /\ probe = "list" /\ UNCHANGED world
    /\ present' = WhereTheyAre /\ users' = Users /\ steady' = Working
    /\ \/ todo' = {n \in Pids : holder[n].start # 0} /\ probe' = "next"
          /\ UNCHANGED verdict
       \/ probe' = "done" /\ verdict' = "unavailable" /\ UNCHANGED todo
    /\ UNCHANGED <<pid, before, link, inode, found, trouble>>

\* identity, the first time: a PID that is gone may have been freed.
ReadIdentity ==
    /\ Reads("next")
    /\ \E n \in todo :
          /\ todo' = todo \ {n} /\ pid' = n /\ before' = holder[n].start
          /\ probe' = IF holder[n].start = 0 THEN "confirm"
                      ELSE IF holder[n].exited THEN "next" ELSE "user"
    /\ UNCHANGED <<link, inode, found, trouble, verdict>>

\* effective_uid: processes of others are left alone.
ReadUser ==
    /\ Reads("user")
    /\ probe' = IF holder[pid].start = 0 THEN "confirm"
                ELSE IF ~holder[pid].mine THEN "next" ELSE "link"
    /\ UNCHANGED reading

\* read_link of the cwd: of a process that ended, or that may not be read, fails.
ReadLink ==
    /\ Reads("link") /\ probe' = "stat"
    /\ \/ Live(pid) /\ link' = NameOf(holder[pid].cwd)
       \/ link' = "none"
    /\ UNCHANGED <<todo, pid, before, inode, found, trouble, verdict>>

StatLink ==
    /\ Reads("stat") /\ probe' = "path"
    /\ inode' = IF link # "none" /\ Live(pid) THEN holder[pid].cwd ELSE 0
    /\ UNCHANGED <<todo, pid, before, link, found, trouble, verdict>>

\* physical_cwd: the path leads to the very directory.
SameDirectory(s) == folder[s] # 0 /\ folder[s] = inode

\* A cwd that fails is remembered until the identity was looked at again.
ResolvePath ==
    /\ Reads("path") /\ probe' = "again"
    /\ inode' = IF link # "none" /\ inode # 0 /\ SameDirectory(link) THEN inode ELSE 0
    /\ UNCHANGED <<todo, pid, before, link, found, trouble, verdict>>

\* Mutant: the start time is not compared.
AnyProcess == TRUE
\* before.start == after.start.
SameProcess == holder[pid].start = before

ReadIdentityAgain ==
    /\ Reads("again")
    /\ probe' = IF holder[pid].start = 0 THEN "confirm"
                ELSE IF holder[pid].exited THEN "next"
                ELSE IF ~SameProcess THEN "confirm" ELSE "user_again"
    /\ UNCHANGED reading

ReadUserAgain ==
    /\ Reads("user_again")
    /\ probe' = IF ~holder[pid].mine \/ inode = 0 THEN "confirm" ELSE "next"
    /\ found' = IF holder[pid].mine /\ inode # 0 /\ Owned(link)
                THEN found \cup {<<pid, before, link>>} ELSE found
    /\ UNCHANGED <<todo, pid, before, link, inode, trouble, verdict>>

\* Mutant: a process that cannot be told is left out.
LeftOut == trouble
\* Its error is counted.
Counted == TRUE

\* Only a missing /proc/PID proves that the process ended.
ConfirmExit ==
    /\ Reads("confirm") /\ probe' = "next"
    /\ trouble' = IF holder[pid].start = 0 THEN trouble ELSE Counted
    /\ UNCHANGED <<todo, pid, before, link, inode, found, verdict>>

Conclude ==
    /\ probe = "next" /\ todo = {}
    /\ probe' = "done" /\ verdict' = IF trouble THEN "partial" ELSE "complete"
    /\ UNCHANGED <<world, todo, pid, before, link, inode, found, trouble, history>>

ProbeStep ==
    \/ List \/ ReadIdentity \/ ReadUser \/ ReadLink \/ StatLink \/ ResolvePath
    \/ ReadIdentityAgain \/ ReadUserAgain \/ ConfirmExit \/ Conclude

(***************************************************************************)
(* The processes and the directories of the system.                        *)
(***************************************************************************)

\* What changes is no longer steady, and what comes up was there.
Changes ==
    /\ events > 0 /\ events' = events - 1 /\ probe # "done"
    /\ steady' = steady \cap Working'
    /\ present' = present \cup WhereTheyAre' /\ users' = users \cup Users'
    /\ UNCHANGED <<probe, reading>>

SetHolder(n, h) == holder' = [holder EXCEPT ![n] = h]

Exits(n) ==
    /\ Live(n) /\ SetHolder(n, [holder[n] EXCEPT !.exited = TRUE])
    /\ UNCHANGED <<starts, folder>> /\ Changes

Reaped(n) ==
    /\ holder[n].exited /\ SetHolder(n, NoHolder)
    /\ UNCHANGED <<starts, folder>> /\ Changes

Starts(n) ==
    /\ holder[n].start = 0 /\ starts < MaxStarts /\ starts' = starts + 1
    /\ \E mine \in BOOLEAN, s \in Spots :
          folder[s] # 0 /\ SetHolder(n, [start |-> starts', mine |-> mine,
                                         cwd |-> folder[s], exited |-> FALSE])
    /\ UNCHANGED folder /\ Changes

\* It runs a program of another user (set-user-ID).
ChangesUser(n) ==
    /\ Live(n) /\ holder[n].mine /\ SetHolder(n, [holder[n] EXCEPT !.mine = FALSE])
    /\ UNCHANGED <<starts, folder>> /\ Changes

ChangesDirectory(n) ==
    /\ Live(n)
    /\ \E s \in Spots : folder[s] # 0 /\ SetHolder(n, [holder[n] EXCEPT !.cwd = folder[s]])
    /\ UNCHANGED <<starts, folder>> /\ Changes

\* A directory is deleted, or moved to the place of another one.
Deleted(s) ==
    /\ folder[s] # 0 /\ folder' = [folder EXCEPT ![s] = 0]
    /\ UNCHANGED <<holder, starts>> /\ Changes

Renamed(s, t) ==
    /\ folder[s] # 0 /\ s # t
    /\ folder' = [folder EXCEPT ![s] = 0, ![t] = folder[s]]
    /\ UNCHANGED <<holder, starts>> /\ Changes

ProbeNext ==
    \/ ProbeStep
    \/ \E n \in Pids :
          Exits(n) \/ Reaped(n) \/ Starts(n) \/ ChangesUser(n) \/ ChangesDirectory(n)
    \/ Deleted("inside") \/ Deleted("deleted")
    \/ Renamed("inside", "outside") \/ Renamed("outside", "inside")

-------------------------------------------------------------------------------

ProbeTypeOK ==
    /\ starts \in 0..MaxStarts /\ events \in 0..MaxEvents
    /\ folder \in [Spots -> {0} \cup Folders]
    /\ holder \in [Pids -> [start : 0..MaxStarts, mine : BOOLEAN,
                            cwd : {0} \cup Folders, exited : BOOLEAN]]
    /\ probe \in {"list", "next", "user", "link", "stat", "path", "again",
                  "user_again", "confirm", "done"}
    /\ todo \subseteq Pids /\ pid \in Pids \cup {0} /\ before \in 0..MaxStarts
    /\ link \in Spots \cup {"none"} /\ inode \in {0} \cup Folders
    /\ trouble \in BOOLEAN
    /\ verdict \in {"none", "complete", "partial", "unavailable"}

\* No process is reported that was not there: in the observation one and the
\* same process had that PID, worked in that directory, and was the user's,
\* although PIDs are used again and directories are exchanged between any two
\* reads (linux.rs read_process, processes.rs physical_cwd).  It need not have
\* been the user's while it was there: the last two reads are of a PID, and a
\* process that changed its user may end between them and its PID be used again.
ReportedProcessWasThere ==
    \A f \in found : f \in present /\ <<f[1], f[2]>> \in users

\* An observation is complete only if it missed nobody: each process that worked
\* in the workspace all along, and not in one nested in it, is reported
\* (processes.rs collect and owner).
CompleteMissesNobody ==
    verdict = "complete" =>
        \A w \in steady : Boundaries(w[3]) = <<"target">> => w \in found

ProbeSpec == ProbeInit /\ [][ProbeNext]_probeVars
===============================================================================
