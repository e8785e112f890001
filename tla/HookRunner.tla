------------------------------ MODULE HookRunner ------------------------------
(***************************************************************************)
(* The session hook of `trees status`: a program of the user's that tells  *)
(* which sessions use a workspace.                                         *)
(*                                                                         *)
(* The hook runs in a process group of its own.  A thread writes the       *)
(* request to it, one reads its answer and one its errors; the main thread *)
(* takes their reports, waits for the hook and gives up at the timeout.    *)
(* Whatever way the query ends, the guard tells the threads to stop, kills *)
(* the group and reaps the hook.  A descendant of the hook may hold the    *)
(* pipes open after the hook is gone, and may have left the group.         *)
(*                                                                         *)
(* Abstractions.  The answer is whole once every process that writes it is *)
(* gone.  Whether the bytes that came are a valid answer, and for which    *)
(* workspaces, is a choice of the hook.                                    *)
(***************************************************************************)
EXTENDS Naturals, FiniteSets

CONSTANT Asked  \* the workspaces that the status asks about

ASSUME HookAssumption == IsFiniteSet(Asked)

Pipes == {"input", "output", "errors"}
Outcomes == {"whole", "cut", "failed", "overflow"}

VARIABLES
    main,        \* the next step of the main thread
    hook,        \* the hook: not started, running, exited, reaped
    success,     \* did it exit with success?
    descendant,  \* one of the hook's processes: none, group, escaped
    thread,      \* the I/O threads: not started, running, ended
    reports,     \* the events in the channel
    completed,   \* the events that were received
    output,      \* what the output thread reported
    failed,      \* io_error
    cancelled,   \* the flag that the threads poll
    expired,     \* has the timeout passed?
    answer       \* what the query returns

hookVars == <<main, hook, success, descendant, thread, reports, completed,
              output, failed, cancelled, expired, answer>>
processes == <<hook, success, descendant>>

NoAnswer == [status |-> "none", entries |-> {}]
Unavailable == [status |-> "unavailable", entries |-> {}]

HookInit ==
    /\ main = "spawn" /\ hook = "none" /\ success = FALSE /\ descendant = "none"
    /\ thread = [t \in Pipes |-> "none"] /\ reports = {} /\ completed = 0
    /\ output = "none" /\ failed = FALSE /\ cancelled = FALSE /\ expired = FALSE
    /\ answer = NoAnswer

(***************************************************************************)
(* The main thread.                                                        *)
(***************************************************************************)

Spawn ==
    /\ main = "spawn"
    /\ \/ hook' = "running" /\ main' = "threads" /\ UNCHANGED answer
       \/ main' = "done" /\ answer' = Unavailable /\ UNCHANGED hook
    /\ UNCHANGED <<success, descendant, thread, reports, completed, output,
                   failed, cancelled, expired>>

\* The threads start one after the other, and starting one may fail.
StartThread ==
    /\ main = "threads"
    /\ \/ \E t \in Pipes :
             /\ thread[t] = "none"
             /\ thread' = [thread EXCEPT ![t] = "running"]
             /\ main' = IF Cardinality({u \in Pipes : thread[u] = "none"}) = 1
                        THEN "check" ELSE "threads"
             /\ UNCHANGED answer
       \/ main' = "cancel" /\ answer' = Unavailable /\ UNCHANGED thread
    /\ UNCHANGED <<processes, reports, completed, output, failed, cancelled, expired>>

\* Mutant: the reports of the hook's own exit and of two threads are enough.
TwoReports == completed >= 2
AllReports == completed = 3

\* Mutant: a decoder that takes whatever workspaces the hook names.
DecodedUnchecked ==
    {[status |-> "partial", entries |-> told] : told \in SUBSET (Asked \cup {"another"})}

\* decode: an answer about a workspace that was not asked for is invalid; one that
\* leaves some of them out is partial, and one that leaves out all is unavailable.
Decoded ==
    {Unavailable} \cup
    {[status |-> IF told = Asked THEN "complete" ELSE "partial", entries |-> told] :
        told \in (SUBSET Asked \ {{}}) \cup {Asked}}

\* The head of the loop: the timeout, try_wait, and the end of a finished hook.
Check ==
    LET reaped == hook \in {"exited", "reaped"} IN
    /\ main = "check"
    /\ hook' = IF ~expired /\ reaped THEN "reaped" ELSE hook
    /\ IF expired \/ (AllReports /\ reaped)
       THEN /\ main' = "cancel"
            /\ IF expired \/ ~success \/ failed
               THEN answer' = Unavailable
               ELSE answer' \in Decoded
       ELSE main' = "receive" /\ UNCHANGED answer
    /\ UNCHANGED <<success, descendant, thread, reports, completed, output, failed,
                   cancelled, expired>>

\* recv_timeout: an event, or a tick; an overflow ends the query.
Receive ==
    /\ main = "receive"
    /\ \/ \E e \in reports :
             /\ reports' = reports \ {e}
             /\ completed' = completed + 1
             /\ failed' = (failed \/ e.outcome = "failed")
             /\ output' = IF e.pipe = "output" THEN e.outcome ELSE output
             /\ IF e.outcome = "overflow"
                THEN main' = "cancel" /\ answer' = Unavailable
                ELSE main' = "check" /\ UNCHANGED answer
       \/ main' = "check" /\ UNCHANGED <<reports, completed, failed, output, answer>>
    /\ UNCHANGED <<processes, thread, cancelled, expired>>

\* Mutant: the guard does not tell the threads.
NotCancelled == cancelled
\* Guard::drop.
Cancelled == TRUE

Cancel ==
    /\ main = "cancel" /\ main' = "kill" /\ cancelled' = Cancelled
    /\ UNCHANGED <<processes, thread, reports, completed, output, failed, expired, answer>>

\* Mutant: the hook is killed, its descendants are not.
KillHook == descendant
\* SIGKILL to the group of the hook, and to the hook.
KillGroup == IF descendant = "group" THEN "none" ELSE descendant

Kill ==
    /\ main = "kill" /\ main' = "wait"
    /\ hook' = IF hook = "running" THEN "exited" ELSE hook
    /\ success' = (success /\ hook # "running")
    /\ descendant' = KillGroup
    /\ UNCHANGED <<thread, reports, completed, output, failed, cancelled, expired, answer>>

Wait ==
    /\ main = "wait" /\ hook \in {"exited", "reaped"}
    /\ main' = "done" /\ hook' = "reaped"
    /\ UNCHANGED <<success, descendant, thread, reports, completed, output, failed,
                   cancelled, expired, answer>>

Expire ==
    /\ ~expired /\ expired' = TRUE
    /\ UNCHANGED <<main, processes, thread, reports, completed, output, failed,
                   cancelled, answer>>

(***************************************************************************)
(* The I/O threads, each with one end of a pipe.                           *)
(***************************************************************************)

Alone == hook \notin {"running"} /\ descendant = "none"

\* read_pipe and the input thread: the other end is closed, or the hook took the
\* request, something failed, there was too much, or the query was cancelled.
Ends(t) ==
    {[pipe |-> t, outcome |-> o] : o \in Outcomes \cap
        ((IF Alone \/ t = "input" THEN {"whole"} ELSE {})
         \cup (IF cancelled THEN {"cut"} ELSE {})
         \cup {"failed"}
         \cup (IF t = "output" THEN {"overflow"} ELSE {}))}

ThreadEnds(t) ==
    /\ thread[t] = "running"
    /\ thread' = [thread EXCEPT ![t] = "ended"]
    /\ \E e \in Ends(t) : reports' = reports \cup {e}
    /\ UNCHANGED <<main, processes, completed, output, failed, cancelled, expired,
                   answer>>

\* What the system guarantees: a thread whose pipe is closed or that polls the
\* flag ends.  Nothing makes a hook take its request or be quiet.
MustEnd(t) == thread[t] = "running" /\ (cancelled \/ Alone)

(***************************************************************************)
(* The hook and its descendant.                                            *)
(***************************************************************************)

HookExits ==
    /\ hook = "running" /\ hook' = "exited"
    /\ success' \in BOOLEAN
    /\ UNCHANGED <<main, descendant, thread, reports, completed, output, failed,
                   cancelled, expired, answer>>

Fork ==
    /\ hook = "running" /\ descendant = "none"
    /\ descendant' \in {"group", "escaped"}
    /\ UNCHANGED <<main, hook, success, thread, reports, completed, output, failed,
                   cancelled, expired, answer>>

DescendantExits ==
    /\ descendant # "none" /\ descendant' = "none"
    /\ UNCHANGED <<main, hook, success, thread, reports, completed, output, failed,
                   cancelled, expired, answer>>

MainStep ==
    Spawn \/ StartThread \/ Check \/ Receive \/ Cancel \/ Kill \/ Wait

HookNext ==
    \/ MainStep \/ Expire
    \/ \E t \in Pipes : ThreadEnds(t)
    \/ HookExits \/ Fork \/ DescendantExits

-------------------------------------------------------------------------------

HookTypeOK ==
    /\ main \in {"spawn", "threads", "check", "receive", "cancel", "kill", "wait",
                 "done"}
    /\ hook \in {"none", "running", "exited", "reaped"}
    /\ descendant \in {"none", "group", "escaped"}
    /\ thread \in [Pipes -> {"none", "running", "ended"}]
    /\ reports \subseteq [pipe : Pipes, outcome : Outcomes]
    /\ completed \in 0..3 /\ output \in Outcomes \cup {"none"}
    /\ success \in BOOLEAN /\ failed \in BOOLEAN
    /\ cancelled \in BOOLEAN /\ expired \in BOOLEAN
    /\ answer.entries \subseteq Asked

\* An answer is taken only from a hook that exited with success, after its whole
\* output was read: never from one that was cut off, whose descendants still
\* write, or that failed to take its request (runner.rs run).
AnswersAreWhole ==
    answer.status \in {"complete", "partial"} =>
        /\ hook \in {"reaped"} /\ success /\ ~failed
        /\ output = "whole"

\* The query leaves no process of the hook's group behind and no zombie, however
\* it ended (Guard::drop).
NothingIsLeft ==
    main = "done" => hook \in {"none", "reaped"} /\ descendant # "group"

\* A hook never keeps `trees status` waiting: the query ends, and so do its
\* threads, although a hook that hangs, or a descendant that left its group,
\* holds the pipes open for ever (the timeout, the cancelled flag).
QueriesEnd ==
    main = "threads" ~> main = "done" /\ \A t \in Pipes : thread[t] # "running"

HookSpec == HookInit /\ [][HookNext]_hookVars
===============================================================================
