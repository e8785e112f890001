------------------------------- MODULE Sessions -------------------------------
(***************************************************************************)
(* A session: a program that runs in a claimed workspace, which is         *)
(* released when the program ends (`--release-on-exit`).                   *)
(*                                                                         *)
(* The supervisor sleeps in poll(2).  A signal handler only records that a *)
(* termination was asked for and wakes it through a pipe; the loop then    *)
(* looks for the child's exit, forwards the request and sleeps again.      *)
(* When the release fails while the claim is still held, a shell for the   *)
(* user runs under the same supervisor and the release is tried again.     *)
(*                                                                         *)
(* Abstractions.  A handler may run on any thread, so that its two steps   *)
(* interleave with those of the loop.  Of the terminal's own signals only  *)
(* the wake-up is modelled: the child gets them by itself.  A release is   *)
(* one step, refused for any reason of Access, and the claim may meanwhile *)
(* be released, and the workspace claimed again, by others.                *)
(***************************************************************************)
EXTENDS Naturals, FiniteSets

CONSTANTS
    MaxSignals,  \* bound: terminations asked for, and signals of the terminal
    MaxErrors    \* bound: releases, reads and system calls that fail

ASSUME SessionAssumption == MaxSignals \in Nat /\ MaxErrors \in Nat

VARIABLES
    spc,        \* the next step of the session
    claimed,    \* the workspace: claimed by this session, by others, or idle
    child,      \* none, running, zombie (ended, not reaped), reaped
    told,       \* was the child sent SIGTERM since it was last asked for?
    terminate,  \* TERMINATE
    wakeup,     \* is there a byte in the pipe?
    installed,  \* are the handlers and the pipe in place?
    handlers,   \* the handlers that run, before their write
    outcome,    \* of the first program: none, a status, or the error
    code,       \* the exit code of the session
    shells,     \* recovery shells, for the bounds of a run
    signals,    \* signals left
    errors      \* errors left

sessionVars == <<spc, claimed, child, told, terminate, wakeup, installed,
                 handlers, outcome, code, shells, signals, errors>>
notices == <<terminate, wakeup, installed, handlers>>

SessionInit ==
    /\ spc = "new" /\ claimed = "mine" /\ child = "none" /\ told = FALSE
    /\ terminate = FALSE /\ wakeup = FALSE /\ installed = FALSE /\ handlers = {}
    /\ outcome = "none" /\ code = "none" /\ shells = 0
    /\ signals = MaxSignals /\ errors = MaxErrors

Goes(from, to) == spc = from /\ spc' = to
Errs == errors > 0 /\ errors' = errors - 1

\* SessionReport::exit_code: that of the first program, but a failed cleanup is
\* never reported as success.
ExitCode(succeeded) ==
    IF outcome = "zero" /\ succeeded THEN "success" ELSE "failure"

(***************************************************************************)
(* run and Supervisor::new.                                                *)
(***************************************************************************)

\* Before the handlers are in place, so that no request of theirs is lost.
ResetRequests ==
    /\ Goes("new", "install") /\ terminate' = FALSE
    /\ UNCHANGED <<claimed, child, told, wakeup, installed, handlers, outcome, code,
                   shells, signals, errors>>

\* Without supervision nothing runs, and the workspace is released.
Install ==
    /\ \/ Goes("install", "spawn") /\ installed' = TRUE /\ UNCHANGED <<outcome, errors>>
       \/ Errs /\ Goes("install", "release") /\ outcome' = "supervision"
          /\ UNCHANGED installed
    /\ UNCHANGED <<claimed, child, told, terminate, wakeup, handlers, code, shells,
                   signals>>

\* run_child: the first program, and the shells.
SpawnChild ==
    /\ \/ /\ Goes("spawn", "try_wait") /\ child' = "running" /\ told' = FALSE
          /\ UNCHANGED <<outcome, code, errors>>
       \/ /\ Errs /\ UNCHANGED <<child, told>>
          /\ IF outcome = "none"
             THEN Goes("spawn", "release") /\ outcome' = "start" /\ UNCHANGED code
             ELSE Goes("spawn", "over") /\ UNCHANGED outcome
                  /\ code' = ExitCode(FALSE)
    /\ UNCHANGED <<claimed, notices, shells, signals>>

(***************************************************************************)
(* Supervisor::wait.                                                       *)
(***************************************************************************)

\* Mutant: an error of the wait counts as the end of the program.
ReleaseAnyway(result) == TRUE
\* cleanup_after: only an error of the wait leaves the child's end in doubt.
CanRelease(result) == result # "wait"

\* Whoever waited, its result is the outcome of the first program, or ends the
\* recovery with an error if it was a shell.
Waited(result) ==
    IF outcome = "none"
    THEN /\ outcome' = result
         /\ spc' = IF CanRelease(result) THEN "release" ELSE "over"
         /\ code' = IF CanRelease(result) THEN code ELSE "failure"
    ELSE /\ UNCHANGED outcome
         /\ spc' = IF result = "wait" THEN "over" ELSE "release"
         /\ code' = IF result = "wait" THEN ExitCode(FALSE) ELSE code

TryWait ==
    /\ spc = "try_wait"
    /\ \/ /\ child = "zombie" /\ child' = "reaped"
          /\ \E status \in {"zero", "nonzero"} : Waited(status)
          /\ UNCHANGED errors
       \/ child = "running" /\ spc' = "swap" /\ UNCHANGED <<child, outcome, code, errors>>
       \/ Errs /\ Waited("wait") /\ UNCHANGED child
    /\ UNCHANGED <<claimed, told, notices, shells, signals>>

\* TERMINATE.swap(false).
Swap ==
    /\ spc = "swap" /\ spc' = IF terminate THEN "kill" ELSE "poll"
    /\ terminate' = FALSE
    /\ UNCHANGED <<claimed, child, told, wakeup, installed, handlers, outcome, code,
                   shells, signals, errors>>

\* kill(SIGTERM): a child that is not reaped keeps its PID; EPERM is an error.
KillChild ==
    /\ spc = "kill"
    /\ \/ /\ spc' = "poll" /\ told' = TRUE /\ UNCHANGED <<outcome, code, errors>>
       \/ Errs /\ Waited("wait") /\ UNCHANGED told
    /\ UNCHANGED <<claimed, child, notices, shells, signals>>

\* A byte is there, or the handler that wrote it interrupted the call (EINTR),
\* and then it is not read yet.
Poll ==
    /\ \/ Goes("poll", "drain") /\ wakeup /\ UNCHANGED <<outcome, code, errors>>
       \/ Goes("poll", "try_wait") /\ wakeup /\ UNCHANGED <<outcome, code, errors>>
       \/ spc = "poll" /\ Errs /\ Waited("wait")
    /\ UNCHANGED <<claimed, child, told, notices, shells, signals>>

Drain ==
    /\ Goes("drain", "try_wait") /\ wakeup' = FALSE
    /\ UNCHANGED <<claimed, child, told, terminate, installed, handlers, outcome, code,
                   shells, signals, errors>>

(***************************************************************************)
(* The handlers: notify.                                                   *)
(***************************************************************************)

\* Mutant: the handlers are those of the requests of a user.
RequestsOnly == {"term", "int"}
\* The signals that have a handler: SIGTERM, SIGINT and SIGQUIT, and SIGCHLD.
Handled == {"term", "int", "child"}

\* Mutant: the pipe is written before the request is recorded.
WriteFirst == "write"
\* TERMINATE is stored before the byte is written.
StoreFirst == "store"

\* A handler starts: a request to terminate, or SIGINT, SIGQUIT or SIGCHLD.
Notify(signal) ==
    IF StoreFirst = "store"
    THEN /\ terminate' = (terminate \/ signal = "term")
         /\ handlers' = handlers \cup {<<signal, "write">>} /\ UNCHANGED wakeup
         /\ told' = (told /\ signal # "term")
    ELSE /\ wakeup' = TRUE
         /\ handlers' = handlers \cup {<<signal, "store">>} /\ UNCHANGED terminate
         /\ told' = (told /\ signal # "term")

Signal ==
    /\ installed /\ signals > 0 /\ signals' = signals - 1
    /\ spc # "over"
    /\ \E signal \in Handled \ {"child"} : Notify(signal)
    /\ UNCHANGED <<spc, claimed, child, installed, outcome, code, shells, errors>>

HandlerEnds ==
    /\ \E h \in handlers :
          /\ handlers' = handlers \ {h}
          /\ wakeup' = (wakeup \/ h[2] = "write")
          /\ terminate' = (terminate \/ h = <<"term", "store">>)
    /\ UNCHANGED <<spc, claimed, child, told, installed, outcome, code, shells,
                   signals, errors>>

\* The program ends, by itself or because it was told to: SIGCHLD.
ChildExits ==
    /\ child = "running" /\ child' = "zombie"
    /\ IF "child" \in Handled THEN Notify("child")
       ELSE UNCHANGED <<handlers, wakeup, terminate, told>>
    /\ UNCHANGED <<spc, claimed, installed, outcome, code, shells, signals,
                   errors>>

(***************************************************************************)
(* recover.                                                                *)
(***************************************************************************)

\* release_original: by the claim that this session holds.
OwnerOnly == claimed = "mine"

Release ==
    /\ spc = "release"
    /\ \/ /\ OwnerOnly /\ claimed' = "idle"
          /\ spc' = "over" /\ code' = ExitCode(TRUE) /\ UNCHANGED errors
       \/ /\ (~OwnerOnly /\ UNCHANGED errors) \/ Errs
          /\ UNCHANGED claimed
          /\ IF installed THEN spc' = "check" /\ UNCHANGED code
             ELSE spc' = "over" /\ code' = ExitCode(FALSE)
    /\ UNCHANGED <<child, told, notices, outcome, shells, signals>>

\* Mutant: a claim that cannot be read is taken to be over.
ReadFailureIsInactive == TRUE
\* `?` on the connection and the query: the session fails.
ReadFailureIsError == FALSE

\* original_claim_active, and whether there is somebody to help.
CheckClaim ==
    /\ spc = "check"
    /\ \/ /\ claimed # "mine"
          /\ spc' = "over" /\ code' = ExitCode(TRUE) /\ UNCHANGED <<shells, errors>>
       \/ /\ claimed = "mine" /\ shells < MaxErrors
          /\ spc' = "spawn" /\ shells' = shells + 1 /\ UNCHANGED <<code, errors>>
       \/ /\ claimed = "mine"  \* no terminal, or no $SHELL
          /\ spc' = "over" /\ code' = ExitCode(FALSE) /\ UNCHANGED <<shells, errors>>
       \/ /\ Errs /\ UNCHANGED shells
          /\ spc' = "over" /\ code' = ExitCode(ReadFailureIsError)
    /\ UNCHANGED <<claimed, child, told, notices, outcome, signals>>

\* Somebody else releases the workspace, or claims it.
Others ==
    /\ \/ claimed = "mine" /\ claimed' = "idle"
       \/ claimed = "idle" /\ claimed' = "theirs"
    /\ UNCHANGED <<spc, child, told, notices, outcome, code, shells, signals, errors>>

SessionStep ==
    \/ ResetRequests \/ Install \/ SpawnChild \/ TryWait \/ Swap \/ KillChild
    \/ Poll \/ Drain \/ Release \/ CheckClaim

SessionNext ==
    SessionStep \/ Signal \/ HandlerEnds \/ ChildExits \/ Others

-------------------------------------------------------------------------------

SessionTypeOK ==
    /\ spc \in {"new", "install", "spawn", "try_wait", "swap", "kill", "poll",
                "drain", "release", "check", "over"}
    /\ claimed \in {"mine", "theirs", "idle"}
    /\ child \in {"none", "running", "zombie", "reaped"}
    /\ told \in BOOLEAN /\ terminate \in BOOLEAN
    /\ wakeup \in BOOLEAN /\ installed \in BOOLEAN
    /\ handlers \subseteq {"term", "int", "child"} \X {"store", "write"}
    /\ outcome \in {"none", "zero", "nonzero", "supervision", "start", "wait"}
    /\ code \in {"none", "success", "failure"} /\ shells \in 0..MaxErrors
    /\ signals \in 0..MaxSignals /\ errors \in 0..MaxErrors

\* A session never releases the workspace under a program that may still run,
\* nor one that somebody else claimed since (cleanup_after, release_original).
ReleasesOnlyItsOwn ==
    [][Release /\ claimed' # claimed =>
         child \in {"none", "reaped"} /\ claimed = "mine"]_sessionVars

\* The exit code tells the truth: it is zero only if the program was seen to
\* succeed and the workspace is not claimed by the session any more (exit_code).
ZeroMeansReleased ==
    code = "success" => outcome = "zero" /\ claimed # "mine"

\* A request to terminate reaches the program: whenever SIGTERM comes, while the
\* loop looks, sleeps or empties the pipe, the program is sent it, unless it has
\* ended or the supervision failed (signals.rs notify and wait).
TerminationReachesChild ==
    terminate /\ installed /\ child = "running" ~> told \/ child # "running" \/ spc = "over"

\* The end of the program is noticed: the session does not sleep for ever over a
\* child that is dead (the self-pipe).
ExitIsNoticed ==
    child = "zombie" ~> child # "zombie" \/ spc = "over"

SessionSpec == SessionInit /\ [][SessionNext]_sessionVars
===============================================================================
