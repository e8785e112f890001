------------------------------- MODULE Programs --------------------------------
(***************************************************************************)
(* The parts of trees that work beside the lifecycle of workspaces: origin *)
(* repositories, sessions, the cache of sizes and the scan that measures   *)
(* them, and what `trees status` asks the database, the system and a hook. *)
(*                                                                         *)
(* These parts share no state that the models keep: a clone, a session, a  *)
(* measurement and a report do not see one another.  Interleaving their    *)
(* steps would show nothing, so that a behaviour takes one program and is  *)
(* a behaviour of it, while the variables of the others stay as they are.  *)
(***************************************************************************)
EXTENDS Origins, Sessions, Sizes, DiskUsage, HookRunner, ProcessProbe, Status,
        Labels

VARIABLE program  \* the program that runs

programVars == <<program, originVars, sessionVars, sizeVars, scanVars, hookVars,
                 probeVars, statusVars, labelVars>>

Runs(this) == program = this /\ UNCHANGED program

\* The inputs of a program that does not run are not enumerated: any will do.
Chosen(this, set) == IF program = this THEN set ELSE {CHOOSE x \in set : TRUE}

ProgramsInit ==
    /\ program \in {"origins", "session", "sizes", "scan", "hook", "probe",
                    "report", "labels"}
    /\ names \in Chosen("scan", Trees)
    /\ blocks \in Chosen("scan", Blocks)
    /\ holder \in Chosen("probe", Holders)
    /\ view \in Chosen("report", Views)
    /\ from \in Chosen("report", WorkingDirectories)
    /\ tables \in Chosen("report", InitialTables)
    /\ sources \in Chosen("labels", Tables)
    /\ OriginsInit /\ SessionInit /\ SizesInit /\ DiskInit /\ HookInit
    /\ ProbeInit /\ StatusInit /\ LabelsInit

ProgramsNext ==
    \/ /\ Runs("origins") /\ OriginsNext
       /\ UNCHANGED <<sessionVars, sizeVars, scanVars, hookVars, probeVars,
                      statusVars, labelVars>>
    \/ /\ Runs("session") /\ SessionNext
       /\ UNCHANGED <<originVars, sizeVars, scanVars, hookVars, probeVars,
                      statusVars, labelVars>>
    \/ /\ Runs("sizes") /\ SizesNext
       /\ UNCHANGED <<originVars, sessionVars, scanVars, hookVars, probeVars,
                      statusVars, labelVars>>
    \/ /\ Runs("scan") /\ DiskNext
       /\ UNCHANGED <<originVars, sessionVars, sizeVars, hookVars, probeVars,
                      statusVars, labelVars>>
    \/ /\ Runs("hook") /\ HookNext
       /\ UNCHANGED <<originVars, sessionVars, sizeVars, scanVars, probeVars,
                      statusVars, labelVars>>
    \/ /\ Runs("probe") /\ ProbeNext
       /\ UNCHANGED <<originVars, sessionVars, sizeVars, scanVars, hookVars,
                      statusVars, labelVars>>
    \/ /\ Runs("report") /\ StatusNext
       /\ UNCHANGED <<originVars, sessionVars, sizeVars, scanVars, hookVars,
                      probeVars, labelVars>>
    \/ /\ Runs("labels") /\ LabelsNext
       /\ UNCHANGED <<originVars, sessionVars, sizeVars, scanVars, hookVars,
                      probeVars, statusVars>>

\* A command that runs goes on, and a URL that was asked for is asked for
\* again: the retry that the messages of these errors call for.  The loop of a
\* session and its handlers run.  The main thread of a query runs, time passes,
\* and a thread of it that can end is scheduled.
ProgramsFairness ==
    /\ \A p \in Cloners : WF_originVars(program = "origins" /\ OriginWork(p))
    /\ SF_originVars(program = "origins" /\ Ask)
    /\ WF_sessionVars(program = "session" /\ SessionStep)
    /\ WF_sessionVars(program = "session" /\ HandlerEnds)
    /\ WF_hookVars(program = "hook" /\ MainStep)
    /\ WF_hookVars(program = "hook" /\ Expire)
    /\ \A t \in Pipes : WF_hookVars(program = "hook" /\ ThreadEnds(t) /\ MustEnd(t))

-------------------------------------------------------------------------------

ProgramsTypeOK ==
    OriginsTypeOK /\ SessionTypeOK /\ SizesTypeOK /\ HookTypeOK /\ ProbeTypeOK

ProgramsSpec == ProgramsInit /\ [][ProgramsNext]_programVars /\ ProgramsFairness
===============================================================================
