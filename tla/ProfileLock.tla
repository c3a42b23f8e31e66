---------------------------- MODULE ProfileLock ----------------------------
(***************************************************************************)
(* The lock file of a command-line profile: created exclusively, holding   *)
(* the process id; one left by a process that is gone is taken over.       *)
(* Processes interleave between the calls on the file.                     *)
(***************************************************************************)
EXTENDS Naturals, FiniteSets

CONSTANTS Processes, None

VARIABLES
    file,       \* the lock file: who created it, in which attempt, whether it holds the id
    proc,       \* where each process is, its attempt and the file it read
    raced       \* history: a takeover removed the file of a process that was creating it

lockVars == <<file, proc, raced>>

Files == [by : Processes, attempt : 1 .. 2, written : BOOLEAN]

\* What the constants have to be; the modules that compose this one assume it.
LockConstants == None \notin Files

LockTypeOK ==
    /\ file \in Files \cup {None}
    /\ proc \in [Processes -> [pc : {"idle", "create", "write", "read", "take", "holds", "gone"},
                               attempt : 1 .. 2, seen : Files \cup {None}]]
    /\ raced \in BOOLEAN

LockInit ==
    /\ file = None /\ raced = FALSE
    /\ proc = [p \in Processes |-> [pc |-> "idle", attempt |-> 1, seen |-> None]]

\* The process exists.
isRunning(p) == proc[p].pc \notin {"idle", "gone"}

Goes(p, pc) == proc' = [proc EXCEPT ![p].pc = pc]

Starts(p) == proc[p].pc = "idle" /\ Goes(p, "create") /\ UNCHANGED <<file, raced>>

\* writeFile with `wx` creates the file, or finds it there.
Create(p) ==
    /\ proc[p].pc = "create"
    /\ \/ /\ file = None
          /\ file' = [by |-> p, attempt |-> proc[p].attempt, written |-> FALSE]
          /\ Goes(p, "write")
       \/ file # None /\ Goes(p, "read") /\ UNCHANGED file
    /\ UNCHANGED raced

\* Then it writes the id, into the file it created: a file removed meanwhile stays removed.
Write(p) ==
    /\ proc[p].pc = "write" /\ Goes(p, "holds")
    /\ file' = IF file # None /\ file = [by |-> p, attempt |-> proc[p].attempt, written |-> FALSE]
               THEN [file EXCEPT !.written = TRUE] ELSE file
    /\ UNCHANGED raced

\* Mutant: a lock is taken over without looking whether its holder runs.
Read_NoLiveness(p) ==
    /\ proc[p].pc = "read" /\ proc' = [proc EXCEPT ![p].pc = "take", ![p].seen = file]
    /\ UNCHANGED <<file, raced>>

\* It was there: its holder is read.  A holder that runs has it.
Read(p) ==
    /\ proc[p].pc = "read"
    /\ IF file # None /\ file.written /\ file.by # p /\ isRunning(file.by)
       THEN Goes(p, "gone")
       ELSE proc' = [proc EXCEPT ![p].pc = "take", ![p].seen = file]
    /\ UNCHANGED <<file, raced>>

\* No holder, or one that is gone: the file there now is removed, and the lock tried once more.
Take(p) ==
    /\ proc[p].pc = "take"
    /\ file' = None
    /\ raced' = \/ raced
                \/ /\ file # None /\ isRunning(file.by)
                   /\ file # proc[p].seen \/ ~proc[p].seen.written
    /\ proc' = IF proc[p].attempt = 1
               THEN [proc EXCEPT ![p] = [pc |-> "create", attempt |-> 2, seen |-> None]]
               ELSE [proc EXCEPT ![p].pc = "gone"]

\* A process that has the lock removes it on its way out.
Exit(p) ==
    /\ proc[p].pc = "holds" /\ Goes(p, "gone")
    /\ file' = None /\ UNCHANGED raced

\* A process dies; the file stays.
Dies(p) == isRunning(p) /\ Goes(p, "gone") /\ UNCHANGED <<file, raced>>

LockNext ==
    \E p \in Processes :
        Starts(p) \/ Create(p) \/ Write(p) \/ Read(p) \/ Take(p) \/ Exit(p) \/ Dies(p)

LockSpec == LockInit /\ [][LockNext]_lockVars

\* One process per profile (home.ts:122): whoever crashed holding the lock, or creating it,
\* at most one process has it.  Except after a takeover removed a file that a running
\* process had created since, or had not written its id to yet.
OneProcess == ~raced => Cardinality({p \in Processes : proc[p].pc = "holds"}) <= 1
=============================================================================
