------------------------------ MODULE Machines ------------------------------
(***************************************************************************)
(* The network screen: the machines of the party as it lists them, their   *)
(* removal, and the dialog that shows the owner key for a backup.          *)
(*                                                                         *)
(* The list is read through a loader (module Loader): one read at a time,  *)
(* one more when the control network connects or a removal returns, and    *)
(* every half minute.  The party's database (external) may not answer in   *)
(* time, which lists this device alone; it may carry out a removal that    *)
(* was given up; and other machines may change it, which nobody here is    *)
(* told.                                                                   *)
(***************************************************************************)
EXTENDS Naturals

CONSTANTS
    Machines,       \* the party's other machines
    MaxExports      \* bound on the backups asked for

\* What the constants have to be; the modules that compose this one assume it.
MachinesConstants == MaxExports \in Nat

VARIABLES
    cadre,          \* the machines of the party
    nodeUp,         \* this device's node
    readStep,       \* the loader's read
    found,          \* what it listed
    again,
    pane,           \* the screen: loading, failed, or the machines it lists
    asking,         \* the machine whose removal is being confirmed
    removals,       \* removals waited for
    lateRemovals,   \* those given up, which may still happen
    secret,         \* the dialog: closed, or what it shows
    exports,        \* keys being read
    confirmed,      \* history: the dialog was opened, and not closed since
    reopened,       \* history: a key that came after the dialog was closed
    unheard         \* history: machines that changed since the list was read, unannounced

machinesVars == <<cadre, nodeUp, readStep, found, again, pane, asking, removals, lateRemovals,
                  secret, exports, confirmed, reopened, unheard>>

NoneFound == [node |-> FALSE, whole |-> TRUE, machines |-> {}]
Statuses == [node : BOOLEAN, whole : BOOLEAN, machines : SUBSET Machines]
Pane(at, status) == [at |-> at, status |-> status]

MachinesTypeOK ==
    /\ {cadre, asking, removals, lateRemovals, unheard} \subseteq SUBSET Machines
    /\ {nodeUp, again, confirmed, reopened} \subseteq BOOLEAN
    /\ readStep \in {"idle", "reading", "read"} /\ found \in Statuses
    /\ pane \in [at : {"loading", "failed", "listed"}, status : Statuses]
    /\ secret \in {"closed", "generating", "key", "error"} /\ exports \in 0 .. MaxExports

MachinesInit ==
    /\ cadre \in SUBSET Machines /\ nodeUp \in BOOLEAN
    /\ readStep = "reading" /\ found = NoneFound /\ again = FALSE
    /\ pane = Pane("loading", NoneFound) /\ asking = {} /\ removals = {} /\ lateRemovals = {}
    /\ secret = "closed" /\ exports = 0 /\ confirmed = FALSE /\ reopened = FALSE /\ unheard = {}

listVars == <<readStep, found, again, pane>>
removalVars == <<asking, removals, lateRemovals>>
secretVars == <<secret, exports, confirmed, reopened>>

\* The loader is told to read: again, if a read is under way.
Reload ==
    /\ readStep' = IF readStep = "idle" THEN "reading" ELSE readStep
    /\ again' = (again \/ readStep # "idle")

(***************************************************************************)
(* The node and the party.                                                 *)
(***************************************************************************)

\* The control network comes and goes with the node.
Node ==
    /\ nodeUp' = ~nodeUp /\ Reload
    /\ UNCHANGED <<cadre, found, pane, removalVars, secretVars, unheard>>

\* Elsewhere a machine is added or removed.
Elsewhere(m) ==
    /\ cadre' = (cadre \ {m}) \cup ({m} \ cadre) /\ unheard' = unheard \cup {m}
    /\ UNCHANGED <<nodeUp, listVars, removalVars, secretVars>>

(***************************************************************************)
(* The list.                                                               *)
(***************************************************************************)

\* Bounded: without an answer in time only this device is listed, and without a node nothing is.
Lists(answered) ==
    /\ readStep = "reading" /\ readStep' = "read" /\ (nodeUp \/ answered)
    /\ found' = [node |-> nodeUp, whole |-> answered,
                 machines |-> IF nodeUp /\ answered THEN cadre ELSE {}]
    /\ unheard' = {}
    /\ UNCHANGED <<cadre, nodeUp, again, pane, removalVars, secretVars>>

Ends ==
    /\ readStep' = IF again THEN "reading" ELSE "idle"
    /\ again' = FALSE

Listed ==
    /\ readStep = "read" /\ pane' = Pane("listed", found) /\ Ends
    /\ UNCHANGED <<cadre, nodeUp, found, removalVars, secretVars, unheard>>

\* A failed read keeps the list there was.
ListFails ==
    /\ readStep = "reading" /\ Ends
    /\ pane' = IF pane.at = "listed" THEN pane ELSE Pane("failed", NoneFound)
    /\ unheard' = Machines
    /\ UNCHANGED <<cadre, nodeUp, found, removalVars, secretVars>>

\* The user tries again, or half a minute has passed since the last read.
ReadAgain ==
    /\ pane.at = "failed" \/ readStep = "idle"
    /\ Reload
    /\ UNCHANGED <<cadre, nodeUp, found, pane, removalVars, secretVars, unheard>>

(***************************************************************************)
(* Removing a machine.                                                     *)
(***************************************************************************)

InFront == pane.at = "listed" /\ asking = {} /\ secret = "closed"

Ask(m) ==
    /\ InFront /\ m \in pane.status.machines /\ asking' = {m}
    /\ UNCHANGED <<cadre, nodeUp, listVars, removals, lateRemovals, secretVars, unheard>>

Answer(yes) ==
    /\ asking # {} /\ asking' = {}
    /\ removals' = IF yes THEN removals \cup asking ELSE removals
    /\ UNCHANGED <<cadre, nodeUp, listVars, lateRemovals, secretVars, unheard>>

\* It returns, or fails, or is given up: either way the list is read again.
Removed(m) ==
    /\ m \in removals /\ nodeUp /\ removals' = removals \ {m} /\ cadre' = cadre \ {m} /\ Reload
    /\ UNCHANGED <<nodeUp, found, pane, asking, lateRemovals, secretVars, unheard>>

RemovalFails(m, givenUp) ==
    /\ m \in removals /\ removals' = removals \ {m} /\ Reload
    /\ lateRemovals' = IF givenUp THEN lateRemovals \cup {m} ELSE lateRemovals
    /\ UNCHANGED <<cadre, nodeUp, found, pane, asking, secretVars, unheard>>

RemovedLate(m) ==
    /\ m \in lateRemovals /\ lateRemovals' = lateRemovals \ {m}
    /\ cadre' = cadre \ {m} /\ unheard' = unheard \cup {m}
    /\ UNCHANGED <<nodeUp, listVars, asking, removals, secretVars>>

(***************************************************************************)
(* The owner key.                                                          *)
(***************************************************************************)

\* After a warning the dialog opens, and the key is read.
BackUp ==
    /\ InFront /\ exports < MaxExports /\ exports' = exports + 1
    /\ secret' = "generating" /\ confirmed' = TRUE
    /\ UNCHANGED <<cadre, nodeUp, listVars, removalVars, reopened, unheard>>

\* Read or not, what came is shown, and opens the dialog if need be.
Exported(result) ==
    /\ exports > 0 /\ exports' = exports - 1 /\ secret' = result
    /\ reopened' = (reopened \/ ~confirmed)
    /\ UNCHANGED <<cadre, nodeUp, listVars, removalVars, confirmed, unheard>>

Close ==
    /\ secret # "closed" /\ secret' = "closed" /\ confirmed' = FALSE /\ reopened' = FALSE
    /\ UNCHANGED <<cadre, nodeUp, listVars, removalVars, exports, unheard>>

MachinesNext ==
    \/ Node \/ Listed \/ ListFails \/ ReadAgain \/ BackUp \/ Close
    \/ \E m \in Machines : Elsewhere(m) \/ Ask(m) \/ Removed(m) \/ RemovedLate(m)
    \/ \E yes \in BOOLEAN : Lists(yes) \/ Answer(yes)
    \/ \E m \in Machines, givenUp \in BOOLEAN : RemovalFails(m, givenUp)
    \/ \E result \in {"key", "error"} : Exported(result)

(***************************************************************************)
(* When nothing is under way the screen lists the machines the party has   *)
(* (cadre.ts:30-31), whatever was removed meanwhile - except those that    *)
(* changed unannounced, and all of them where the party's database did not *)
(* answer in time: a machine is then not listed.  And the owner key is     *)
(* shown only while the dialog the user confirmed is open (cadre.ts:62-66) *)
(* - except that a key which comes after it was closed opens it again.     *)
(***************************************************************************)
MachinesAreTold ==
    /\ pane.at = "listed" /\ readStep = "idle" =>
          /\ pane.status.node = nodeUp \/ unheard = Machines
          /\ nodeUp /\ pane.status.whole => \A m \in Machines \ unheard :
                m \in pane.status.machines <=> m \in cadre
    /\ secret # "closed" => confirmed \/ reopened
=============================================================================
