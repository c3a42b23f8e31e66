---------------------------- MODULE MemberNames ----------------------------
(***************************************************************************)
(* The user's own names for the members of a strand: the private table     *)
(* that keeps them, the strand's screen that shows and changes them, and   *)
(* the lists that are told to read them again.                             *)
(*                                                                         *)
(* The screen's reads are not ordered: each writes what it found when it   *)
(* answers.  A list reads through a loader, once at a time (module         *)
(* Loader).  The control database (external) runs writes in order; another *)
(* machine of the party may write too, and nobody here is told.            *)
(***************************************************************************)
EXTENDS Naturals, Sequences

CONSTANTS
    Others,         \* the members beside the user
    Nicknames,      \* what the user may call them
    NoName,         \* no name of the user's own
    MaxLoads,       \* bound on the screen's reads at once
    MaxReads,       \* bound on its reads altogether, those after a save not counted
    MaxGiven        \* bound on the changes, here and elsewhere

\* What the constants have to be; the modules that compose this one assume it.
MemberNamesConstants == NoName \notin Nicknames /\ {MaxLoads, MaxReads, MaxGiven} \subseteq Nat

VARIABLES
    names,          \* the table
    version,        \* how often it changed
    rows,           \* what the screen's rows show
    rowsFrom,       \* history: which read, and of which version, they come from
    loads,          \* the screen's reads: their number, what they found
    lastLoad,       \* the number of the last
    error,          \* the screen's banner
    sheet,          \* the member being named, and the name they had
    saves,          \* names being saved
    listRead,       \* the list's read
    listFound,      \* the version it found
    listAgain,
    listVersion,    \* which version the list shows
    told            \* history: the version of the last change a list was told of

memberNamesVars == <<names, version, rows, rowsFrom, loads, lastLoad, error, sheet, saves,
                     listRead, listFound, listAgain, listVersion, told>>

Given == Nicknames \cup {NoName}
Table == [Others -> Given]
NoNames == [m \in Others |-> NoName]
Closed == [who |-> NoName, current |-> NoName]

Found == [n : Nat, at : {"asked", "read", "unread"}, names : Table, version : 0 .. MaxGiven]

MemberNamesTypeOK ==
    /\ names \in Table /\ rows \in Table
    /\ {version, listVersion, told} \subseteq 0 .. MaxGiven
    /\ rowsFrom \in [n : Nat, version : 0 .. MaxGiven, read : BOOLEAN]
    /\ loads \in Seq(Found) /\ Len(loads) <= MaxLoads /\ lastLoad \in Nat
    /\ {error, listAgain} \subseteq BOOLEAN
    /\ sheet \in [who : Others \cup {NoName}, current : Given]
    /\ saves \in Seq([who : Others, name : Given])
    /\ listRead \in {"idle", "asked", "read"} /\ listFound \in 0 .. MaxGiven

MemberNamesInit ==
    /\ names = NoNames /\ version = 0 /\ rows = NoNames
    /\ rowsFrom = [n |-> 0, version |-> 0, read |-> TRUE]
    /\ loads = <<>> /\ lastLoad = 0 /\ error = FALSE
    /\ sheet = Closed /\ saves = <<>>
    /\ listRead = "idle" /\ listFound = 0 /\ listAgain = FALSE /\ listVersion = 0 /\ told = 0

listVars == <<listRead, listFound, listAgain, listVersion, told>>

Without(seq, i) == SubSeq(seq, 1, i - 1) \o SubSeq(seq, i + 1, Len(seq))

\* A read of the screen begins.
Asked(ls) ==
    /\ lastLoad' = lastLoad + 1
    /\ loads' = Append(ls, [n |-> lastLoad', at |-> "asked", names |-> NoNames, version |-> 0])

(***************************************************************************)
(* The screen's reads.                                                     *)
(***************************************************************************)

\* The screen opens, or the user retries after a failure.
Load ==
    /\ lastLoad = 0 \/ error
    /\ Len(loads) < MaxLoads /\ lastLoad < MaxReads /\ Asked(loads)
    /\ UNCHANGED <<names, version, rows, rowsFrom, error, sheet, saves, listVars>>

\* The names are read with the members; when they cannot be, members show what they call themselves.
Reads(i, readable) ==
    /\ loads[i].at = "asked"
    /\ loads' = [loads EXCEPT ![i] =
          IF readable THEN [@ EXCEPT !.at = "read", !.names = names, !.version = version]
          ELSE [@ EXCEPT !.at = "unread"]]
    /\ UNCHANGED <<names, version, rows, rowsFrom, lastLoad, error, sheet, saves, listVars>>

\* What is found is shown, whichever was asked last.
Answers(i) ==
    /\ loads[i].at # "asked"
    /\ rows' = loads[i].names /\ error' = FALSE
    /\ rowsFrom' = [n |-> loads[i].n, version |-> loads[i].version, read |-> loads[i].at = "read"]
    /\ loads' = Without(loads, i)
    /\ UNCHANGED <<names, version, lastLoad, sheet, saves, listVars>>

LoadFails(i) ==
    /\ loads[i].at = "asked" /\ error' = TRUE /\ loads' = Without(loads, i)
    /\ UNCHANGED <<names, version, rows, rowsFrom, lastLoad, sheet, saves, listVars>>

(***************************************************************************)
(* Naming a member.                                                        *)
(***************************************************************************)

\* From the member's menu: the sheet begins with the name the row showed.
OpenSheet(m) ==
    /\ sheet = Closed /\ sheet' = [who |-> m, current |-> rows[m]]
    /\ UNCHANGED <<names, version, rows, rowsFrom, loads, lastLoad, error, saves, listVars>>

\* Save a name, typed or one of those used before, or remove the current one; or cancel.
Save(name) ==
    /\ sheet # Closed /\ sheet' = Closed
    /\ name = NoName => sheet.current # NoName
    /\ version + Len(saves) < MaxGiven
    /\ saves' = Append(saves, [who |-> sheet.who, name |-> name])
    /\ UNCHANGED <<names, version, rows, rowsFrom, loads, lastLoad, error, listVars>>

Cancel ==
    /\ sheet # Closed /\ sheet' = Closed
    /\ UNCHANGED <<names, version, rows, rowsFrom, loads, lastLoad, error, saves, listVars>>

\* The lists are told to read again.
ListsTold ==
    /\ told' = version'
    /\ IF listRead = "idle" THEN listRead' = "asked" /\ UNCHANGED listAgain
       ELSE listAgain' = TRUE /\ UNCHANGED listRead
    /\ UNCHANGED <<listFound, listVersion>>

\* The name is stored: the lists are told, and the screen reads again.
Saved ==
    /\ saves # <<>> /\ Len(loads) < MaxLoads
    /\ names' = [names EXCEPT ![Head(saves).who] = Head(saves).name] /\ version' = version + 1
    /\ saves' = Tail(saves)
    /\ ListsTold /\ Asked(loads)
    /\ UNCHANGED <<rows, rowsFrom, error, sheet>>

SaveFails ==
    /\ saves # <<>> /\ saves' = Tail(saves) /\ error' = TRUE
    /\ UNCHANGED <<names, version, rows, rowsFrom, loads, lastLoad, sheet, listVars>>

\* Another machine of the party names a member.
Elsewhere(m, name) ==
    /\ version + Len(saves) < MaxGiven
    /\ names' = [names EXCEPT ![m] = name] /\ version' = version + 1
    /\ UNCHANGED <<rows, rowsFrom, loads, lastLoad, error, sheet, saves, listVars>>

(***************************************************************************)
(* A list.                                                                 *)
(***************************************************************************)

ListReads ==
    /\ listRead = "asked" /\ listRead' = "read" /\ listFound' = version
    /\ UNCHANGED <<names, version, rows, rowsFrom, loads, lastLoad, error, sheet, saves,
                   listAgain, listVersion, told>>

ListShows ==
    /\ listRead = "read" /\ listVersion' = listFound /\ listAgain' = FALSE
    /\ listRead' = IF listAgain THEN "asked" ELSE "idle"
    /\ UNCHANGED <<names, version, rows, rowsFrom, loads, lastLoad, error, sheet, saves, listFound, told>>

MemberNamesNext ==
    \/ Load \/ Cancel \/ Saved \/ SaveFails \/ ListReads \/ ListShows
    \/ \E i \in DOMAIN loads : Answers(i) \/ LoadFails(i) \/ \E readable \in BOOLEAN : Reads(i, readable)
    \/ \E m \in Others : OpenSheet(m) \/ \E name \in Given : Elsewhere(m, name)
    \/ \E name \in Given : Save(name)

(***************************************************************************)
(* When nothing is under way, the lists and the screen show every name     *)
(* saved here ("so lists that show names re-read them", model.ts:112).     *)
(* Except, on the screen, when an older read answered last, the names      *)
(* could not be read, or a read or save failed, of which the banner tells. *)
(***************************************************************************)
NamesFollow ==
    /\ listRead = "idle" => listVersion >= told
    /\ loads = <<>> /\ saves = <<>> /\ ~error /\ rowsFrom.n = lastLoad /\ rowsFrom.read =>
          rowsFrom.version >= told
=============================================================================
