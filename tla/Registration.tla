--------------------------- MODULE Registration ---------------------------
(***************************************************************************)
(* This device's Member row in each strand: registered when a strand is    *)
(* attached and before every message, once per strand and name in a        *)
(* session, and renamed in every strand when the profile changes.          *)
(*                                                                         *)
(* The strand's database (external) runs one statement after the other,    *)
(* and what it was asked resolves in that order: a statement and what      *)
(* follows it up to the next await are one action.  It may fail, and the   *)
(* members may refuse a row written offline.                               *)
(***************************************************************************)
EXTENDS Naturals

CONSTANTS
    Strands,
    Names,          \* profile names
    FirstName,      \* what stands for it until one is entered: the start of the peer id
    Senders,        \* calls of send, and attaches, that may run at once
    MaxRenames,     \* bound on changes of the profile
    None

\* What the constants have to be; the modules that compose this one assume it.
RegistrationConstants ==
    /\ FirstName \in Names /\ None \notin Names /\ MaxRenames \in Nat
    /\ Senders \cap (1 .. MaxRenames) = {}

VARIABLES
    profile,        \* the name in the slot `profile`
    renames,        \* how often it changed
    row,            \* the name in this device's Member row of each strand
    registeredAs,
    task,           \* each registerSelf, and the one syncProfileName of each rename
    todo,           \* the strands each sync still goes through
    spoke,          \* history: strands with a message of this device
    ignored,        \* history: strands where an insert found the row there already
    refused         \* history: strands whose members refused the row

registrationVars == <<profile, renames, row, registeredAs, task, todo, spoke, ignored, refused>>

Syncs == 1 .. MaxRenames
Tasks == Senders \cup Syncs
NoTask == [pc |-> "idle", strand |-> None, name |-> None, current |-> None, sends |-> FALSE]

RegistrationTypeOK ==
    /\ profile \in Names /\ renames \in 0 .. MaxRenames
    /\ row \in [Strands -> Names \cup {None}] /\ registeredAs \in [Strands -> Names \cup {None}]
    /\ task \in [Tasks -> [pc : {"idle", "name", "row", "write", "members", "insert", "next"},
                           strand : Strands \cup {None}, name : Names \cup {None},
                           current : Names \cup {None}, sends : BOOLEAN]]
    /\ todo \in [Syncs -> SUBSET Strands]
    /\ spoke \subseteq Strands /\ ignored \subseteq Strands /\ refused \subseteq Strands

RegistrationInit ==
    /\ profile = FirstName /\ renames = 0
    /\ row = [s \in Strands |-> None] /\ registeredAs = [s \in Strands |-> None]
    /\ task = [t \in Tasks |-> NoTask] /\ todo = [n \in Syncs |-> {}]
    /\ spoke = {} /\ ignored = {} /\ refused = {}

To(pc, s) == [NoTask EXCEPT !.pc = pc, !.strand = s, !.sends = TRUE]

\* After registerSelf a send goes on, and an attach is done.
Registered(t) == [task EXCEPT ![t] = IF @.sends THEN To("insert", @.strand) ELSE NoTask]

\* After a strand, syncProfileName goes on with the next.
GoesOn(t) ==
    IF t \in Syncs THEN [task EXCEPT ![t] = [NoTask EXCEPT !.pc = "next", !.name = task[t].name]]
    ELSE Registered(t)

(***************************************************************************)
(* registerSelf, on its own or at the beginning of a send.                 *)
(***************************************************************************)

registerSelf(t, s, sends) ==
    /\ task[t].pc = "idle"
    /\ task' = [task EXCEPT ![t] = [NoTask EXCEPT !.pc = "name", !.strand = s, !.sends = sends]]
    /\ UNCHANGED <<profile, renames, row, registeredAs, todo, spoke, ignored, refused>>

\* Mutant: the strand is taken to be registered before its row is written.
NameRead_MarksFirst(t) ==
    /\ t \in Senders /\ task[t].pc = "name"
    /\ task' = IF registeredAs[task[t].strand] = profile THEN Registered(t)
               ELSE [task EXCEPT ![t].pc = "row", ![t].name = profile]
    /\ registeredAs' = [registeredAs EXCEPT ![task[t].strand] = profile]
    /\ UNCHANGED <<profile, renames, row, todo, spoke, ignored, refused>>

\* displayName is read; a strand known to have it is done.
NameRead(t) ==
    /\ t \in Senders /\ task[t].pc = "name"
    /\ task' = IF registeredAs[task[t].strand] = profile THEN Registered(t)
               ELSE [task EXCEPT ![t].pc = "row", ![t].name = profile]
    /\ UNCHANGED <<profile, renames, row, registeredAs, todo, spoke, ignored, refused>>

(***************************************************************************)
(* upsertMember: read first, write only what changed.                      *)
(***************************************************************************)

RowRead(t) ==
    /\ task[t].pc = "row"
    /\ IF row[task[t].strand] = task[t].name
       THEN /\ registeredAs' = [registeredAs EXCEPT ![task[t].strand] = task[t].name]
            /\ task' = GoesOn(t)
       ELSE /\ task' = [task EXCEPT ![t].pc = "write", ![t].current = row[task[t].strand]]
            /\ UNCHANGED registeredAs
    /\ UNCHANGED <<profile, renames, row, todo, spoke, ignored, refused>>

\* An insert-or-ignore where no row was seen, else an update.
RowWritten(t) ==
    /\ task[t].pc = "write"
    /\ LET s == task[t].strand
           there == row[s] # None
           inserts == task[t].current = None
       IN  /\ row' = IF inserts = there THEN row ELSE [row EXCEPT ![s] = task[t].name]
           /\ ignored' = IF inserts /\ there THEN ignored \cup {s} ELSE ignored
           /\ registeredAs' = [registeredAs EXCEPT ![s] = task[t].name]
    /\ task' = GoesOn(t)
    /\ UNCHANGED <<profile, renames, todo, spoke, refused>>

\* A statement fails: a send looks whether this device is a member all the same.
RowFails(t) ==
    /\ task[t].pc \in {"row", "write"}
    /\ task' = IF t \in Syncs THEN GoesOn(t)
               ELSE [task EXCEPT ![t] = IF @.sends THEN To("members", @.strand) ELSE NoTask]
    /\ UNCHANGED <<profile, renames, row, registeredAs, todo, spoke, ignored, refused>>

(***************************************************************************)
(* Sending.                                                                *)
(***************************************************************************)

\* Without a row it fails as not a member.
MembersRead(t) ==
    /\ task[t].pc = "members"
    /\ task' = IF row[task[t].strand] = None THEN [task EXCEPT ![t] = NoTask]
               ELSE [task EXCEPT ![t].pc = "insert"]
    /\ UNCHANGED <<profile, renames, row, registeredAs, todo, spoke, ignored, refused>>

Inserted(t) ==
    /\ task[t].pc = "insert"
    /\ spoke' = spoke \cup {task[t].strand} /\ task' = [task EXCEPT ![t] = NoTask]
    /\ UNCHANGED <<profile, renames, row, registeredAs, todo, ignored, refused>>

(***************************************************************************)
(* The profile.                                                            *)
(***************************************************************************)

\* profile.save: the slot is written, then syncProfileName begins.
SaveProfile(name) ==
    /\ renames < MaxRenames /\ name # profile
    /\ profile' = name /\ renames' = renames + 1
    /\ task' = [task EXCEPT ![renames'] = [NoTask EXCEPT !.pc = "name"]]
    /\ UNCHANGED <<row, registeredAs, todo, spoke, ignored, refused>>

\* The name is read again; the strands attached then are gone through.
SyncNameRead(n) ==
    /\ task[n].pc = "name"
    /\ task' = [task EXCEPT ![n].pc = "next", ![n].name = profile]
    /\ \E attached \in SUBSET Strands : todo' = [todo EXCEPT ![n] = attached]
    /\ UNCHANGED <<profile, renames, row, registeredAs, spoke, ignored, refused>>

SyncNext(n) ==
    /\ task[n].pc = "next"
    /\ \/ /\ todo[n] = {} /\ task' = [task EXCEPT ![n] = NoTask] /\ UNCHANGED todo
       \/ \E s \in todo[n] : /\ todo' = [todo EXCEPT ![n] = @ \ {s}]
                             /\ task' = [task EXCEPT ![n].pc = "row", ![n].strand = s]
    /\ UNCHANGED <<profile, renames, row, registeredAs, spoke, ignored, refused>>

\* The members refuse a row written offline: it leaves this device's view (external).
Refuse(s) ==
    /\ row[s] # None /\ s \notin refused
    /\ row' = [row EXCEPT ![s] = None] /\ refused' = refused \cup {s}
    /\ UNCHANGED <<profile, renames, registeredAs, task, todo, spoke, ignored>>

\* The process dies: what was registered is forgotten.
Crash ==
    /\ task' = [t \in Tasks |-> NoTask] /\ todo' = [n \in Syncs |-> {}]
    /\ registeredAs' = [s \in Strands |-> None]
    /\ UNCHANGED <<profile, renames, row, spoke, ignored, refused>>

RegistrationNext ==
    \/ \E t \in Senders, s \in Strands, sends \in BOOLEAN : registerSelf(t, s, sends)
    \/ \E t \in Tasks :
         NameRead(t) \/ RowRead(t) \/ RowWritten(t) \/ RowFails(t) \/ MembersRead(t) \/ Inserted(t)
    \/ \E name \in Names : SaveProfile(name)
    \/ \E n \in Syncs : SyncNameRead(n) \/ SyncNext(n)
    \/ \E s \in Strands : Refuse(s)
    \/ Crash

\* A strand taken to be registered under the name of the profile, so that no later send looks
\* again, has that name in its row (strands.ts:33-36), however registrations and renames
\* interleaved; and a message is only written where this device has a row (model.ts:374-377).
\* Except where the row was refused, and for the name where an insert was ignored since another
\* one had put a row there.
NameIsRegistered ==
    /\ \A s \in Strands \ (ignored \cup refused) :
         registeredAs[s] = profile => row[s] = profile
    /\ \A s \in spoke \ refused : row[s] # None
=============================================================================
