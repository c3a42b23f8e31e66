------------------------------ MODULE Session ------------------------------
(***************************************************************************)
(* A session of the command line: what a row number names, and how a run   *)
(* of commands begins and ends.                                            *)
(*                                                                         *)
(* The rows of the last listing of strands, and of each strand's messages, *)
(* are kept in memory and in the profile, so that a row number means what  *)
(* was printed.  Those of members, invitations and relays are not: a row   *)
(* number counts in the list there is now.  A run of a script ends at the  *)
(* first command that fails; the prompt (module Serchat) goes on.  Runs on *)
(* one profile follow one another (module ProfileLock).                    *)
(***************************************************************************)
EXTENDS Naturals, Sequences, SequencesExt

CONSTANTS
    Kept,           \* kinds of listing whose rows are kept
    Fresh,          \* kinds whose rows are not
    Things,         \* what is listed
    Nothing,
    MaxCommands,    \* bound on the commands, all runs together
    MaxMoves        \* bound on the changes of the lists

\* What the constants have to be; the modules that compose this one assume it.
SessionConstants ==
    /\ Kept \cap Fresh = {} /\ Nothing \notin Things /\ {MaxCommands, MaxMoves} \subseteq Nat
    /\ (Kept \cup Fresh) \cap {"none", "asks", "acts"} = {}

VARIABLES
    phase,          \* of the run
    atPrompt,       \* it runs a prompt, not a script
    up,             \* its node started
    now,            \* the lists as the model gives them
    moves,
    printed,        \* history: each kind's listing as last printed
    last,           \* the rows in memory, once read
    file,           \* the rows in the profile
    command,        \* the command that runs, after what it read
    commands,
    founding,       \* a conversation made for an invitation
    acted,          \* history: what was at the row when printed, and what was acted on
    unseen, shifted, hurried    \* history: see RowsAreAsPrinted, FoundedIsStarted

sessionVars == <<phase, atPrompt, up, now, moves, printed, last, file, command, commands, founding,
                 acted, unseen, shifted, hurried>>

Kinds == Kept \cup Fresh
Listings == {s \in SeqOf(Things, 2) : IsInjective(s)}
NoRows == [k \in Kept |-> <<>>]
Idle == [at |-> "none", rows |-> <<>>, saved |-> FALSE, thing |-> Nothing, meant |-> Nothing]

SessionTypeOK ==
    /\ phase \in {"off", "starting", "settling", "commands", "background", "draining", "stopping"}
    /\ {atPrompt, up, unseen, shifted, hurried} \subseteq BOOLEAN
    /\ now \in [Kinds -> Listings] /\ printed \in [Kinds -> Listings]
    /\ last.read \in BOOLEAN /\ last.rows \in [Kept -> Listings] /\ file \in [Kept -> Listings]
    /\ command.at \in {"none", "asks", "acts"} \cup Kinds /\ command.rows \in Listings
    /\ command.saved \in BOOLEAN
    /\ {command.thing, command.meant} \subseteq Things \cup {Nothing}
    /\ commands \in 0 .. MaxCommands /\ moves \in 0 .. MaxMoves
    /\ founding \in {"none", "published", "started"}
    /\ acted \in (Things \cup {Nothing}) \X (Things \cup {Nothing})

SessionInit ==
    /\ phase = "off" /\ atPrompt = FALSE /\ up = FALSE
    /\ now = [k \in Kinds |-> <<>>] /\ printed = now /\ moves = 0
    /\ last = [read |-> FALSE, rows |-> NoRows] /\ file = NoRows
    /\ command = Idle /\ commands = 0 /\ founding = "none" /\ acted = <<Nothing, Nothing>>
    /\ unseen = FALSE /\ shifted = FALSE /\ hurried = FALSE

rowVars == <<printed, last, file, acted, unseen, shifted>>
runVars == <<phase, atPrompt, up, founding, hurried>>
listVars == <<now, moves>>

\* A command's end: a script goes no further than the first that fails.
Ends == command' = Idle /\ UNCHANGED phase
Fails == command' = Idle /\ phase' = IF atPrompt THEN phase ELSE "background"

(***************************************************************************)
(* The run.                                                                *)
(***************************************************************************)

Start(prompt) ==
    /\ phase = "off" /\ commands < MaxCommands /\ atPrompt' = prompt
    /\ phase' = "starting" /\ last' = [read |-> FALSE, rows |-> NoRows]
    /\ UNCHANGED <<up, listVars, printed, file, command, commands, founding, acted, unseen, shifted, hurried>>

\* The node is up, or did not start; a script waits until the strands are open, for a time.
Ready(ok) ==
    /\ phase = "starting" /\ up' = ok /\ phase' = IF atPrompt THEN "commands" ELSE "settling"
    /\ UNCHANGED <<atPrompt, listVars, rowVars, command, commands, founding, hurried>>

Settled ==
    /\ phase = "settling" /\ phase' = "commands"
    /\ UNCHANGED <<atPrompt, up, listVars, rowVars, command, commands, founding, hurried>>

\* The last command has run, or the user leaves.
Leave ==
    /\ phase = "commands" /\ command = Idle /\ phase' = "background"
    /\ UNCHANGED <<atPrompt, up, listVars, rowVars, command, commands, founding, hurried>>

\* A conversation founded here starts while the run goes on.
Founded ==
    /\ phase # "off" /\ founding = "published" /\ founding' = "started"
    /\ UNCHANGED <<phase, atPrompt, up, listVars, rowVars, command, commands, hurried>>

\* The way out waits for that, for a minute.
BackgroundDone(givenUp) ==
    /\ phase = "background" /\ phase' = "draining"
    /\ founding = "published" => givenUp
    /\ hurried' = (hurried \/ founding = "published")
    /\ UNCHANGED <<atPrompt, up, listVars, rowVars, command, commands, founding>>

\* It waits for queued writes, and lists once; then the node is stopped: each for a time.
Drained ==
    /\ phase = "draining" /\ phase' = "stopping"
    /\ UNCHANGED <<atPrompt, up, listVars, rowVars, command, commands, founding, hurried>>

Stopped ==
    /\ phase = "stopping" /\ phase' = "off" /\ up' = FALSE
    /\ UNCHANGED <<atPrompt, listVars, rowVars, command, commands, founding, hurried>>

\* The process dies.
Killed ==
    /\ phase # "off" /\ phase' = "off" /\ up' = FALSE /\ command' = Idle
    /\ hurried' = (hurried \/ founding = "published")
    /\ unseen' = (unseen \/ command.saved)
    /\ UNCHANGED <<atPrompt, listVars, printed, last, file, acted, shifted, commands, founding>>

\* The lists change with the network, and with the commands of this and other devices.
Moves(k, listing) ==
    /\ moves < MaxMoves /\ moves' = moves + 1 /\ listing # now[k] /\ now' = [now EXCEPT ![k] = listing]
    /\ UNCHANGED <<runVars, rowVars, command, commands>>

(***************************************************************************)
(* Commands.  Each waits for the node, and fails without it.               *)
(***************************************************************************)

Begin ==
    /\ phase = "commands" /\ command = Idle /\ commands < MaxCommands /\ commands' = commands + 1

WithoutNode ==
    /\ Begin /\ ~up /\ Fails
    /\ UNCHANGED <<atPrompt, up, listVars, rowVars, founding, hurried>>

\* Some of a list, in its order.
PartsOf(list) ==
    {s \in Listings : \E at \in [DOMAIN s -> DOMAIN list] :
        /\ \A i, j \in DOMAIN s : i < j => at[i] < at[j]
        /\ \A i \in DOMAIN s : s[i] = list[at[i]]}

\* A listing: of strands those archived, or those not.
List(k) ==
    /\ Begin /\ up
    /\ \E rows \in PartsOf(now[k]) :
         /\ k \in Fresh => rows = now[k]
         /\ command' = [Idle EXCEPT !.at = k, !.rows = rows]
    /\ UNCHANGED <<runVars, listVars, rowVars>>

Rows == IF last.read THEN last.rows ELSE file

\* Its rows are kept in memory and written to the profile; unwritten, they are not printed.
Remember(written) ==
    /\ command.at \in Kept /\ ~command.saved
    /\ last' = [read |-> TRUE, rows |-> [Rows EXCEPT ![command.at] = command.rows]]
    /\ IF written
       THEN file' = last'.rows /\ command' = [command EXCEPT !.saved = TRUE] /\ UNCHANGED <<phase, unseen>>
       ELSE unseen' = (unseen \/ command.rows # printed[command.at]) /\ UNCHANGED file /\ Fails
    /\ UNCHANGED <<atPrompt, up, listVars, printed, commands, founding, acted, shifted, hurried>>

Prints ==
    /\ command.at \in Fresh \/ command.saved
    /\ printed' = [printed EXCEPT ![command.at] = command.rows] /\ Ends
    /\ UNCHANGED <<atPrompt, up, listVars, last, file, commands, founding, acted, unseen, shifted, hurried>>

At(listing, row) == IF row \in DOMAIN listing THEN listing[row] ELSE Nothing

\* What a row number names: of a kept listing the one that was there, if it still is.
ByRow(k, row) ==
    LET rows == IF k \in Kept THEN Rows[k] ELSE now[k]
        thing == At(rows, row) IN
    /\ Begin /\ up
    /\ last' = IF k \in Kept THEN [read |-> TRUE, rows |-> Rows] ELSE last
    /\ shifted' = (shifted \/ (k \in Fresh /\ now[k] # printed[k]))
    /\ IF thing \in Range(now[k])
       THEN /\ UNCHANGED phase
            /\ \E asks \in BOOLEAN :
                  command' = [Idle EXCEPT !.at = IF asks THEN "asks" ELSE "acts", !.thing = thing,
                                          !.meant = At(printed[k], row)]
       ELSE Fails
    /\ UNCHANGED <<atPrompt, up, listVars, printed, file, founding, acted, unseen, hurried>>

\* Leaving asks first; nobody to ask is a no.
Answer(yes) ==
    /\ command.at = "asks"
    /\ IF yes THEN command' = [command EXCEPT !.at = "acts"] /\ UNCHANGED phase ELSE Fails
    /\ UNCHANGED <<atPrompt, up, listVars, rowVars, commands, founding, hurried>>

Act(done) ==
    /\ command.at = "acts"
    /\ IF done THEN acted' = <<command.meant, command.thing>> /\ Ends ELSE UNCHANGED acted /\ Fails
    /\ UNCHANGED <<atPrompt, up, listVars, printed, last, file, commands, founding, unseen, shifted, hurried>>

\* An invitation to a new conversation, which then starts in the background.
Invite ==
    /\ Begin /\ up /\ founding = "none" /\ founding' = "published"
    /\ UNCHANGED <<phase, atPrompt, up, listVars, rowVars, command, hurried>>

SessionNext ==
    \/ Settled \/ Leave \/ Founded \/ Drained \/ Stopped \/ Killed
    \/ WithoutNode \/ Prints \/ Invite
    \/ \E b \in BOOLEAN : Start(b) \/ Ready(b) \/ BackgroundDone(b) \/ Remember(b) \/ Answer(b) \/ Act(b)
    \/ \E k \in Kinds : List(k) \/ \E listing \in Listings : Moves(k, listing)
    \/ \E k \in Kinds, row \in 1 .. 2 : ByRow(k, row)

(***************************************************************************)
(* "A row number means what was printed" (session.ts:24), in the run that  *)
(* printed it and in later ones - except when rows were kept and not       *)
(* printed, for the profile could not be written or the process died; and  *)
(* except for members, invitations and relays, whose list may have changed *)
(* since.                                                                  *)
(***************************************************************************)
RowsAreAsPrinted == acted[1] = acted[2] \/ unseen \/ shifted

\* A run does not exit with a conversation published but never started (main.ts:215-216), unless
\* it waited a minute for that, or was killed.
FoundedIsStarted == phase = "off" /\ founding = "published" => hurried
=============================================================================
