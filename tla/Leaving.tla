------------------------------ MODULE Leaving ------------------------------
(***************************************************************************)
(* Leaving a strand, or forgetting it: the dialogs of its screen, what the *)
(* stack stops and withdraws, and the record that keeps, or does not keep, *)
(* who the user was in it.                                                 *)
(*                                                                         *)
(* Messages saved here and not sent make a leave ask once more.  The stack *)
(* (external) refuses to withdraw a strand with such messages unless told  *)
(* to drop them.  A dialog does not stop what goes on below it, and the    *)
(* screen does not stop a second leave while one is under way.             *)
(***************************************************************************)
EXTENDS Naturals

CONSTANTS
    Leaves,         \* the times the user goes through with a dialog
    MaxUnsent       \* bound on the messages saved here

\* What the constants have to be; the modules that compose this one assume it.
LeavingConstants == MaxUnsent \in Nat \ {0}

VARIABLES
    kind,           \* of the strand: founded by this party, or joined
    written,        \* the messages written here so far
    unsent,         \* those of them not sent yet
    instance,       \* the strand runs on this device
    published,      \* the party's record of it
    slot,           \* this device's record of the join
    leave,          \* each leave: what was asked for and how far it is
    error,          \* the screen's banner
    withdrawn,      \* history: the messages dropped with the strand
    agreed,         \* history: those the user agreed to drop
    forgot,         \* history: a forget has returned
    late, guessed, halted, overlapped   \* history: see LeavingIsAsked

leavingVars == <<kind, written, unsent, instance, published, slot, leave, error, withdrawn, agreed,
                 forgot, late, guessed, halted, overlapped>>

Stages == {"unused", "shown", "sure", "checking", "stopping", "removing", "saving",
           "counting", "asking", "left", "closed"}
Slots == {"absent", "kept", "left"}
Unused == [at |-> "unused", keep |-> TRUE, discard |-> FALSE, list |-> "absent", told |-> 0]

LeavingTypeOK ==
    /\ kind \in {"founded", "joined"} /\ slot \in Slots
    /\ {written, unsent, withdrawn, agreed} \subseteq 0 .. MaxUnsent
    /\ {instance, published, error, forgot, late, guessed, halted, overlapped} \subseteq BOOLEAN
    /\ leave \in [Leaves -> [at : Stages, keep : BOOLEAN, discard : BOOLEAN, list : Slots,
                             told : 0 .. MaxUnsent]]

LeavingInit ==
    /\ kind \in {"founded", "joined"} /\ written = 0 /\ unsent = 0
    /\ instance = TRUE /\ published = TRUE
    /\ slot = IF kind = "joined" THEN "kept" ELSE "absent"
    /\ leave = [l \in Leaves |-> Unused] /\ error = FALSE
    /\ withdrawn = 0 /\ agreed = 0 /\ forgot = FALSE
    /\ late = FALSE /\ guessed = FALSE /\ halted = FALSE /\ overlapped = FALSE

Moves(l, stage) == leave' = [leave EXCEPT ![l].at = stage]
UnderWay == {l \in Leaves : leave[l].at \in {"checking", "stopping", "removing", "saving"}}
Gone == \E l \in Leaves : leave[l].at = "left"

strandVars == <<kind, written, unsent, instance, published, slot>>
historyVars == <<withdrawn, agreed, forgot, late, guessed, halted, overlapped>>

(***************************************************************************)
(* The strand meanwhile.                                                   *)
(***************************************************************************)

\* A send that was under way is saved.
Saves ==
    /\ instance /\ written < MaxUnsent /\ written' = written + 1 /\ unsent' = unsent + 1
    /\ late' = (late \/ \E l \in Leaves : leave[l].at = "asking" \/ leave[l].discard)
    /\ UNCHANGED <<kind, instance, published, slot, leave, error, withdrawn, agreed, forgot,
                   guessed, halted, overlapped>>

Sends ==
    /\ instance /\ unsent > 0 /\ unsent' = unsent - 1
    /\ UNCHANGED <<kind, written, instance, published, slot, leave, error, historyVars>>

(***************************************************************************)
(* The dialogs.                                                            *)
(***************************************************************************)

\* "Leave" keeps who the user was; "forget" does not, and asks twice.
Open(l, keep) ==
    /\ leave[l].at = "unused" /\ ~Gone /\ \A k \in Leaves : leave[k].at \notin {"shown", "sure", "asking"}
    /\ leave' = [leave EXCEPT ![l].at = "shown", ![l].keep = keep]
    /\ UNCHANGED <<strandVars, error, historyVars>>

Continue(l) ==
    /\ leave[l].at = "shown" /\ ~leave[l].keep /\ Moves(l, "sure")
    /\ UNCHANGED <<strandVars, error, historyVars>>

Confirm(l) ==
    /\ leave[l].at = IF leave[l].keep THEN "shown" ELSE "sure"
    /\ Moves(l, "checking") /\ overlapped' = (overlapped \/ UnderWay # {})
    /\ UNCHANGED <<strandVars, error, withdrawn, agreed, forgot, late, guessed, halted>>

\* The user is told how many messages are not sent, or, when they cannot be counted, of one.
Counted(l, known) ==
    /\ leave[l].at = "counting"
    /\ leave' = [leave EXCEPT ![l].at = "asking", ![l].told = IF known THEN unsent ELSE 1]
    /\ guessed' = (guessed \/ ~known)
    /\ UNCHANGED <<strandVars, error, withdrawn, agreed, forgot, late, halted, overlapped>>

ConfirmDiscard(l) ==
    /\ leave[l].at = "asking"
    /\ leave' = [leave EXCEPT ![l].at = "checking", ![l].discard = TRUE]
    /\ agreed' = IF leave[l].told > agreed THEN leave[l].told ELSE agreed
    /\ overlapped' = (overlapped \/ UnderWay # {})
    /\ UNCHANGED <<strandVars, error, withdrawn, forgot, late, guessed, halted>>

Cancel(l) ==
    /\ leave[l].at \in {"shown", "sure", "asking"} /\ Moves(l, "closed")
    /\ UNCHANGED <<strandVars, error, historyVars>>

(***************************************************************************)
(* A leave.                                                                *)
(***************************************************************************)

\* Unsent messages are looked for before anything stops, in the strand that runs.
Check(l) ==
    /\ leave[l].at = "checking"
    /\ IF instance /\ unsent > 0 /\ ~leave[l].discard THEN Moves(l, "counting")
       ELSE leave' = [leave EXCEPT ![l].list = slot,
                                   ![l].at = IF slot = "absent" THEN "stopping" ELSE "removing"]
    /\ UNCHANGED <<strandVars, error, historyVars>>

\* One founded here is stopped first; that it cannot be is only logged.
Stop(l, stopped) ==
    /\ leave[l].at = "stopping" /\ Moves(l, "removing") /\ instance' = (instance /\ ~stopped)
    /\ UNCHANGED <<kind, written, unsent, published, slot, error, historyVars>>

\* The stack withdraws the strand with its messages ...
Remove(l) ==
    /\ leave[l].at = "removing" /\ (unsent = 0 \/ leave[l].discard) /\ Moves(l, "saving")
    /\ withdrawn' = withdrawn + unsent /\ unsent' = 0
    /\ published' = FALSE /\ instance' = (instance /\ leave[l].list = "absent")
    /\ UNCHANGED <<kind, written, slot, error, agreed, forgot, late, guessed, halted, overlapped>>

\* ... or refuses, when a message came since it was looked for.
Refuse(l) ==
    /\ leave[l].at = "removing" /\ unsent > 0 /\ ~leave[l].discard /\ Moves(l, "counting")
    /\ halted' = (halted \/ ~instance)
    /\ UNCHANGED <<strandVars, error, withdrawn, agreed, forgot, late, guessed, overlapped>>

\* The record is written from the list read before; the screen closes.
Save(l) ==
    /\ leave[l].at = "saving" /\ Moves(l, "left")
    /\ slot' = IF leave[l].list # "absent" /\ leave[l].keep THEN "left" ELSE "absent"
    /\ forgot' = (forgot \/ ~leave[l].keep)
    /\ UNCHANGED <<kind, written, unsent, instance, published, error, withdrawn, agreed, late,
                   guessed, halted, overlapped>>

\* The node is down, or refuses for another reason.
Fails(l) ==
    /\ leave[l].at \in {"checking", "removing", "saving"} /\ Moves(l, "closed") /\ error' = TRUE
    /\ UNCHANGED <<strandVars, historyVars>>

LeavingNext ==
    \/ Saves \/ Sends
    \/ \E l \in Leaves : Continue(l) \/ Confirm(l) \/ ConfirmDiscard(l) \/ Cancel(l) \/ Check(l)
                         \/ Remove(l) \/ Refuse(l) \/ Save(l) \/ Fails(l)
    \/ \E l \in Leaves, keep \in BOOLEAN : Open(l, keep)
    \/ \E l \in Leaves, yes \in BOOLEAN : Counted(l, yes) \/ Stop(l, yes)

(***************************************************************************)
(* Messages saved here are dropped only when the user agreed, and no more  *)
(* of them than the user was told (strands.ts:280-282) - unless one came   *)
(* while the user was asked, or they could not be counted.  A leave that   *)
(* was given up leaves the strand running - unless a message came while it *)
(* was stopped.  And a user who forgot the strand is not kept in its       *)
(* record (StrandDetail.tsx:191-197) - unless another leave overlapped,    *)
(* which writes the record from a list read before.                        *)
(***************************************************************************)
LeavingIsAsked ==
    /\ withdrawn > 0 => \E l \in Leaves : leave[l].discard
    /\ withdrawn <= agreed \/ late \/ guessed
    /\ (\A l \in Leaves : leave[l].at \in {"unused", "shown", "sure", "asking", "closed"})
          /\ published /\ ~error => instance \/ halted
    /\ forgot /\ UnderWay = {} => slot = "absent" \/ overlapped
=============================================================================
