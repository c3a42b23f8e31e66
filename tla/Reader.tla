------------------------------- MODULE Reader -------------------------------
(***************************************************************************)
(* What a loader promises its users (packages/core/src/stores/loader.ts,   *)
(* header): one read at a time, and while it is open every change of the   *)
(* source it is told of is followed by a read that starts after the        *)
(* change.  The source is a version number.                                *)
(***************************************************************************)
EXTENDS Naturals

CONSTANT MaxVersion     \* bound: changes of the source

VARIABLES
    open,       \* somebody is subscribed
    told,       \* the newest version a change signal has been given for
    begun,      \* the version the newest read began at
    reading

readerVars == <<open, told, begun, reading>>

Init ==
    /\ open = FALSE /\ reading = FALSE
    /\ told = 0 /\ begun = 0

Open == ~open /\ open' = TRUE /\ UNCHANGED <<told, begun, reading>>

(* Opening starts the first read at once if none is running. *)
OpenAndBegin == ~open /\ open' = TRUE /\ ~reading /\ reading' = TRUE
                /\ begun' \in begun..MaxVersion /\ UNCHANGED told

Close == open /\ open' = FALSE /\ UNCHANGED <<told, begun, reading>>

Tell == open /\ told' \in (told + 1)..MaxVersion /\ UNCHANGED <<open, begun, reading>>

Begin ==
    /\ ~reading /\ reading' = TRUE
    /\ begun' \in begun..MaxVersion
    /\ UNCHANGED <<open, told>>

End == reading /\ reading' = FALSE /\ UNCHANGED <<open, told, begun>>

Next == Open \/ OpenAndBegin \/ Close \/ Tell \/ Begin \/ End

(* The promise itself is stated on its own, so that a user can rely on it  *)
(* without this module's fairness.                                         *)
Followed == \A v \in 0..MaxVersion : (open /\ told = v) ~> (begun >= v \/ ~open)

(* Its safety part on its own. *)
Steps == Init /\ [][Next]_readerVars

Spec == Steps /\ Followed
=============================================================================
