------------------------------ MODULE Claiming ------------------------------
(***************************************************************************)
(* Adding a machine: its node code is scanned or pasted, reviewed in a     *)
(* dialog, and claimed by the model, one claim at a time and within a      *)
(* bound; the network screen shows the claim under way.  Dialogs outlive   *)
(* the screen that opened them and block the one under them.               *)
(*                                                                         *)
(* The device's node and the machines (external) may do anything a claim   *)
(* leaves open: accept, refuse, not answer, or answer after the bound.     *)
(***************************************************************************)

CONSTANTS
    Codes,          \* node codes, one for each machine
    None

ClaimingConstants == None \notin Codes

VARIABLES
    device,         \* this device's node: down, fresh (not an owner yet) or owner
    view,           \* the screen is gone, in front, or behind the scanner it opened
    pasting,        \* the dialog to paste a code is open
    handledCode,
    adding,         \* `claiming` of the screen: the claim it shows
    dialogs,
    claiming,       \* the model's flag
    claims,         \* calls of claimNode the model waits for
    late,           \* claims the node went on with after the bound
    members,        \* machines that accepted a claim
    stuck           \* history: what is shown is a claim for which the model threw

claimingVars == <<device, view, pasting, handledCode, adding, dialogs, claiming, claims, late,
                  members, stuck>>
screenVars == <<view, pasting, handledCode>>

\* here: of the screen that is open now, and not of one that was left.
Claim(c, here) == [code |-> c, here |-> here]
Dialog(kind, c, here) == [kind |-> kind, code |-> c, here |-> here]

ClaimingTypeOK ==
    /\ device \in {"down", "fresh", "owner"} /\ view \in {"gone", "manager", "scanner"}
    /\ pasting \in BOOLEAN /\ handledCode \in Codes \cup {None} /\ adding \in Codes \cup {None}
    /\ dialogs \subseteq [kind : {"confirm", "retry", "failed", "added"}, code : Codes, here : BOOLEAN]
    /\ claiming \in BOOLEAN /\ claims \subseteq [code : Codes, here : BOOLEAN]
    /\ late \subseteq Codes /\ members \subseteq Codes
    /\ stuck \in BOOLEAN

ClaimingInit ==
    /\ device = "down" /\ view = "gone" /\ pasting = FALSE /\ handledCode = None
    /\ adding = None /\ dialogs = {} /\ claiming = FALSE /\ claims = {} /\ late = {}
    /\ members = {} /\ stuck = FALSE

\* The node starts, becomes an owner, or stops for a rebuild.
Device ==
    /\ device' \in {"down", "fresh", "owner"} \ {device}
    /\ UNCHANGED <<screenVars, adding, dialogs, claiming, claims, late, members, stuck>>

(***************************************************************************)
(* The screen.                                                             *)
(***************************************************************************)

\* The user acts on the screen.
InFront == view = "manager" /\ dialogs = {} /\ ~pasting

Open ==
    /\ view = "gone" /\ view' = "manager"
    /\ UNCHANGED <<device, pasting, handledCode, adding, dialogs, claiming, claims, late, members,
                   stuck>>

\* "Add a machine" is off while a claim is shown; the status it looks at may be an older one.
AddMachine(scans) ==
    /\ InFront /\ adding = None
    /\ view' = IF scans THEN "scanner" ELSE view
    /\ pasting' = ~scans
    /\ UNCHANGED <<device, handledCode, adding, dialogs, claiming, claims, late, members, stuck>>

\* The user goes back: what its claims and dialogs set later is set nowhere.
Leave ==
    /\ InFront
    /\ view' = "gone" /\ handledCode' = None /\ adding' = None /\ stuck' = FALSE
    /\ claims' = {[x EXCEPT !.here = FALSE] : x \in claims}
    /\ UNCHANGED <<device, pasting, dialogs, claiming, late, members>>

\* The scanner hands its code to the screen below it, or opens one; a screen that has handled
\* this code does nothing.
Scan(c) ==
    /\ view # "manager" /\ dialogs = {}
    /\ view' = "manager" /\ handledCode' = c
    /\ dialogs' = IF handledCode = c THEN {} ELSE {Dialog("confirm", c, TRUE)}
    /\ UNCHANGED <<device, pasting, adding, claiming, claims, late, members, stuck>>

ScanCancelled ==
    /\ view = "scanner" /\ dialogs = {} /\ view' = "manager"
    /\ UNCHANGED <<device, pasting, handledCode, adding, dialogs, claiming, claims, late, members,
                   stuck>>

\* NodeCodeModal: closed, or a usable code is submitted.
Pasted(c) ==
    /\ pasting /\ dialogs = {} /\ pasting' = FALSE
    /\ dialogs' = IF c = None THEN {} ELSE {Dialog("confirm", c, TRUE)}
    /\ UNCHANGED <<device, view, handledCode, adding, claiming, claims, late, members, stuck>>

\* A dialog is closed; the claim it offers is not made.
Dismiss(d) ==
    /\ dialogs' = dialogs \ {d}
    /\ UNCHANGED <<device, screenVars, adding, claiming, claims, late, members, stuck>>

(***************************************************************************)
(* claimNode, up to where it waits, and what the screen does with the      *)
(* answer.                                                                 *)
(***************************************************************************)

\* Answered: the screen that asked shows it no more, and says how it went.
Answer(x, kind) ==
    /\ claims' = claims \ {x} /\ claiming' = FALSE
    /\ adding' = IF x.here THEN None ELSE adding
    /\ dialogs' = dialogs \cup {Dialog(kind, x.code, x.here)}

Claims(d) == d.kind \in {"confirm", "retry"}

\* Mutant: the flag is not taken back where this device is not an owner yet.
ConfirmFails_KeepsFlag(d) ==
    /\ Claims(d) /\ (claiming \/ device = "fresh")
    /\ claiming' = TRUE
    /\ adding' = IF d.here THEN None ELSE adding
    /\ dialogs' = (dialogs \ {d}) \cup {Dialog("retry", d.code, d.here)}
    /\ UNCHANGED <<device, screenVars, claims, late, members, stuck>>

\* While another claim is under way, or this device is not an owner yet, it fails at once.
ConfirmFails(d) ==
    /\ Claims(d) /\ (claiming \/ device = "fresh")
    /\ adding' = IF d.here THEN None ELSE adding
    /\ dialogs' = (dialogs \ {d}) \cup {Dialog("retry", d.code, d.here)}
    /\ UNCHANGED <<device, screenVars, claiming, claims, late, members, stuck>>

\* Without a node it throws, which the screen does not expect: it goes on showing the claim.
ConfirmThrows(d) ==
    /\ Claims(d) /\ ~claiming /\ device = "down"
    /\ adding' = IF d.here THEN d.code ELSE adding
    /\ stuck' = (stuck \/ d.here)
    /\ dialogs' = dialogs \ {d}
    /\ UNCHANGED <<device, screenVars, claiming, claims, late, members>>

Confirm(d) ==
    /\ Claims(d) /\ ~claiming /\ device = "owner"
    /\ claiming' = TRUE /\ claims' = claims \cup {Claim(d.code, d.here)}
    /\ adding' = IF d.here THEN d.code ELSE adding
    /\ dialogs' = dialogs \ {d}
    /\ UNCHANGED <<device, screenVars, late, members, stuck>>

ClaimAccepted(x) ==
    /\ members' = members \cup {x.code} /\ Answer(x, "added")
    /\ UNCHANGED <<device, screenVars, late, stuck>>

\* Refused for good, or for a reason that may pass.
ClaimFails(x, kind) ==
    /\ Answer(x, kind)
    /\ UNCHANGED <<device, screenVars, late, members, stuck>>

\* The bound: the node goes on with the claim.
ClaimTimesOut(x) ==
    /\ late' = late \cup {x.code} /\ Answer(x, "retry")
    /\ UNCHANGED <<device, screenVars, members, stuck>>

LateEnds(c, accepted) ==
    /\ late' = late \ {c} /\ members' = IF accepted THEN members \cup {c} ELSE members
    /\ UNCHANGED <<device, screenVars, adding, dialogs, claiming, claims, stuck>>

ClaimingNext ==
    \/ Device
    \/ Open
    \/ \E scans \in BOOLEAN : AddMachine(scans)
    \/ Leave
    \/ \E c \in Codes : Scan(c)
    \/ ScanCancelled
    \/ \E c \in Codes \cup {None} : Pasted(c)
    \/ \E d \in dialogs : Dismiss(d) \/ ConfirmFails(d) \/ ConfirmThrows(d) \/ Confirm(d)
    \/ \E x \in claims : ClaimAccepted(x) \/ ClaimTimesOut(x)
    \/ \E x \in claims, kind \in {"failed", "retry"} : ClaimFails(x, kind)
    \/ \E c \in late, accepted \in BOOLEAN : LateEnds(c, accepted)

\* One machine is claimed at a time, the model knows when it is free again (model.ts:603), and
\* the screen shows the claim it started for as long as the model waits for it and no longer
\* (CadreManager.tsx:132-136), whichever screens were left and dialogs answered meanwhile.
\* Except for a claim made without a node: the model throws, and it is shown until the screen
\* is left.  A machine said to be added has accepted.
ClaimIsShown ==
    /\ claiming <=> claims # {}
    /\ \A x, y \in claims : x = y
    /\ adding # None /\ ~stuck => Claim(adding, TRUE) \in claims
    /\ \A x \in claims : x.here => adding = x.code
    /\ \A d \in dialogs : d.kind = "added" => d.code \in members
=============================================================================
