----------------------------- MODULE Accepting -----------------------------
(***************************************************************************)
(* Accepting one invitation, from the screens that show it to the join on  *)
(* disk: the invitation is read here, redeemed at the inviter's side with  *)
(* patience while that side is still starting, and the join is remembered  *)
(* before the strand is attached.                                          *)
(*                                                                         *)
(* The inviter's side (external) brings the invitation out, and lets it be *)
(* redeemed once, by this device or by somebody else.                      *)
(***************************************************************************)

CONSTANTS
    Views           \* the screens that may be opened for this invitation

VARIABLES
    token,          \* the invitation at the inviter's side
    preview,        \* what each screen read of the invitation; closed: it is not open
    busy,
    failed,         \* what Retry of the banner repeats; none: no banner
    reading,        \* the screens with an inspect under way
    accepts,        \* where the accept of each screen is
    joined,         \* the join is in the slot `joinedStrands`
    mine,           \* history: this device redeemed the invitation
    keyLost,        \* history: its key was lost before it was in the slot
    redeemer        \* history: the screens whose last accept redeemed it

acceptingVars == <<token, preview, busy, failed, reading, accepts, joined, mine, keyLost, redeemer>>
joinVars == <<joined, mine, keyLost>>

AcceptingTypeOK ==
    /\ token \in {"unknown", "starting", "live", "spent"}
    /\ preview \in [Views -> {"closed", "reading", "live", "dead"}]
    /\ busy \subseteq Views /\ failed \in [Views -> {"none", "inspect", "accept"}]
    /\ reading \subseteq Views
    /\ accepts \in [Views -> {"no", "asks", "waits", "remembers", "attaches"}]
    /\ joined \in BOOLEAN /\ mine \in BOOLEAN /\ keyLost \in BOOLEAN /\ redeemer \subseteq Views

AcceptingInit ==
    /\ token = "unknown"
    /\ preview = [v \in Views |-> "closed"] /\ busy = {} /\ failed = [v \in Views |-> "none"]
    /\ reading = {}
    /\ accepts = [v \in Views |-> "no"]
    /\ joined = FALSE /\ mine = FALSE /\ keyLost = FALSE /\ redeemer = {}

\* The inviter's side: the row arrives, the strand starts, somebody else redeems the invitation.
Inviter ==
    /\ \/ token = "unknown" /\ token' = "starting"
       \/ token = "starting" /\ token' = "live"
       \/ token = "live" /\ token' = "spent"
    /\ UNCHANGED <<preview, busy, failed, reading, accepts, joinVars, redeemer>>

(***************************************************************************)
(* The screen.                                                             *)
(***************************************************************************)

IsOpen(v) == preview[v] # "closed"

OpenView(v) ==
    /\ ~IsOpen(v) /\ accepts[v] = "no" /\ v \notin reading
    /\ preview' = [preview EXCEPT ![v] = "reading"] /\ reading' = reading \cup {v}
    /\ failed' = [failed EXCEPT ![v] = "none"] /\ redeemer' = redeemer \ {v}
    /\ UNCHANGED <<token, busy, accepts, joinVars>>

\* load: again when the data changed, or by Retry.
Reload(v) ==
    /\ IsOpen(v) /\ v \notin reading /\ reading' = reading \cup {v}
    /\ UNCHANGED <<token, preview, busy, failed, accepts, joinVars, redeemer>>

\* inspect reads what the invitation says of itself, on this device; a screen that could read
\* it takes any banner down.
Loaded(v, found) ==
    /\ v \in reading /\ reading' = reading \ {v}
    /\ IF ~IsOpen(v) THEN UNCHANGED <<preview, failed>>
       ELSE IF found = "fails" THEN failed' = [failed EXCEPT ![v] = "inspect"] /\ UNCHANGED preview
       ELSE preview' = [preview EXCEPT ![v] = found] /\ failed' = [failed EXCEPT ![v] = "none"]
    /\ UNCHANGED <<token, busy, accepts, joinVars, redeemer>>

\* The decision is offered with an invitation that is live, once at a time; the banner's Retry
\* repeats what failed.
CanAccept(v) == preview[v] = "live" /\ v \notin busy
CanRetry(v, what) == IsOpen(v) /\ failed[v] = what

\* accept: by its button, or by Retry of its own failure.
accept(v) ==
    /\ CanAccept(v) \/ CanRetry(v, "accept")
    /\ busy' = busy \cup {v} /\ failed' = [failed EXCEPT ![v] = "none"]
    /\ accepts' = [accepts EXCEPT ![v] = "asks"] /\ redeemer' = redeemer \ {v}
    /\ UNCHANGED <<token, preview, reading, joinVars>>

\* decline, or back: an accept under way goes on.
Decline(v) ==
    /\ IsOpen(v)
    /\ preview' = [preview EXCEPT ![v] = "closed"] /\ busy' = busy \ {v}
    /\ failed' = [failed EXCEPT ![v] = "none"]
    /\ UNCHANGED <<token, reading, accepts, joinVars, redeemer>>

\* An accept fails: a screen still open says why, and offers to repeat it.
Fails(v) ==
    /\ accepts' = [accepts EXCEPT ![v] = "no"] /\ busy' = busy \ {v}
    /\ failed' = IF IsOpen(v) THEN [failed EXCEPT ![v] = "accept"] ELSE failed

(***************************************************************************)
(* acceptInvitation.                                                       *)
(***************************************************************************)

\* formStrand lets this device in.
Redeems(v) ==
    /\ accepts[v] = "asks" /\ token = "live"
    /\ token' = "spent" /\ mine' = TRUE /\ redeemer' = redeemer \cup {v}

\* The key is in the answer.
Approved(v) ==
    /\ Redeems(v)
    /\ accepts' = [accepts EXCEPT ![v] = "remembers"]
    /\ UNCHANGED <<preview, busy, failed, reading, joined, keyLost>>

\* What followed on this device failed.
Incomplete(v) ==
    /\ Redeems(v) /\ Fails(v) /\ keyLost' = TRUE
    /\ UNCHANGED <<preview, reading, joined>>

\* Their side is still starting: ask again later.
StillStarting(v) ==
    /\ accepts[v] = "asks" /\ token \in {"unknown", "starting"}
    /\ accepts' = [accepts EXCEPT ![v] = "waits"]
    /\ UNCHANGED <<token, preview, busy, failed, reading, joinVars, redeemer>>

AsksAgain(v) ==
    /\ accepts[v] = "waits" /\ accepts' = [accepts EXCEPT ![v] = "asks"]
    /\ UNCHANGED <<token, preview, busy, failed, reading, joinVars, redeemer>>

\* Patience ends, nobody answers, or the answer is no.
NotLetIn(v) ==
    /\ accepts[v] = "asks" /\ Fails(v)
    /\ UNCHANGED <<token, preview, reading, joinVars, redeemer>>

\* The row is saved, or cannot be: then the key is lost.
Remembered(v, fails) ==
    /\ accepts[v] = "remembers"
    /\ IF fails THEN Fails(v) /\ keyLost' = TRUE /\ UNCHANGED joined
       ELSE /\ joined' = TRUE /\ accepts' = [accepts EXCEPT ![v] = "attaches"]
            /\ UNCHANGED <<busy, failed, keyLost>>
    /\ UNCHANGED <<token, preview, reading, mine, redeemer>>

\* Mutant: a strand that does not open fails the accept.
Attached_Fails(v) ==
    /\ accepts[v] = "attaches" /\ Fails(v)
    /\ UNCHANGED <<token, preview, reading, joinVars, redeemer>>

\* Open or still opening, the accept is done, and the conversation takes the screen's place.
Attached(v) ==
    /\ accepts[v] = "attaches"
    /\ accepts' = [accepts EXCEPT ![v] = "no"] /\ busy' = busy \ {v}
    /\ preview' = [preview EXCEPT ![v] = "closed"]
    /\ failed' = [failed EXCEPT ![v] = "none"]
    /\ UNCHANGED <<token, reading, joinVars, redeemer>>

\* The process dies.
AcceptDies ==
    /\ preview' = [v \in Views |-> "closed"] /\ busy' = {} /\ failed' = [v \in Views |-> "none"]
    /\ reading' = {} /\ accepts' = [v \in Views |-> "no"] /\ redeemer' = {}
    /\ keyLost' = (keyLost \/ \E v \in Views : accepts[v] = "remembers")
    /\ UNCHANGED <<token, joined, mine>>

AcceptingNext ==
    \/ Inviter
    \/ \E v \in Views :
          \/ OpenView(v) \/ Reload(v) \/ accept(v) \/ Decline(v)
          \/ Approved(v) \/ Incomplete(v) \/ StillStarting(v) \/ AsksAgain(v) \/ NotLetIn(v)
          \/ Attached(v)
    \/ \E v \in Views, found \in {"live", "dead", "fails"} : Loaded(v, found)
    \/ \E v \in Views, fails \in BOOLEAN : Remembered(v, fails)
    \/ AcceptDies

\* An invitation this device redeemed leaves its key in the slot, or on the way there
\* (model.ts:574 "delivered exactly once"), and a screen does not offer to repeat the accept that
\* redeemed it, which "cannot succeed" (model.ts:591-592), however reads, accepts of two screens
\* and the inviter's side interleave.  Except where the key is lost: the join was let in but not
\* finished, its row could not be saved, or the process died meanwhile.
RetryCanSucceed ==
    /\ mine => joined \/ keyLost \/ \E v \in Views : accepts[v] = "remembers"
    /\ \A v \in redeemer : failed[v] = "accept" => keyLost
=============================================================================
