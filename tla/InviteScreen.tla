---------------------------- MODULE InviteScreen ----------------------------
(***************************************************************************)
(* The screen that makes invitations: for a new conversation, which its    *)
(* first invitation founds, for an existing one, or opened from the row of *)
(* one of its invitations, which the screen looks up to show it.  Terms    *)
(* follow the kind of conversation until the user changes them.  And its   *)
(* panel for a device that nobody could reach, which follows the           *)
(* reachability store (a loader, module Loader) while it shows and the     *)
(* screen is in front; the two parts share only that nothing is made while *)
(* the panel shows.                                                        *)
(***************************************************************************)
EXTENDS Naturals, FiniteSets

CONSTANTS
    MaxChoices,     \* bound on the user's choices of terms: the n-th is n
    MaxMade,        \* bound on the conversations founded
    None

InviteScreenConstants ==
    {MaxChoices, MaxMade} \subseteq Nat /\ None \notin Nat \cup [reachable : BOOLEAN, since : BOOLEAN]

VARIABLES
    openedFor,      \* what the screen was opened for: a new conversation, an existing one, or an
                    \* invitation listed with an existing one
    routeKind,      \* the kind of the conversation it was opened for, if for one
    visibility,
    terms,          \* the default of a kind, or the user's n-th choice
    touched,
    lookups,        \* what was asked as the screen opened and is not answered yet
    foundedStrandId,
    creating,       \* invitations.create under way: what generate passed to it
    invitation,     \* the invitation shown: the one looked up, or the last one made
    unreachable,
    made,           \* history: the conversations of the invitations made, with their kinds
    reset, early, switched, \* history: see ScreenIsConsistent
    addresses,      \* the device has an address somebody could answer at
    relay,          \* a relay is chosen
    inFront,        \* the screen is in front
    result,         \* what the screen shows of the last invitation asked for
    reach,          \* the answer the store has, None before its first
    reachRead,      \* its read under way: what it saw, and whether it began since the panel came
    reachAgain, reachDue,   \* it reads again after that, or once the signals have calmed down
    relaySlow,      \* the chosen relay has not connected for long
    unanswered, seen, stale     \* history: see PanelIsHonest

screenVars == <<openedFor, routeKind, visibility, terms, touched, lookups, foundedStrandId,
                creating, invitation, unreachable, made, reset, early, switched>>
historyVars == <<unanswered, seen, stale>>
panelVars == <<addresses, relay, inFront, result, reach, reachRead, reachAgain, reachDue, relaySlow,
               historyVars>>
inviteScreenVars == <<screenVars, panelVars>>
openedVars == <<openedFor, routeKind>>
madeVars == <<creating, invitation, unreachable, made>>

InviteKinds == {"private", "public"}
Route == 0      \* the conversation the screen was opened for
Leads == 0 .. MaxMade
Default(k) == [kind |-> k, choice |-> 0]

InviteScreenTypeOK ==
    /\ openedFor \in {"new", "existing", "listed"} /\ routeKind \in InviteKinds
    /\ visibility \in InviteKinds /\ terms \in [kind : InviteKinds, choice : 0 .. MaxChoices]
    /\ touched \in 0 .. MaxChoices /\ lookups \subseteq {"state", "row"}
    /\ foundedStrandId \in Leads \cup {None}
    /\ creating = None \/ creating \in [strand : Leads \cup {None}, kind : InviteKinds]
    /\ invitation \in {"none", "found", "made"} /\ unreachable \in BOOLEAN
    /\ made \subseteq [lead : Leads, kind : InviteKinds]
    /\ {reset, early, switched} \subseteq BOOLEAN
    /\ {addresses, relay, inFront, reachAgain, reachDue, relaySlow, unanswered, seen, stale} \subseteq BOOLEAN
    /\ result \in {"nothing", "making", "invitation", "error", "nowhere"}
    /\ reach = None \/ reach \in [reachable : BOOLEAN, relays : BOOLEAN]
    /\ reachRead = None \/ reachRead \in [reachable : BOOLEAN, since : BOOLEAN]

InviteScreenInit ==
    /\ openedFor \in {"new", "existing", "listed"} /\ routeKind \in InviteKinds
    /\ visibility = "private" /\ terms = Default("private") /\ touched = 0
    /\ foundedStrandId = None
    /\ lookups = {l \in {"state", "row"} : openedFor = "listed" \/ (openedFor = "existing" /\ l = "state")}
    /\ creating = None /\ invitation = "none" /\ unreachable = FALSE
    /\ made = {} /\ reset = FALSE /\ early = FALSE /\ switched = FALSE
    /\ addresses = FALSE /\ relay = FALSE /\ inFront = TRUE /\ result = "nothing"
    /\ reach = None /\ reachRead = None /\ reachAgain = FALSE /\ reachDue = FALSE
    /\ relaySlow = FALSE /\ unanswered = FALSE /\ seen = FALSE /\ stale = FALSE

strandId == IF openedFor = "new" THEN foundedStrandId ELSE Route

\* The kind is chosen until the conversation is founded; the defaults follow it.
setVisibility(k) ==
    /\ openedFor = "new" /\ foundedStrandId = None /\ ~unreachable /\ k # visibility
    /\ visibility' = k
    /\ terms' = IF touched > 0 THEN terms ELSE Default(k)
    /\ switched' = (switched \/ creating # None)
    /\ UNCHANGED <<openedVars, touched, lookups, foundedStrandId, madeVars, reset, early>>

\* The user changes the terms: `touched` counts the choices.
setTerms ==
    /\ touched < MaxChoices /\ ~unreachable
    /\ touched' = touched + 1 /\ terms' = [terms EXCEPT !.choice = touched']
    /\ UNCHANGED <<openedVars, visibility, lookups, foundedStrandId, madeVars, reset, early, switched>>

\* strands.state of the existing conversation: its defaults, whatever was chosen meanwhile,
\* since the effect knows the terms as untouched as they were when it began.
StateRead(fails) ==
    /\ "state" \in lookups /\ lookups' = lookups \ {"state"}
    /\ IF fails THEN UNCHANGED <<terms, reset>>
       ELSE terms' = Default(routeKind) /\ reset' = (reset \/ touched > 0)
    /\ UNCHANGED <<openedVars, visibility, touched, foundedStrandId, madeVars, early, switched>>

\* The invitation of the row is found, or is not listed any more.
RowFound(found) ==
    /\ "row" \in lookups /\ lookups' = lookups \ {"row"}
    /\ IF found THEN invitation' = "found" /\ foundedStrandId' = Route
       ELSE UNCHANGED <<invitation, foundedStrandId>>
    /\ early' = (early \/ (found /\ made # {}))
    /\ UNCHANGED <<openedVars, visibility, terms, touched, creating, unreachable, made, reset, switched>>

\* Its button, which is not there under the panel.
CanGenerate == creating = None /\ ~unreachable

\* One invitation at a time.
generate ==
    /\ CanGenerate
    /\ creating' = [strand |-> strandId, kind |-> visibility]
    /\ UNCHANGED <<openedVars, visibility, terms, touched, lookups, foundedStrandId, invitation,
                   unreachable, made, reset, early, switched>>

Used == {m.lead : m \in made}

\* The conversation of an invitation: the one passed, or one founded for it.
Lead ==
    IF creating.strand = None
    THEN [lead |-> 1 + Cardinality(Used \ {Route}), kind |-> creating.kind]
    ELSE IF creating.strand = Route THEN [lead |-> Route, kind |-> routeKind]
    ELSE CHOOSE m \in made : m.lead = creating.strand

\* Mutant: the screen does not note what was founded.
Made_NotNoted ==
    /\ creating # None
    /\ LET m == Lead
       IN  /\ m.lead <= MaxMade
           /\ made' = made \cup {m} /\ invitation' = "made"
    /\ creating' = None
    /\ UNCHANGED <<openedVars, visibility, terms, touched, lookups, foundedStrandId, unreachable,
                   reset, early, switched>>

\* The invitation is shown, and what its conversation is noted where none was when it was asked.
Made ==
    /\ creating # None
    /\ LET m == Lead
       IN  /\ m.lead <= MaxMade
           /\ made' = made \cup {m} /\ invitation' = "made"
           /\ foundedStrandId' = IF creating.strand = None THEN m.lead ELSE foundedStrandId
    /\ creating' = None
    /\ UNCHANGED <<openedVars, visibility, terms, touched, lookups, unreachable, reset, early, switched>>

\* No invitation is shown then; nowhere to be reached has a panel of its own.
NotMade(nowhere) ==
    /\ creating # None /\ creating' = None
    /\ invitation' = "none" /\ unreachable' = nowhere
    /\ UNCHANGED <<openedVars, visibility, terms, touched, lookups, foundedStrandId, made, reset,
                   early, switched>>

\* The reachability store sees an address: the panel goes.
Reachable ==
    /\ unreachable /\ unreachable' = FALSE
    /\ UNCHANGED <<openedVars, visibility, terms, touched, lookups, foundedStrandId, creating,
                   invitation, made, reset, early, switched>>

(***************************************************************************)
(* The panel.                                                              *)
(***************************************************************************)

Watched == inFront /\ result = "nowhere"
relayPending == result = "nowhere" /\ reach # None /\ ~reach.reachable /\ reach.relays

\* What the screen shows in place of its button: to wait for the chosen relay, with the way to the
\* relays once that takes long, or both ways to get one.
Panel ==
    IF result # "nowhere" THEN "none"
    ELSE IF ~relayPending THEN "ways out"
    ELSE IF relaySlow THEN "slow" ELSE "waiting"

\* reachability.get: the addresses at once, the relays when they are read.
Get == [reachable |-> addresses', since |-> TRUE]

\* The store asks for a read: as it is watched, signalled, or its backstop poll is due.
Reads ==
    IF reachRead # None THEN reachAgain' = TRUE /\ UNCHANGED reachRead
    ELSE reachRead' = Get /\ UNCHANGED reachAgain

\* The wait for a chosen relay counts from when it began.
Waits == relaySlow' = (relaySlow /\ relayPending')

\* Somebody can answer, or not any more; or the user chose a relay.  A watched store is told.
Moves(A) ==
    /\ A /\ reachDue' = Watched
    /\ UNCHANGED <<inFront, result, reach, reachRead, reachAgain, relaySlow, historyVars>>
AddressesMove == Moves(addresses' = ~addresses /\ UNCHANGED relay)
ChooseRelay == Moves(~inFront /\ relay' = ~relay /\ UNCHANGED addresses)

\* The user goes to another screen, and comes back.
Away ==
    /\ inFront /\ inFront' = FALSE /\ reachDue' = FALSE
    /\ UNCHANGED <<addresses, relay, result, reach, reachRead, reachAgain, relaySlow, historyVars>>
Return ==
    /\ ~inFront /\ inFront' = TRUE
    /\ UNCHANGED <<addresses, relay, result, reach, reachDue, relaySlow, historyVars>>
    /\ IF result = "nowhere" THEN Reads ELSE UNCHANGED <<reachRead, reachAgain>>

\* An invitation is asked for, with its button or by Retry.
Ask ==
    /\ inFront /\ Panel = "none" /\ result # "making" /\ addresses
    /\ result' = "making" /\ unanswered' = FALSE /\ seen' = FALSE /\ stale' = FALSE
    /\ relaySlow' = FALSE
    /\ UNCHANGED <<addresses, relay, inFront, reach, reachRead, reachAgain, reachDue>>
Answer(answer) ==
    /\ result = "making" /\ result' = answer
    /\ UNCHANGED <<addresses, relay, inFront, reach, reachRead, reachAgain, reachDue, relaySlow, historyVars>>

\* Without an address it fails at once: the panel comes, and the store is watched; an answer it had
\* from before takes the panel down again before it has read.
AskNowhere ==
    /\ inFront /\ Panel = "none" /\ result # "making" /\ ~addresses
    /\ unanswered' = TRUE /\ seen' = FALSE /\ stale' = (reach # None /\ reach.reachable)
    /\ result' = IF stale' THEN "nothing" ELSE "nowhere"
    /\ UNCHANGED <<addresses, relay, inFront, reach, reachDue>>
    /\ IF reachRead = None THEN reachRead' = Get /\ UNCHANGED reachAgain
       ELSE reachRead' = [reachRead EXCEPT !.since = FALSE] /\ reachAgain' = TRUE
    /\ Waits

\* Mutant: what was announced while it read is not read.
ReachAnswers_Once ==
    /\ reachRead # None /\ UNCHANGED <<addresses, relay, inFront, unanswered>>
    /\ reach' = [reachable |-> reachRead.reachable, relays |-> relay]
    /\ seen' = (seen \/ (reachRead.since /\ reachRead.reachable))
    /\ stale' = (stale \/ (~reachRead.since /\ reachRead.reachable))
    /\ result' = IF result = "nowhere" /\ reachRead.reachable THEN "nothing" ELSE result
    /\ reachDue' = (reachDue /\ Watched')
    /\ reachRead' = None
    /\ reachAgain' = FALSE /\ Waits

\* The store answers: an address takes the panel down, and nobody watches then.
ReachAnswers ==
    /\ reachRead # None /\ UNCHANGED <<addresses, relay, inFront, unanswered>>
    /\ reach' = [reachable |-> reachRead.reachable, relays |-> relay]
    /\ seen' = (seen \/ (reachRead.since /\ reachRead.reachable))
    /\ stale' = (stale \/ (~reachRead.since /\ reachRead.reachable))
    /\ result' = IF result = "nowhere" /\ reachRead.reachable THEN "nothing" ELSE result
    /\ reachDue' = (reachDue /\ Watched')
    /\ reachRead' = IF reachAgain /\ Watched' THEN Get ELSE None
    /\ reachAgain' = FALSE /\ Waits

\* The signals have calmed down, or the poll is due.
ReachReads ==
    /\ Watched /\ (reachDue \/ reachRead = None) /\ reachDue' = FALSE
    /\ UNCHANGED <<addresses, relay, inFront, result, reach, relaySlow, historyVars>>
    /\ Reads

\* Thirty seconds after the wait began.
RelayIsSlow ==
    /\ relayPending /\ relaySlow' = TRUE
    /\ UNCHANGED <<addresses, relay, inFront, result, reach, reachRead, reachAgain, reachDue, historyVars>>

PanelNext ==
    \/ AddressesMove \/ ChooseRelay \/ Away \/ Return \/ Ask \/ AskNowhere
    \/ \E answer \in {"invitation", "error"} : Answer(answer)
    \/ ReachAnswers \/ ReachReads \/ RelayIsSlow

InviteScreenNext ==
    \/ \E k \in InviteKinds : setVisibility(k)
    \/ setTerms
    \/ \E fails \in BOOLEAN : StateRead(fails) \/ RowFound(fails) \/ NotMade(fails)
    \/ generate
    \/ Made
    \/ Reachable

\* The terms the user chose last stay (InvitationGenerator.tsx:49-51), all invitations of one screen
\* go into one conversation (:37-39 "must go into that same strand, not found another"), the kind
\* shown with it is its kind, and the invitation shown is not an old one when one was made, whatever
\* is chosen and answered while an invitation is made.  Except terms that were chosen before the
\* state of an existing conversation was read (reset); the invitation the screen was opened for,
\* found after another was made (early); and a kind changed while the invitation was made (switched).
ScreenIsConsistent ==
    /\ touched > 0 /\ ~reset => terms.choice = touched
    /\ \A m, n \in made : m.lead = n.lead
    /\ invitation = "found" /\ ~early => made = {}
    /\ ~switched => \A m \in made : m.lead = foundedStrandId /\ m.lead # Route => visibility = m.kind

\* "The panel must not outlive the problem" (InvitationGenerator.tsx:64-66), nor the problem the panel:
\* it stays until an address was seen since it came, and an address that came while it shows in
\* front is being read, or about to be, without the poll's help.  Except where the store has, or
\* still reads, an answer from before the panel (stale): that takes it down, and nothing says then
\* why there is no invitation.
PanelIsHonest ==
    /\ unanswered => result = "nowhere" \/ seen \/ stale
    /\ Watched /\ addresses => reachDue \/ (reachRead # None /\ (reachRead.reachable \/ reachAgain))
    /\ relaySlow => Panel = "slow"
=============================================================================
