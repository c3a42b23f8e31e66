---------------------------- MODULE AppSettings ----------------------------
(***************************************************************************)
(* What a user chooses for the whole app: the preferences of the settings  *)
(* screen, and the relays, which a link offers and the network screen      *)
(* lists.  Both go through one call of the model.  It writes the stored    *)
(* preferences whole, from a copy read before, and passes relays on to the *)
(* node without waiting: another node is built for them (PhoneHost).       *)
(*                                                                         *)
(* Each await is a boundary between actions.  Rebuilding the node may fail *)
(* (external), of which nobody is told.                                    *)
(***************************************************************************)
EXTENDS Naturals, Sequences

CONSTANTS
    Fields,         \* preferences; each is left as it is at first, or changed
    Offered,        \* relays that links offer
    MaxSets,        \* bound on the calls that change something
    MaxCalls        \* bound on those under way at once

\* What the constants have to be; the modules that compose this one assume it.
AppSettingsConstants == {MaxSets, MaxCalls} \subseteq Nat

VARIABLES
    prefs,          \* the stored preferences
    pane,           \* what the settings screen shows
    calls,          \* calls of prefs.set: what they change, the copy they read
    sets,           \* how many were made
    offer,          \* the screens that propose a relay
    relays,         \* those of the node
    applying,       \* changes of the relays under way; the last is reported as set
    listed,         \* the relays the network screen lists
    chose,          \* history: the preferences as the user saved them
    wanted,         \* history: the relays accepted and not dropped
    overwritten, crossed, refused   \* history: see ChoicesAreKept

appSettingsVars == <<prefs, pane, calls, sets, offer, relays, applying, listed, chose, wanted,
                     overwritten, crossed, refused>>

Prefs == [Fields -> BOOLEAN]
Nowhere == [field |-> {}, value |-> FALSE, base |-> {}, relays |-> {}, given |-> FALSE]
Patches == [field : SUBSET Fields, value : BOOLEAN, base : SUBSET Offered,
            relays : SUBSET Offered, given : BOOLEAN]

AppSettingsTypeOK ==
    /\ {prefs, chose, pane} \subseteq Prefs
    /\ calls \in Seq([patch : Patches, at : {"reading", "saving"}, copy : Prefs])
    /\ Len(calls) <= MaxCalls /\ sets \in 0 .. MaxSets
    /\ offer \in [Offered -> [at : {"closed", "open", "reading", "read"}, found : SUBSET Offered]]
    /\ {relays, listed, wanted} \subseteq SUBSET Offered
    /\ applying \in Seq(SUBSET Offered)
    /\ {overwritten, crossed, refused} \subseteq BOOLEAN

AppSettingsInit ==
    /\ prefs = [f \in Fields |-> FALSE] /\ pane = prefs /\ chose = prefs
    /\ calls = <<>> /\ sets = 0 /\ offer = [r \in Offered |-> [at |-> "closed", found |-> {}]]
    /\ relays = {} /\ applying = <<>> /\ listed = {} /\ wanted = {}
    /\ overwritten = FALSE /\ crossed = FALSE /\ refused = FALSE

prefVars == <<prefs, pane, chose, overwritten>>
relayVars == <<relays, applying, listed, wanted, crossed, refused>>

\* The node reports the relays it is to use next.
RelaysUsed == IF applying = <<>> THEN relays ELSE applying[Len(applying)]

\* model.prefs.set is called.
Calls(patch) ==
    /\ sets < MaxSets /\ sets' = sets + 1 /\ Len(calls) < MaxCalls
    /\ calls' = Append(calls, [patch |-> patch, at |-> "reading", copy |-> prefs])

Without(seq, i) == SubSeq(seq, 1, i - 1) \o SubSeq(seq, i + 1, Len(seq))

(***************************************************************************)
(* The screens.                                                            *)
(***************************************************************************)

\* A setting is tapped.
Patch(f, value) ==
    /\ Calls([Nowhere EXCEPT !.field = {f}, !.value = value])
    /\ UNCHANGED <<prefVars, offer, relayVars>>

\* A link offers a relay; declining leaves no trace.
OpenOffer(r) ==
    /\ offer[r].at = "closed" /\ offer' = [offer EXCEPT ![r].at = "open"]
    /\ UNCHANGED <<prefVars, calls, sets, relayVars>>

Decline(r) ==
    /\ offer[r].at = "open" /\ offer' = [offer EXCEPT ![r].at = "closed"]
    /\ UNCHANGED <<prefVars, calls, sets, relayVars>>

\* Accepted, the relays there are are read, and set with this one added; a screen whose set fails
\* stays, which is as if it were opened again.
Accept(r) ==
    /\ offer[r].at = "open" /\ offer' = [offer EXCEPT ![r].at = "reading"]
    /\ UNCHANGED <<prefVars, calls, sets, relayVars>>

AcceptReads(r) ==
    /\ offer[r].at = "reading" /\ offer' = [offer EXCEPT ![r] = [at |-> "read", found |-> RelaysUsed]]
    /\ UNCHANGED <<prefVars, calls, sets, relayVars>>

AcceptSets(r) ==
    /\ offer[r].at = "read" /\ offer' = [offer EXCEPT ![r] = [at |-> "closed", found |-> {}]]
    /\ Calls([Nowhere EXCEPT !.base = offer[r].found, !.relays = offer[r].found \cup {r},
                             !.given = TRUE])
    /\ UNCHANGED <<prefVars, relayVars>>

\* The network screen lists what the node reports when it reads, and drops a relay from that.
ListReads ==
    /\ listed # RelaysUsed /\ listed' = RelaysUsed
    /\ UNCHANGED <<prefVars, calls, sets, offer, relays, applying, wanted, crossed, refused>>

Drop(r) ==
    /\ r \in listed
    /\ Calls([Nowhere EXCEPT !.base = listed, !.relays = listed \ {r}, !.given = TRUE])
    /\ UNCHANGED <<prefVars, offer, relayVars>>

(***************************************************************************)
(* model.prefs.set.                                                        *)
(***************************************************************************)

SetReads(i) ==
    /\ calls[i].at = "reading"
    /\ calls' = [calls EXCEPT ![i].at = "saving", ![i].copy = prefs]
    /\ UNCHANGED <<prefVars, sets, offer, relayVars>>

\* The node sets about the relays unless it has them already.
Applies(patch) ==
    IF patch.given
    THEN /\ applying' = IF patch.relays = RelaysUsed THEN applying ELSE Append(applying, patch.relays)
         /\ wanted' = (wanted \ (patch.base \ patch.relays)) \cup (patch.relays \ patch.base)
         /\ crossed' = (crossed \/ patch.base # RelaysUsed)
    ELSE UNCHANGED <<applying, wanted, crossed>>

\* The copy is written with the change; the screen shows what is then stored.
SetSaves(i) ==
    LET patch == calls[i].patch
        Changed(old) == [f \in Fields |-> IF f \in patch.field THEN patch.value ELSE old[f]] IN
    /\ calls[i].at = "saving" /\ calls' = Without(calls, i)
    /\ prefs' = Changed(calls[i].copy) /\ chose' = Changed(chose)
    /\ overwritten' = (overwritten \/ calls[i].copy # prefs)
    /\ pane' = IF patch.given THEN pane ELSE prefs'
    /\ Applies(patch)
    /\ UNCHANGED <<sets, offer, relays, listed, refused>>

\* The device does not store them: neither preferences nor relays change.
SetFails(i) ==
    /\ calls[i].at = "saving" /\ calls' = Without(calls, i)
    /\ UNCHANGED <<prefVars, sets, offer, relayVars>>

\* The node is rebuilt with the relays, or is not.
Applied(rebuilt) ==
    /\ applying # <<>> /\ applying' = Tail(applying)
    /\ relays' = IF rebuilt THEN Head(applying) ELSE relays
    /\ refused' = (refused \/ ~rebuilt)
    /\ UNCHANGED <<prefVars, calls, sets, offer, listed, wanted, crossed>>

AppSettingsNext ==
    \/ ListReads
    \/ \E f \in Fields, value \in BOOLEAN : Patch(f, value)
    \/ \E r \in Offered : OpenOffer(r) \/ Decline(r) \/ Accept(r) \/ AcceptReads(r) \/ AcceptSets(r)
                          \/ Drop(r)
    \/ \E i \in DOMAIN calls : SetReads(i) \/ SetSaves(i) \/ SetFails(i)
    \/ \E rebuilt \in BOOLEAN : Applied(rebuilt)

(***************************************************************************)
(* When nothing is under way, the preferences are what the user last saved *)
(* - unless one was saved over a copy read before another - and are what   *)
(* the settings screen shows, unless a relay's change wrote over them.     *)
(* The node has the relays accepted and not dropped: accepting one "does   *)
(* not replace" another (relay-offer.md:28) - unless two changes began     *)
(* from one list, or the node could not be rebuilt with them.              *)
(***************************************************************************)
ChoicesAreKept ==
    /\ calls = <<>> => overwritten \/ (prefs = chose /\ pane = prefs)
    /\ calls = <<>> /\ applying = <<>> => relays = wanted \/ crossed \/ refused
=============================================================================
