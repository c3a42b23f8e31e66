------------------------------ MODULE Screens ------------------------------
(***************************************************************************)
(* What the screens rest on beside the conversation itself, each with what *)
(* it keeps: invitations and prepared conversations, the watches of the    *)
(* strand list, the summaries of a cold start, this device's row in each   *)
(* strand, the composer's draft, the screens that claim a machine, search, *)
(* accept an invitation and make one, the rows of a conversation, the      *)
(* writes behind them, the list of conversations and a strand's settings.  *)
(* They write different slots and share nothing that is modelled, so       *)
(* subject says which one a behaviour is about, and the others stay where  *)
(* they begin.                                                             *)
(***************************************************************************)
EXTENDS Naturals, TLC, Watching, Summaries

CONSTANTS
    Kinds, Creators, MaxFounded,                        \* of Invitations
    RowStrands, Names, FirstName, Senders, MaxRenames,  \* of Registration
    MaxTexts, MaxMounts, MaxWaiting,                    \* of Composer
    Codes,                                              \* of Claiming
    KnownStrands, MaxTyped,                             \* of Searching
    Views,                                              \* of Accepting
    MaxChoices, MaxMade,                                \* of InviteScreen
    Members, Me, Talkers, Unknown, MaxSaid, ReadLimit, GroupGap, DayEnds,    \* of Rows
    Writers, MaxWritings, MaxAttempts,                  \* of Writing
    HomeStrands,                                        \* of Listing
    Settings, Depths, MaxTaps                           \* of Preferences

VARIABLES
    prepared, founded, attached, job, create, outgoing, listing, forgetting, handed, gone, forgotten,
    rewritten, dropped,
    profile, renames, row, registeredAs, task, todo, spoke, ignored, refused,
    mounts, shown, draft, editing, slot, waiting, flights, texts, owed, lost,
    device, view, pasting, handledCode, adding, dialogs, claiming, claims, late, members, stuck,
    query, typed, timer, opened, sweeps, hits, progress, running, ran, unsaid,
    token, preview, busy, failed, reading, accepts, joined, mine, keyLost, redeemer,
    openedFor, routeKind, visibility, terms, touched, lookups, foundedStrandId, creating, invitation,
    unreachable, made, reset, early, switched,
    addresses, relay, inFront, result, reach, reachRead, reachAgain, reachDue, relaySlow,
    unanswered, seen, stale,
    said, count, now, listed, ready, page, readError, rowsActionError, readAt, justSent, sendings,
    writings, inserted, erased, reactions, unshared, given, unclear, stripped, apart,
    start, retrying, revived, opens, cachedRows, focused, home, homeError, actionError, homeRead,
    homeAgain, homeTimer, openedSince,
    stored, calls, switch, visible, rowShows, asked, overwritten, overtaken,
    subject

Inviting == INSTANCE Invitations WITH raced <- rewritten, Unset <- None
Member == INSTANCE Registration WITH Strands <- RowStrands
Compose == INSTANCE Composer
Manager == INSTANCE Claiming
Search == INSTANCE Searching
Acceptance == INSTANCE Accepting
Generator == INSTANCE InviteScreen
Layout == INSTANCE Rows WITH actionError <- rowsActionError
Tables == INSTANCE Writing
Home == INSTANCE Listing WITH timer <- homeTimer
Prefs == INSTANCE Preferences

ASSUME ScreensConstants ==
    /\ Inviting!InvitationConstants /\ WatchingConstants
    /\ Member!RegistrationConstants /\ Compose!ComposerConstants
    /\ Manager!ClaimingConstants /\ Search!SearchConstants /\ Generator!InviteScreenConstants
    /\ Layout!RowsConstants /\ Tables!WritingConstants /\ Prefs!PreferencesConstants

invitationVars == <<prepared, founded, attached, job, create, outgoing, listing, forgetting,
                    handed, gone, forgotten, rewritten, dropped>>
registrationVars == <<profile, renames, row, registeredAs, task, todo, spoke, ignored, refused>>
composerVars == <<mounts, shown, draft, editing, slot, waiting, flights, texts, owed, lost>>
claimingVars == <<device, view, pasting, handledCode, adding, dialogs, claiming, claims, late,
                  members, stuck>>
searchVars == <<query, typed, timer, opened, sweeps, hits, progress, running, ran, unsaid>>
acceptingVars == <<token, preview, busy, failed, reading, accepts, joined, mine, keyLost, redeemer>>
inviteScreenVars == <<openedFor, routeKind, visibility, terms, touched, lookups, foundedStrandId,
                      creating, invitation, unreachable, made, reset, early, switched>>
panelVars == <<addresses, relay, inFront, result, reach, reachRead, reachAgain, reachDue, relaySlow,
               unanswered, seen, stale>>

rowVars == <<said, count, now, listed, ready, page, readError, rowsActionError, readAt, justSent,
             sendings>>
writingVars == <<writings, inserted, erased, reactions, unshared, given, unclear, stripped, apart>>
listingVars == <<start, retrying, revived, opens, cachedRows, focused, home, homeError, actionError,
                 homeRead, homeAgain, homeTimer, openedSince>>
preferenceVars == <<stored, calls, switch, visible, rowShows, asked, overwritten, overtaken>>

slotVars == <<invitationVars, watchingVars, summaryVars, registrationVars, composerVars>>
dialogVars == <<claimingVars, searchVars, acceptingVars, inviteScreenVars, panelVars>>
chatVars == <<rowVars, writingVars, listingVars, preferenceVars>>

vars == <<slotVars, dialogVars, chatVars, subject>>

Subjects == {"invitations", "watches", "summaries", "registration", "composer",
             "claiming", "searching", "accepting", "inviting", "panel",
             "rows", "writing", "home", "preferences"}

Init ==
    /\ Inviting!InvitationsInit /\ WatchingInit /\ SummariesInit
    /\ Member!RegistrationInit /\ Compose!ComposerInit
    /\ Manager!ClaimingInit /\ Search!SearchInit /\ Acceptance!AcceptingInit
    /\ Generator!InviteScreenInit
    /\ Layout!RowsInit /\ Tables!WritingInit /\ Home!ListingInit /\ Prefs!PreferencesInit
    /\ subject \in Subjects
    /\ subject # "inviting" => openedFor = "new" /\ routeKind = "private"
    /\ subject # "home" => cachedRows = {}

\* What is kept in slots.
SlotsNext ==
    \/ /\ subject = "invitations" /\ Inviting!InvitationsNext
       /\ UNCHANGED <<watchingVars, summaryVars, registrationVars, composerVars>>
    \/ /\ subject = "watches" /\ WatchingNext
       /\ UNCHANGED <<invitationVars, summaryVars, registrationVars, composerVars>>
    \/ /\ subject = "summaries" /\ SummariesNext
       /\ UNCHANGED <<invitationVars, watchingVars, registrationVars, composerVars>>
    \/ /\ subject = "registration" /\ Member!RegistrationNext
       /\ UNCHANGED <<invitationVars, watchingVars, summaryVars, composerVars>>
    \/ /\ subject = "composer" /\ Compose!ComposerNext
       /\ UNCHANGED <<invitationVars, watchingVars, summaryVars, registrationVars>>

\* The screens a user opens for one thing.
DialogsNext ==
    \/ /\ subject = "claiming" /\ Manager!ClaimingNext
       /\ UNCHANGED <<searchVars, acceptingVars, inviteScreenVars, panelVars>>
    \/ /\ subject = "searching" /\ Search!SearchNext
       /\ UNCHANGED <<claimingVars, acceptingVars, inviteScreenVars, panelVars>>
    \/ /\ subject = "accepting" /\ Acceptance!AcceptingNext
       /\ UNCHANGED <<claimingVars, searchVars, inviteScreenVars, panelVars>>
    \/ /\ subject = "inviting" /\ Generator!InviteScreenNext
       /\ UNCHANGED <<claimingVars, searchVars, acceptingVars, panelVars>>
    \/ /\ subject = "panel" /\ Generator!PanelNext
       /\ UNCHANGED <<claimingVars, searchVars, acceptingVars, inviteScreenVars>>

\* A conversation and the list of them.
ChatNext ==
    \/ /\ subject = "rows" /\ Layout!RowsNext
       /\ UNCHANGED <<writingVars, listingVars, preferenceVars>>
    \/ /\ subject = "writing" /\ Tables!WritingNext
       /\ UNCHANGED <<rowVars, listingVars, preferenceVars>>
    \/ /\ subject = "home" /\ Home!ListingNext
       /\ UNCHANGED <<rowVars, writingVars, preferenceVars>>
    \/ /\ subject = "preferences" /\ Prefs!PreferencesNext
       /\ UNCHANGED <<rowVars, writingVars, listingVars>>

Next ==
    \/ SlotsNext /\ UNCHANGED <<dialogVars, chatVars, subject>>
    \/ DialogsNext /\ UNCHANGED <<slotVars, chatVars, subject>>
    \/ ChatNext /\ UNCHANGED <<slotVars, dialogVars, subject>>

Spec == Init /\ [][Next]_vars

\* The screens that create invitations are alike, and so are those that read the list.
Alike == Permutations(Creators) \cup Permutations(Listers)

\* The types of all the parts.
TypeOK ==
    /\ Inviting!InvitationsTypeOK /\ WatchingTypeOK /\ SummariesTypeOK
    /\ Member!RegistrationTypeOK /\ Compose!ComposerTypeOK
    /\ Manager!ClaimingTypeOK /\ Search!SearchTypeOK /\ Acceptance!AcceptingTypeOK
    /\ Generator!InviteScreenTypeOK
    /\ Layout!RowsTypeOK /\ Tables!WritingTypeOK /\ Home!ListingTypeOK /\ Prefs!PreferencesTypeOK
    /\ subject \in Subjects

\* A conversation is handed to one new invitation, and those not used stay listed (model.ts:184-186).
InvitationsAreKept == Inviting!InvitationsAreKept

\* A strand known to be registered has the profile's name in its row (strands.ts:33-36).
NameIsRegistered == Member!NameIsRegistered

\* What was typed is kept until the user changes or sends it (ChatInterface.tsx:150, 209), and then
\* written whole: once, and deleted with its reactions (model.ts:69, operations.ts:217-226).
WordsAreKept == Compose!WordsAreKept /\ Tables!WritesAreWhole

\* What the screens show is what goes on: the network screen's claim under way, the search's
\* hits of the whole answer, who said each message and when, what a reply is to, and how the list
\* of conversations stands (CadreManager.tsx:132-136, SearchInterface.tsx:7-9, ChatInterface.tsx:157-187,
\* StrandList.tsx:60-69).
ShownIsSo ==
    /\ Manager!ClaimIsShown /\ Search!AnswerIsWhole
    /\ Layout!MessagesAreTold /\ Home!HomeIsHonest

\* A redeemed invitation is not offered to be redeemed again (model.ts:574, 591-592).
RetryCanSucceed == Acceptance!RetryCanSucceed

\* A screen keeps what was chosen on it: the invitation screen one conversation, its kind and terms
\* (InvitationGenerator.tsx:37-39), the strand's screen and the list its settings (local-state.ts:33);
\* and the invitation screen says why nobody could be invited, as long as that is so (:64-66).
ScreenIsConsistent ==
    Generator!ScreenIsConsistent /\ Generator!PanelIsHonest /\ Prefs!SettingsStay
=============================================================================
