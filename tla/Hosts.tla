------------------------------- MODULE Hosts -------------------------------
(***************************************************************************)
(* The hosts beside the core, each with what it keeps: the phone's node,   *)
(* its settings and its private store; the command line's prompt, node and *)
(* profile lock, its sessions and its `tail`; the NativeScript app's node  *)
(* and its block storage; the batching of WebSocket sends; what the phone  *)
(* tells its app, the texts of invitations and node codes, and the marks   *)
(* of writes; and what a user of the phone decides: its first opening, the *)
(* settings and relays, the party's machines, the names of members, and    *)
(* leaving a strand.                                                       *)
(* These run in different processes, or share nothing that is modelled, so *)
(* subject says which one a behaviour is about, and the others stay where  *)
(* they begin.  The private store runs over the phone's node: those two    *)
(* are composed.                                                           *)
(***************************************************************************)
EXTENDS Naturals, Sequences, LazyStores, ProfileLock, Batching

CONSTANTS
    Relays, Modes, FirstRelays, FirstMode, Callers, MaxChanges, MaxNodes,   \* of PhoneHost
    MaxLines,                                                               \* of Serchat
    Screens, Host, MaxCalls, MaxLaunches,                                   \* of NsHost
    MaxArrivals, FirstLimit, TailLimit,                                     \* of Following
    Names, NoName, MaxOpenings, MaxEdits,                                   \* of Opening
    Fields, Offered, MaxSets, MaxSetsAtOnce,                                \* of AppSettings
    Machines, MaxExports,                                                   \* of Machines
    Others, Nicknames, MaxLoads, MaxReads, MaxGiven,                        \* of MemberNames
    Leaves, MaxUnsent,                                                      \* of Leaving
    Kept, Fresh, Things, Nothing, MaxCommands, MaxMoves,                    \* of Session
    Asleep, Addrs, MaxSweeps, MaxBuilt,                                     \* of PhoneEvents
    Messages, MaxMarked, MaxClock,                                          \* of Marks
    RelayHosts, Peers, ExtraHost, ExtraPeer, MaxRelays, Runs, MaxConfigured, \* of Relaying
    Invited, Nodes                                                          \* of Codes

VARIABLES
    kit, gen, built, saved, parties, options, pendingRelays, pendingNoise, sendMode, boot,
    change, reading, changes, late, asked,
    promptNode, starting, build, relays, stored, handlers, attached, open, ready, typed,
    queue, command, running, asker, aborted, promptClosed, phase, ran, answers,
    nsObjects, nsOptions, nsSaved, nsParties, kv, call, nsNode, nsBuild, nsStarting, nsCalls,
    launches,
    log, follows, seen, printed, changed, reader, again, page, missed, failing,
    marker, wroteBy, name, openings, check, booted, gate, form, nameSaves, edits, wording, named,
    unmarked, overtaken,
    prefs, settingsPane, setCalls, sets, offer, nodeRelays, relaysApplying, listed, chose, wanted,
    overwritten, crossed, refused,
    cadre, nodeUp, readStep, found, rereads, pane, asking, removals, lateRemovals, secret, exports,
    confirmed, reopened, unheard,
    names, version, rows, rowsFrom, loads, lastLoad, namesError, sheet, saves, listRead, listFound,
    listAgain, listVersion, told,
    kind, messagesWritten, unsent, instance, published, slot, leave, leaveError, withdrawn, agreed, forgot,
    lateMessage, guessed, halted, overlapped,
    runPhase, atPrompt, up, now, moves, shownRows, last, rowsFile, runCommand, commands, founding, acted,
    unseen, shifted, hurried,
    appState, eventsNode, nodesBuilt, strandStatus, sweeps, sweepsBegun, wakes, sweepsOverlapped,
    wakesMissed, addrs, updated, lastSeenAddrs, addrsMoved, addrsShown,
    byTx, deviceClock, writesMade, lastWrites, turnedBack, withdrawnWrite,
    savedRelays, adding, printedRelays, relayChanges, removedRelay,
    profileFile, run, configured, nodeParty, lastRelays, behind, outrun,
    inView, scannedValue, handledRef, camera, edited, textRead,
    subject

Phone == INSTANCE PhoneHost
Prompt == INSTANCE Serchat WITH node <- promptNode, closed <- promptClosed
Ns == INSTANCE NsHost WITH
    objects <- nsObjects, options <- nsOptions, saved <- nsSaved, parties <- nsParties,
    node <- nsNode, build <- nsBuild, starting <- nsStarting, calls <- nsCalls
Tailing == INSTANCE Following
Run == INSTANCE Session WITH phase <- runPhase, printed <- shownRows, command <- runCommand,
    file <- rowsFile
App == INSTANCE Opening WITH saves <- nameSaves, typed <- wording
Choices == INSTANCE AppSettings WITH
    MaxCalls <- MaxSetsAtOnce, pane <- settingsPane, calls <- setCalls, relays <- nodeRelays,
    applying <- relaysApplying
Cadre == INSTANCE Machines WITH again <- rereads
Naming == INSTANCE MemberNames WITH error <- namesError
Departing == INSTANCE Leaving WITH error <- leaveError, late <- lateMessage,
    written <- messagesWritten
Events == INSTANCE PhoneEvents WITH
    app <- appState, node <- eventsNode, nodes <- nodesBuilt, status <- strandStatus,
    begun <- sweepsBegun, overlapped <- sweepsOverlapped, missed <- wakesMissed,
    moved <- addrsMoved, shown <- addrsShown
Marking == INSTANCE Marks WITH
    clock <- deviceClock, made <- writesMade, latest <- lastWrites, withdrawn <- withdrawnWrite
Adding == INSTANCE Relaying WITH removed <- removedRelay
Reading == INSTANCE Codes WITH value <- scannedValue, read <- textRead

ASSUME HostsConstants ==
    /\ Phone!PhoneConstants /\ Prompt!SerchatConstants /\ LockConstants
    /\ Ns!NsHostConstants /\ StoreConstants /\ StorageConstants /\ BatchingConstants
    /\ Tailing!FollowingConstants
    /\ App!OpeningConstants /\ Choices!AppSettingsConstants /\ Cadre!MachinesConstants
    /\ Naming!MemberNamesConstants /\ Departing!LeavingConstants /\ Run!SessionConstants
    /\ Events!PhoneEventsConstants /\ Marking!MarksConstants /\ Adding!RelayingConstants

phoneVars == <<kit, gen, built, saved, parties, options, pendingRelays, pendingNoise,
               sendMode, boot, change, reading, changes, late, asked>>
promptVars == <<promptNode, starting, build, relays, stored, handlers, attached, open, ready,
                typed, queue, command, running, asker, aborted, promptClosed, phase, ran, answers>>
nsVars == <<nsObjects, nsOptions, nsSaved, nsParties, kv, call, nsNode, nsBuild, nsStarting,
            nsCalls, launches>>
followingVars == <<log, follows, seen, printed, changed, reader, again, page, missed, failing>>

sessionVars == <<runPhase, atPrompt, up, now, moves, shownRows, last, rowsFile, runCommand, commands,
                 founding, acted, unseen, shifted, hurried>>
openingVars == <<marker, wroteBy, name, openings, check, booted, gate, form, nameSaves, edits,
                 wording, named, unmarked, overtaken>>
settingsVars == <<prefs, settingsPane, setCalls, sets, offer, nodeRelays, relaysApplying, listed, chose,
                  wanted, overwritten, crossed, refused>>
machinesVars == <<cadre, nodeUp, readStep, found, rereads, pane, asking, removals, lateRemovals,
                  secret, exports, confirmed, reopened, unheard>>
memberNamesVars == <<names, version, rows, rowsFrom, loads, lastLoad, namesError, sheet, saves,
                     listRead, listFound, listAgain, listVersion, told>>
leavingVars == <<kind, messagesWritten, unsent, instance, published, slot, leave, leaveError, withdrawn,
                 agreed, forgot, lateMessage, guessed, halted, overlapped>>

phoneEventsVars == <<appState, eventsNode, nodesBuilt, strandStatus, sweeps, sweepsBegun, wakes,
                     sweepsOverlapped, wakesMissed, addrs, updated, lastSeenAddrs, addrsMoved, addrsShown>>
marksVars == <<byTx, deviceClock, writesMade, lastWrites, turnedBack, withdrawnWrite>>
relayCommandVars == <<savedRelays, adding, printedRelays, relayChanges, removedRelay>>
configVars == <<profileFile, run, configured, nodeParty, lastRelays, behind, outrun>>
relayingVars == <<relayCommandVars, configVars>>
codesVars == <<inView, scannedValue, handledRef, camera, edited, textRead>>

hostVars == <<phoneVars, node, storeVars, lockVars, nsVars, storageVars, batchVars>>
commandVars == <<promptVars, followingVars, sessionVars, relayingVars>>
deviceVars == <<phoneEventsVars, marksVars, codesVars>>
decisionVars == <<openingVars, settingsVars, machinesVars, memberNamesVars, leavingVars>>

vars == <<hostVars, commandVars, decisionVars, deviceVars, subject>>

Subjects == {"phone", "serchat", "lock", "ns", "storage", "batching", "following", "session",
             "opening", "settings", "machines", "names", "leaving", "events", "marks", "relaying",
             "config", "codes"}

Init ==
    /\ Phone!PhoneInit /\ node = 0 /\ StoreInit /\ Prompt!SerchatInit /\ LockInit
    /\ Ns!NsInit /\ StorageInit /\ BatchInit /\ Tailing!FollowingInit
    /\ App!OpeningInit /\ Choices!AppSettingsInit /\ Cadre!MachinesInit
    /\ Naming!MemberNamesInit /\ Departing!LeavingInit /\ Run!SessionInit
    /\ Events!PhoneEventsInit /\ Marking!MarksInit /\ Adding!RelayingInit /\ Reading!CodesInit
    /\ subject \in Subjects
    /\ subject # "opening" => marker = "none" /\ wroteBy = {}
    /\ subject # "leaving" => kind = "founded"
    /\ subject # "machines" => cadre = {} /\ nodeUp

\* What the host gives as its node: the one that runs, none while another is built.
NodeOf == IF kit = "running" THEN gen ELSE 0

\* A crash takes the private store's operations with it.
PhoneStep ==
    /\ \/ Phone!PhoneSteps /\ UNCHANGED storeVars
       \/ UNCHANGED phoneVars /\ StoreNext
       \/ Phone!Crash /\ StoreDies
    /\ node' = NodeOf'

\* A step of the command line that keeps the others where they are.
Serchat(A) ==
    /\ subject = "serchat" /\ A
    /\ UNCHANGED <<hostVars, followingVars, sessionVars, relayingVars, decisionVars, deviceVars, subject>>

\* The nodes, and what they rest on.
HostNext ==
    \/ /\ subject = "phone" /\ PhoneStep
       /\ UNCHANGED <<lockVars, nsVars, storageVars, batchVars>>
    \/ /\ subject = "lock" /\ LockNext
       /\ UNCHANGED <<phoneVars, node, storeVars, nsVars, storageVars, batchVars>>
    \/ /\ subject = "ns" /\ Ns!NsNext
       /\ UNCHANGED <<phoneVars, node, storeVars, lockVars, storageVars, batchVars>>
    \/ /\ subject = "storage" /\ StorageNext
       /\ UNCHANGED <<phoneVars, node, storeVars, lockVars, nsVars, batchVars>>
    \/ /\ subject = "batching" /\ BatchNext
       /\ UNCHANGED <<phoneVars, node, storeVars, lockVars, nsVars, storageVars>>

\* What the user of the phone decides.
DecisionNext ==
    \/ /\ subject = "opening" /\ App!OpeningNext
       /\ UNCHANGED <<settingsVars, machinesVars, memberNamesVars, leavingVars>>
    \/ /\ subject = "settings" /\ Choices!AppSettingsNext
       /\ UNCHANGED <<openingVars, machinesVars, memberNamesVars, leavingVars>>
    \/ /\ subject = "machines" /\ Cadre!MachinesNext
       /\ UNCHANGED <<openingVars, settingsVars, memberNamesVars, leavingVars>>
    \/ /\ subject = "names" /\ Naming!MemberNamesNext
       /\ UNCHANGED <<openingVars, settingsVars, machinesVars, leavingVars>>
    \/ /\ subject = "leaving" /\ Departing!LeavingNext
       /\ UNCHANGED <<openingVars, settingsVars, machinesVars, memberNamesVars>>

\* What the phone tells its app, and what it reads.
DeviceNext ==
    \/ subject = "events" /\ Events!PhoneEventsNext /\ UNCHANGED <<marksVars, codesVars>>
    \/ subject = "marks" /\ Marking!MarksNext /\ UNCHANGED <<phoneEventsVars, codesVars>>
    \/ subject = "codes" /\ Reading!CodesNext /\ UNCHANGED <<phoneEventsVars, marksVars>>

\* The commands of serchat.
CommandNext ==
    \/ /\ subject = "following" /\ Tailing!FollowingNext
       /\ UNCHANGED <<promptVars, sessionVars, relayingVars>>
    \/ /\ subject = "session" /\ Run!SessionNext
       /\ UNCHANGED <<promptVars, followingVars, relayingVars>>
    \/ /\ subject = "relaying" /\ Adding!CommandNext
       /\ UNCHANGED <<promptVars, followingVars, sessionVars, configVars>>
    \/ /\ subject = "config" /\ Adding!ConfigNext
       /\ UNCHANGED <<promptVars, followingVars, sessionVars, relayCommandVars>>

Next ==
    \/ Serchat(Prompt!SerchatNext)
    \/ CommandNext /\ UNCHANGED <<hostVars, decisionVars, deviceVars, subject>>
    \/ HostNext /\ UNCHANGED <<commandVars, decisionVars, deviceVars, subject>>
    \/ DecisionNext /\ UNCHANGED <<hostVars, commandVars, deviceVars, subject>>
    \/ DeviceNext /\ UNCHANGED <<hostVars, commandVars, decisionVars, subject>>

\* The process of the command line goes on: its node starts or fails to, its boot and its
\* commands end, what the way out waits for ends or its time is up.
Fairness ==
    /\ WF_vars(Serchat(Prompt!HostSteps)) /\ WF_vars(Serchat(Prompt!Boot))
    /\ WF_vars(Serchat(Prompt!Commands))
    /\ WF_vars(Serchat(Prompt!ShutsDown \/ Prompt!Exits))

Spec == Init /\ [][Next]_vars /\ Fairness

(***************************************************************************)
(* The properties, each stated where its component is; those of the        *)
(* modules this one extends are not stated again.                          *)
(***************************************************************************)

\* The types of all the parts.
TypeOK ==
    /\ Phone!PhoneTypeOK /\ StoreTypeOK /\ Prompt!SerchatTypeOK /\ LockTypeOK
    /\ Ns!NsTypeOK /\ StorageTypeOK /\ BatchTypeOK /\ Tailing!FollowingTypeOK
    /\ App!OpeningTypeOK /\ Choices!AppSettingsTypeOK /\ Cadre!MachinesTypeOK
    /\ Naming!MemberNamesTypeOK /\ Departing!LeavingTypeOK /\ Run!SessionTypeOK
    /\ Events!PhoneEventsTypeOK /\ Marking!MarksTypeOK /\ Adding!RelayingTypeOK /\ Reading!CodesTypeOK
    /\ subject \in Subjects

\* The phone's node runs with the settings last asked for (CadreService.ts:270-291, 411-429), and
\* those are the ones the user chose: no choice is lost to another (relay-offer.md:28), no relay is
\* kept twice (settings.ts:96-97).
SettingsAreInUse == Phone!SettingsAreInUse /\ Choices!ChoicesAreKept /\ Adding!RelaysAreNamed

\* serchat's node has the profile's relays and every handler, and its blocks to itself (cli host.ts),
\* the NativeScript node runs with the party that was saved (ns host.ts:68-75), and the strands of a
\* phone's node are awake in the front, woken one at a time (CadreService.ts:109-116).
NodeIsCurrent ==
    Prompt!NodeIsCurrent /\ Ns!PartyIsSaved /\ Events!AwakeInFront /\ Events!OneAtATime

\* Only what the user asked for is done: lines typed at the prompt are run once, in order, or answer
\* a question (main.ts:255-257); a leave drops only the messages the user was told of
\* (StrandDetail.tsx:147-215); data is refused, or a name asked for, only of those it should be
\* (data-format.ts:2-3, AppNavigator.tsx:37-41); a row number names what was printed, and a run ends
\* once what it founded is started (session.ts:24, main.ts:215-216); a text is opened as what it was
\* made as (invite-link.ts:27-28), and a mark is of the last write (delivery.ts:148).
UserIsHeeded ==
    /\ Prompt!LinesRunInOrder /\ Departing!LeavingIsAsked /\ App!OpeningIsFair
    /\ Run!RowsAreAsPrinted /\ Run!FoundedIsStarted
    /\ Reading!CodesAreRead /\ Marking!MarksAreRead

\* A closed terminal ends the process, unless a command asks or follows (main.ts:338-342).
PromptEnds == Prompt!PromptEnds

\* Who looks is told of changes: `tail` prints every message it is told of, once
\* (commands/strands.ts:100), the lists show every name saved here (model.ts:112), the network
\* screen the party's machines (cadre.ts:30-31), and whoever shows it whether this device can be
\* reached (reachability.ts:3-5).
ChangesAreTold ==
    /\ Tailing!TailMissesNothing /\ Naming!NamesFollow /\ Cadre!MachinesAreTold
    /\ Events!ReachIsShown
=============================================================================
