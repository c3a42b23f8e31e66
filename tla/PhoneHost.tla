----------------------------- MODULE PhoneHost -----------------------------
(***************************************************************************)
(* The phone's one node and its settings: CadreService over the kit's      *)
(* phone node.  A node is built with its options, so a change of relays or *)
(* of the Noise mode on a running node builds another one; a change made   *)
(* while no node runs is kept as pending for the next start.               *)
(*                                                                         *)
(* Each await is a boundary between actions.  The kit is external: it does *)
(* one thing at a time, saves the options of a start that succeeded, and   *)
(* its read of the saved start ends before a start does.                   *)
(***************************************************************************)
EXTENDS Naturals

CONSTANTS
    Relays,        \* relay lists a user may choose
    Modes,         \* Noise crypto modes
    FirstRelays, FirstMode, \* what a fresh party starts with, and the default mode
    Callers,       \* users of the settings screens, and the developer's bridge
    None,
    MaxChanges,    \* bound on changes asked for
    MaxNodes       \* bound on nodes built

SendModes == {"offline", "online"}

VARIABLES
    kit,            \* the kit's node: "stopped", "starting" or "running"
    gen,            \* how many nodes were built
    built,          \* the options of the node that runs or starts (phone.options)
    saved,          \* the kit's saved start, on disk
    parties,        \* how many party ids were drawn
    options,        \* CadreServiceImpl.options
    pendingRelays, pendingNoise,
    sendMode,       \* sendModeValue
    boot,           \* doStart: where it is, and the pending settings it used
    change,         \* restarts asked for by applyRelays and setNoiseCryptoMode
    reading,        \* callers of applyRelays whose getRelayAddrs reads the saved start
    changes,        \* how many changes were asked for
    late,           \* history: a setting changed while a node was being rebuilt
    asked           \* history: the settings last asked for, without those refused

phoneVars == <<kit, gen, built, saved, parties, options, pendingRelays, pendingNoise,
               sendMode, boot, change, reading, changes, late, asked>>

Options == [party : Nat, relays : Relays, noise : Modes, mode : SendModes]

\* A pending setting, told apart from an equal one asked for at another time.
Pending(values) == [value : values, n : Nat]

Boots == [pc : {"idle", "reading", "starting", "late", "hooks"},
          relays : Pending(Relays) \cup {None}, noise : Pending(Modes) \cup {None}]

NotBooting == [pc |-> "idle", relays |-> None, noise |-> None]

Changes == [pc : {"idle", "restart", "hooks"}, relays : Pending(Relays) \cup {None}]

NoChange == [pc |-> "idle", relays |-> None]

\* What the constants have to be, and that None is told apart from every setting; the modules that
\* compose this one assume it.
PhoneConstants ==
    /\ FirstRelays \in Relays /\ FirstMode \in Modes
    /\ None \notin Relays \cup Modes \cup Pending(Relays) \cup Pending(Modes) \cup Options
    /\ MaxChanges \in Nat /\ MaxNodes \in Nat

PhoneTypeOK ==
    /\ kit \in {"stopped", "starting", "running"}
    /\ gen \in 0 .. MaxNodes
    /\ built \in Options \cup {None} /\ saved \in Options \cup {None}
    /\ options \in Options \cup {None}
    /\ pendingRelays \in Pending(Relays) \cup {None}
    /\ pendingNoise \in Pending(Modes) \cup {None}
    /\ sendMode \in SendModes /\ boot \in Boots
    /\ change \in [Callers -> Changes]
    /\ reading \in [Callers -> Relays \cup {None}]
    /\ parties \in Nat /\ changes \in 0 .. MaxChanges /\ late \in BOOLEAN
    /\ asked \in [relays : Relays, noise : Modes, mode : SendModes]

PhoneInit ==
    /\ kit = "stopped" /\ gen = 0 /\ built = None /\ saved = None /\ parties = 0
    /\ options = None /\ pendingRelays = None /\ pendingNoise = None
    /\ sendMode = "offline"
    /\ boot = NotBooting /\ change = [c \in Callers |-> NoChange]
    /\ reading = [c \in Callers |-> None]
    /\ changes = 0 /\ late = FALSE
    /\ asked = [relays |-> FirstRelays, noise |-> FirstMode, mode |-> "offline"]

(***************************************************************************)
(* What the settings are said to be.                                       *)
(***************************************************************************)

running == kit = "running"

\* phone.options: known only while a node runs.
phoneOptions == IF running THEN built ELSE None

noiseCryptoMode ==
    CASE pendingNoise # None -> pendingNoise.value
      [] pendingNoise = None /\ running -> built.noise
      [] pendingNoise = None /\ ~running /\ options # None -> options.noise
      [] OTHER -> FirstMode

\* getRelayAddrs, once the options are known.
relayAddrs(known) ==
    CASE pendingRelays # None -> pendingRelays.value
      [] pendingRelays = None /\ running -> built.relays
      [] OTHER -> known.relays

\* The read behind knownOptions returns: every caller that found no options
\* assigns them, whatever another one assigned meanwhile.
knownOptions ==
    IF saved # None THEN saved
    ELSE [party |-> parties + 1, relays |-> FirstRelays, noise |-> FirstMode, mode |-> sendMode]

(***************************************************************************)
(* Starting.                                                               *)
(***************************************************************************)

\* A node is being built with opts; the one that ran is gone.
Build(opts) ==
    /\ gen < MaxNodes
    /\ kit' = "starting" /\ gen' = gen + 1 /\ built' = opts

\* doStart up to phone.start: pending settings override the known options.
StartWith(known) ==
    /\ Build([known EXCEPT
                !.relays = IF pendingRelays # None THEN pendingRelays.value ELSE @,
                !.noise = IF pendingNoise # None THEN pendingNoise.value ELSE @,
                !.mode = sendMode])
    /\ boot' = [pc |-> "starting", relays |-> pendingRelays, noise |-> pendingNoise]

\* Concurrent callers share the start under way.
ensureStarted ==
    /\ kit = "stopped" /\ boot.pc = "idle"
    /\ \/ options # None /\ StartWith(options)
       \/ options = None /\ boot' = [NotBooting EXCEPT !.pc = "reading"]
                         /\ UNCHANGED <<kit, gen, built>>
    /\ UNCHANGED <<saved, parties, options, pendingRelays, pendingNoise, sendMode, change,
                   reading, changes, late, asked>>

\* The first start, or the first of this process.
StartReads ==
    /\ boot.pc = "reading"
    /\ options' = knownOptions /\ StartWith(knownOptions)
    /\ parties' = IF saved = None THEN parties + 1 ELSE parties
    /\ UNCHANGED <<saved, pendingRelays, pendingNoise, sendMode, change, reading, changes,
                   late, asked>>

\* Mutant: whatever is pending is cleared, used or not.
Cleared_Always(pending, used) == None

\* Clear what was used, by identity: a setting changed meanwhile stays.
Cleared(pending, used) == IF pending = used THEN None ELSE pending

\* phone.start resolves.  Settings changed meanwhile are applied by a restart.
StartEnds ==
    /\ kit = "starting" /\ boot.pc = "starting"
    /\ \A c \in Callers : reading[c] = None
    /\ saved' = built /\ options' = built
    /\ pendingRelays' = Cleared(pendingRelays, boot.relays)
    /\ pendingNoise' = Cleared(pendingNoise, boot.noise)
    /\ IF pendingRelays' = None /\ pendingNoise' = None
       THEN kit' = "running" /\ boot' = NotBooting /\ UNCHANGED <<gen, built>>
       ELSE /\ Build([built EXCEPT
                        !.relays = IF pendingRelays' # None THEN pendingRelays'.value ELSE @,
                        !.noise = IF pendingNoise' # None THEN pendingNoise'.value ELSE @])
            /\ boot' = [pc |-> "late", relays |-> pendingRelays', noise |-> pendingNoise']
    /\ UNCHANGED <<parties, sendMode, change, reading, changes, late, asked>>

\* The restart with the late settings resolves; the rebuild hooks run.
LateRestartEnds ==
    /\ kit = "starting" /\ boot.pc = "late"
    /\ kit' = "running" /\ saved' = built /\ options' = built
    /\ boot' = [boot EXCEPT !.pc = "hooks"]
    /\ UNCHANGED <<gen, built, parties, pendingRelays, pendingNoise, sendMode, change, reading,
                   changes, late, asked>>

LateHooksEnd ==
    /\ boot.pc = "hooks"
    /\ pendingRelays' = Cleared(pendingRelays, boot.relays)
    /\ pendingNoise' = Cleared(pendingNoise, boot.noise)
    /\ boot' = NotBooting
    /\ UNCHANGED <<kit, gen, built, saved, parties, options, sendMode, change, reading, changes,
                   late, asked>>

\* A start, or the late restart, fails: what is pending stays for the next one.
StartFails ==
    /\ kit = "starting" /\ boot.pc \in {"starting", "late"}
    /\ kit' = "stopped" /\ boot' = NotBooting
    /\ UNCHANGED <<gen, built, saved, parties, options, pendingRelays, pendingNoise, sendMode,
                   change, reading, changes, late, asked>>

\* A diagnostic stops the node, and does nothing else meanwhile.
stop ==
    /\ running /\ boot.pc = "idle" /\ \A c \in Callers : change[c].pc = "idle"
    /\ kit' = "stopped"
    /\ UNCHANGED <<gen, built, saved, parties, options, pendingRelays, pendingNoise, sendMode,
                   boot, change, reading, changes, late, asked>>

\* The process dies: what is not on disk is gone, pending settings too.
Crash ==
    /\ gen < MaxNodes /\ gen > 0
    /\ kit' = "stopped" /\ options' = None /\ pendingRelays' = None /\ pendingNoise' = None
    /\ boot' = NotBooting /\ change' = [c \in Callers |-> NoChange]
    /\ reading' = [c \in Callers |-> None]
    /\ late' = FALSE
    /\ asked' = [relays |-> IF saved = None THEN FirstRelays ELSE saved.relays,
                 noise |-> IF saved = None THEN FirstMode ELSE saved.noise, mode |-> sendMode]
    /\ UNCHANGED <<gen, built, saved, parties, sendMode, changes>>

(***************************************************************************)
(* Changing settings.                                                      *)
(***************************************************************************)

\* A rebuild is under way, by applyRelays, setNoiseCryptoMode or late settings.
Rebuilding == kit = "starting" /\ boot.pc # "starting"

\* applyRelays once it knows the relays in use.
Apply(c, a, known) ==
    IF a = relayAddrs(known)
    THEN UNCHANGED <<kit, gen, built, pendingRelays, change, late, asked>>
    ELSE /\ pendingRelays' = [value |-> a, n |-> changes']
         /\ asked' = [asked EXCEPT !.relays = a]
         /\ late' = (late \/ Rebuilding)
         /\ IF ~running THEN UNCHANGED <<kit, gen, built, change>>
            ELSE /\ Build([built EXCEPT !.relays = a])
                 /\ change' = [change EXCEPT ![c] = [pc |-> "restart", relays |-> pendingRelays']]

Asks(c) ==
    /\ change[c].pc = "idle" /\ reading[c] = None /\ changes < MaxChanges
    /\ changes' = changes + 1

applyRelays(c, a) ==
    /\ Asks(c)
    /\ IF pendingRelays = None /\ ~running /\ options = None
       THEN /\ reading' = [reading EXCEPT ![c] = a]
            /\ UNCHANGED <<kit, gen, built, pendingRelays, change, late, asked>>
       ELSE /\ Apply(c, a, options) /\ UNCHANGED reading
    /\ UNCHANGED <<saved, parties, options, pendingNoise, sendMode, boot>>

\* Its read of the saved start returns: here too a first run draws a party id.
RelaysRead(c) ==
    /\ reading[c] # None
    /\ options' = knownOptions
    /\ parties' = IF saved = None THEN parties + 1 ELSE parties
    /\ reading' = [reading EXCEPT ![c] = None]
    /\ changes' = changes /\ Apply(c, reading[c], knownOptions)
    /\ UNCHANGED <<saved, pendingNoise, sendMode, boot>>

setNoiseCryptoMode(c, m) ==
    /\ Asks(c) /\ m # noiseCryptoMode
    /\ asked' = [asked EXCEPT !.noise = m]
    /\ late' = (late \/ Rebuilding)
    /\ IF running
       THEN /\ Build([built EXCEPT !.noise = m])
            /\ change' = [change EXCEPT ![c] = [pc |-> "restart", relays |-> None]]
            /\ UNCHANGED pendingNoise
       ELSE /\ pendingNoise' = [value |-> m, n |-> changes']
            /\ UNCHANGED <<kit, gen, built, change>>
    /\ UNCHANGED <<saved, parties, options, pendingRelays, sendMode, boot, reading>>

\* Refused while writes are queued; a node that runs is told at once.
setSendMode(m) ==
    /\ m # sendMode /\ changes < MaxChanges
    /\ changes' = changes + 1
    /\ sendMode' = m /\ asked' = [asked EXCEPT !.mode = m]
    /\ built' = IF running THEN [built EXCEPT !.mode = m] ELSE built
    /\ late' = (late \/ kit = "starting")
    /\ UNCHANGED <<kit, gen, saved, parties, options, pendingRelays, pendingNoise, boot, change,
                   reading>>

\* phone.restart resolves, and the rebuild hooks run.
RestartEnds(c) ==
    /\ kit = "starting" /\ change[c].pc = "restart"
    /\ kit' = "running" /\ saved' = built /\ options' = built
    /\ change' = [change EXCEPT ![c].pc = "hooks"]
    /\ UNCHANGED <<gen, built, parties, pendingRelays, pendingNoise, sendMode, boot, reading,
                   changes, late, asked>>

HooksEnd(c) ==
    /\ change[c].pc = "hooks"
    /\ pendingRelays' = Cleared(pendingRelays, change[c].relays)
    /\ change' = [change EXCEPT ![c] = NoChange]
    /\ UNCHANGED <<kit, gen, built, saved, parties, options, pendingNoise, sendMode, boot,
                   reading, changes, late, asked>>

\* The restart fails: the change is refused, the node is down with its last options.
RestartFails(c) ==
    /\ kit = "starting" /\ change[c].pc = "restart"
    /\ kit' = "stopped"
    /\ pendingRelays' = Cleared(pendingRelays, change[c].relays)
    /\ change' = [change EXCEPT ![c] = NoChange]
    /\ asked' = [asked EXCEPT
         !.relays = IF pendingRelays' \in {None, boot.relays} \cup {change[d].relays : d \in Callers}
                    THEN options.relays ELSE @,
         !.noise = IF pendingNoise \in {None, boot.noise} THEN options.noise ELSE @]
    /\ UNCHANGED <<gen, built, saved, parties, options, pendingNoise, sendMode, boot, reading,
                   changes, late>>

PhoneSteps ==
    \/ ensureStarted \/ StartReads \/ StartEnds \/ LateRestartEnds \/ LateHooksEnd
    \/ StartFails \/ stop
    \/ \E m \in SendModes : setSendMode(m)
    \/ \E c \in Callers :
         \/ \E a \in Relays : applyRelays(c, a)
         \/ \E m \in Modes : setNoiseCryptoMode(c, m)
         \/ RelaysRead(c) \/ RestartEnds(c) \/ HooksEnd(c) \/ RestartFails(c)

PhoneNext == PhoneSteps \/ Crash

PhoneSpec == PhoneInit /\ [][PhoneNext]_phoneVars

(***************************************************************************)
(* Properties.                                                             *)
(***************************************************************************)

\* Once nothing is under way, the node that runs was built with the relays, the Noise mode
\* and the send mode last asked for, and nothing is left pending: a change made while the
\* node was starting is not dropped (CadreService.ts:270-291).  Except after a change made
\* during a rebuild, which is only kept as pending, and a send mode changed during any start.
SettingsAreInUse ==
    (/\ running /\ boot.pc = "idle" /\ ~late
     /\ \A c \in Callers : change[c].pc = "idle" /\ reading[c] = None)
    => /\ pendingRelays = None /\ pendingNoise = None
       /\ [relays |-> built.relays, noise |-> built.noise, mode |-> built.mode] = asked
=============================================================================
