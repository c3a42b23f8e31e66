------------------------------- MODULE NsHost -------------------------------
(***************************************************************************)
(* The node host of the NativeScript app: its start options, and its node. *)
(*                                                                         *)
(* The options are an object read once from the node-local database, or    *)
(* made there on the first run; callers that begin before it is known each *)
(* read.  The database (external) does one call after the other.  A relay  *)
(* change saves the options and rebuilds the node.                         *)
(***************************************************************************)
EXTENDS Naturals, Sequences

CONSTANTS
    Screens,        \* callers of getRelayAddrs and applyRelays
    MaxCalls,       \* bound on calls
    MaxLaunches,    \* bound on starts of the app
    None

\* What the constants have to be; the modules that compose this one assume it.
NsHostConstants ==
    MaxCalls \in Nat /\ MaxLaunches \in Nat \ {0} /\ None \notin [partyId : Nat, relays : Nat]

CONSTANT Host       \* the start of the node, which reads the options too

VARIABLES
    objects,        \* the option objects made in this run of the app
    options,        \* which of them is in use, 0 when none
    saved,          \* the options in the database
    parties,        \* how many party ids were drawn
    kv,             \* the calls on the database, in order
    call,           \* where each caller is, and the relays it wants
    node,           \* the options of the node that runs, or None
    build,          \* those of the node that starts
    starting,       \* ensureStarted's promise is set
    calls, launches

nsVars == <<objects, options, saved, parties, kv, call, node, build, starting, calls, launches>>

Askers == Screens \cup {Host}
StartOptions == [partyId : Nat, relays : 0 .. MaxCalls]     \* relays: a version number
NotCalling == [pc |-> "idle", wants |-> 0]

NsTypeOK ==
    /\ objects \in Seq(StartOptions) /\ options \in 0 .. Len(objects)
    /\ saved \in StartOptions \cup {None} /\ parties \in Nat
    /\ kv \in Seq([by : Askers, sets : StartOptions \cup {None}])
    /\ call \in [Askers -> [pc : {"idle", "get", "first", "build", "set", "stop", "start"},
                             wants : 0 .. MaxCalls]]
    /\ node \in StartOptions \cup {None} /\ build \in StartOptions \cup {None}
    /\ starting \in BOOLEAN /\ calls \in 0 .. MaxCalls /\ launches \in 0 .. MaxLaunches

\* The app is launched: its boot starts the node.
Launched ==
    /\ objects' = <<>> /\ options' = 0 /\ node' = None /\ build' = None /\ starting' = TRUE
    /\ kv' = <<[by |-> Host, sets |-> None]>>
    /\ call' = [c \in Askers |-> IF c = Host THEN [NotCalling EXCEPT !.pc = "get"] ELSE NotCalling]

NsInit ==
    /\ objects = <<>> /\ options = 0 /\ node = None /\ build = None /\ starting = TRUE
    /\ kv = <<[by |-> Host, sets |-> None]>>
    /\ call = [c \in Askers |-> IF c = Host THEN [NotCalling EXCEPT !.pc = "get"] ELSE NotCalling]
    /\ saved = None /\ parties = 0 /\ calls = 0 /\ launches = 1

\* startOptions returns, with the object in use by then, to the caller's next step: the
\* start builds a node with it; a change writes its relays into it and saves it.
Got(c, o, others) ==
    \/ /\ c = Host /\ build' = objects'[o]
       /\ call' = [call EXCEPT ![c].pc = "build"] /\ kv' = others
    \/ /\ c # Host /\ call[c].wants = 0
       /\ call' = [call EXCEPT ![c] = NotCalling] /\ kv' = others /\ UNCHANGED build
    \/ /\ c # Host /\ call[c].wants # 0
       /\ call' = [call EXCEPT ![c].pc = "set"]
       /\ kv' = Append(others, [by |-> c, sets |-> objects'[o]])
       /\ UNCHANGED build

\* The object o with the relays c wants written into it, when it wants some.
Written(objs, c, o) ==
    IF c = Host \/ call[c].wants = 0 THEN objs ELSE [objs EXCEPT ![o].relays = call[c].wants]

\* startOptions once the database answers: another object, whether or not another caller
\* made one meanwhile.  On a first run it is saved before it is returned.
GetReturns ==
    /\ kv # <<>> /\ Head(kv).sets = None
    /\ options' = Len(objects) + 1
    /\ LET c == Head(kv).by
           read == IF saved # None THEN saved ELSE [partyId |-> parties + 1, relays |-> 0]
       IN IF saved = None
          THEN /\ parties' = parties + 1 /\ objects' = Append(objects, read)
               /\ kv' = Append(Tail(kv), [by |-> c, sets |-> read])
               /\ call' = [call EXCEPT ![c].pc = "first"] /\ UNCHANGED build
          ELSE /\ UNCHANGED parties
               /\ objects' = Written(Append(objects, read), c, options')
               /\ Got(c, options', Tail(kv))
    /\ UNCHANGED <<saved, node, starting, calls, launches>>

\* Mutant: a caller goes on with the object it made, not the one in use.
FirstSaved_OwnObject ==
    /\ kv # <<>> /\ Head(kv).sets # None /\ call[Head(kv).by].pc = "first"
    /\ saved' = Head(kv).sets
    /\ LET o == CHOOSE o \in 1 .. Len(objects) : objects[o].partyId = Head(kv).sets.partyId
       IN  objects' = Written(objects, Head(kv).by, o) /\ Got(Head(kv).by, o, Tail(kv))
    /\ UNCHANGED <<options, parties, node, starting, calls, launches>>

FirstSaved ==
    /\ kv # <<>> /\ Head(kv).sets # None /\ call[Head(kv).by].pc = "first"
    /\ saved' = Head(kv).sets
    /\ objects' = Written(objects, Head(kv).by, options)
    /\ Got(Head(kv).by, options, Tail(kv))
    /\ UNCHANGED <<options, parties, node, starting, calls, launches>>

\* getRelayAddrs, or applyRelays with the relays it wants.
Calls(c, wants) ==
    /\ call[c].pc = "idle" /\ calls < MaxCalls
    /\ calls' = calls + 1
    /\ IF options = 0
       THEN /\ call' = [call EXCEPT ![c] = [pc |-> "get", wants |-> wants]]
            /\ kv' = Append(kv, [by |-> c, sets |-> None])
            /\ UNCHANGED objects
       ELSE /\ wants # 0
            /\ objects' = [objects EXCEPT ![options].relays = wants]
            /\ call' = [call EXCEPT ![c] = [pc |-> "set", wants |-> wants]]
            /\ kv' = Append(kv, [by |-> c, sets |-> objects'[options]])
    /\ UNCHANGED <<options, saved, parties, node, build, starting, launches>>

getRelayAddrs(c) == Calls(c, 0)
applyRelays(c) == Calls(c, calls + 1)

\* The change is saved; a node that runs is stopped.
RelaysSaved ==
    /\ kv # <<>> /\ Head(kv).sets # None /\ call[Head(kv).by].pc = "set"
    /\ saved' = Head(kv).sets /\ kv' = Tail(kv)
    /\ call' = [call EXCEPT ![Head(kv).by] = IF node = None THEN NotCalling
                                             ELSE [@ EXCEPT !.pc = "stop"]]
    /\ node' = None /\ starting' = (starting /\ node = None)
    /\ UNCHANGED <<objects, options, parties, build, calls, launches>>

\* ensureStarted: one start at a time, with the options in use.
Stopped(c) ==
    /\ call[c].pc = "stop"
    /\ IF starting
       THEN call' = [call EXCEPT ![c].pc = "start"] /\ UNCHANGED <<build, starting>>
       ELSE /\ starting' = TRUE /\ build' = objects[options]
            /\ call' = [call EXCEPT ![c].pc = "start", ![Host].pc = "build"]
    /\ UNCHANGED <<objects, options, saved, parties, kv, node, calls, launches>>

NodeUp ==
    /\ call[Host].pc = "build"
    /\ node' = build /\ build' = None
    /\ call' = [c \in Askers |-> IF call[c].pc \in {"build", "start"} THEN NotCalling ELSE call[c]]
    /\ UNCHANGED <<objects, options, saved, parties, kv, starting, calls, launches>>

\* A start that fails may be tried again, by the next ensureStarted.
StartFails ==
    /\ call[Host].pc = "build"
    /\ build' = None /\ starting' = FALSE
    /\ call' = [c \in Askers |-> IF call[c].pc \in {"build", "start"} THEN NotCalling ELSE call[c]]
    /\ UNCHANGED <<objects, options, saved, parties, kv, node, calls, launches>>

\* The app dies and is launched again.
Relaunch ==
    /\ launches < MaxLaunches /\ launches' = launches + 1 /\ Launched
    /\ UNCHANGED <<saved, parties, calls>>

NsNext ==
    \/ GetReturns \/ FirstSaved \/ RelaysSaved \/ NodeUp \/ StartFails \/ Relaunch
    \/ \E c \in Screens : getRelayAddrs(c) \/ applyRelays(c) \/ Stopped(c)

\* Once the database has nothing left to do, the party saved is the one of the options in use
\* and of the node that runs or starts, although callers that began on a first run each drew
\* one (host.ts:68-75): a node of another party would found its own cadre.
PartyIsSaved ==
    kv = <<>> /\ options # 0 =>
        /\ saved # None /\ objects[options].partyId = saved.partyId
        /\ node # None => node.partyId = saved.partyId
        /\ build # None => build.partyId = saved.partyId
=============================================================================
