----------------------------- MODULE PhoneEvents -----------------------------
(***************************************************************************)
(* What CadreService does when the phone tells it something: on a return   *)
(* to the front it wakes the strands that were hibernated, one at a time;  *)
(* on a change of the node's status or addresses it tells those who show   *)
(* whether this device can be reached.                                     *)
(*                                                                         *)
(* The kit is external: going to the background hibernates every strand    *)
(* that is awake before anything else is reported, a stopped node's        *)
(* strands are stopped, and a strand that is being woken is `starting`.    *)
(***************************************************************************)
EXTENDS Naturals, FiniteSets

CONSTANTS
    Asleep,          \* the strands of the node
    Addrs,           \* addresses the node may have
    MaxSweeps,       \* bound on the returns that sweep
    MaxBuilt         \* bound on the nodes built

NoOne == "no strand"

\* What the constants have to be; the modules that compose this one assume it.
PhoneEventsConstants == MaxSweeps \in Nat /\ MaxBuilt \in Nat \ {0} /\ NoOne \notin Asleep

VARIABLES
    app,             \* "front", "back", or "returning" (foreground, resuming)
    node,            \* the node that runs, by number, 0 if none
    nodes,           \* nodes built
    status,          \* of the node's strands
    sweeps,          \* the calls of wakeHibernatedStrands, by number
    begun,           \* how many there were
    wakes,           \* the wakes under way, by strand: the node that was asked, 0 if none
    overlapped,      \* history: a sweep began while another went on
    missed,          \* history: strands whose wake failed, or was another node's
    addrs,           \* the node's addresses
    updated,         \* its event of a change that was not handled yet
    lastSeenAddrs,
    moved,           \* history: a change was seen since the node started
    shown            \* what those who show it read when they were last told

phoneEventsVars == <<app, node, nodes, status, sweeps, begun, wakes, overlapped, missed, addrs,
                     updated, lastSeenAddrs, moved, shown>>

sweepVars == <<app, sweeps, begun, wakes, overlapped, missed>>
addrVars == <<addrs, updated, lastSeenAddrs, moved, shown>>

NoSweep == [of |-> 0, todo |-> {}, at |-> NoOne]
Going(i) == sweeps[i].of # 0

PhoneEventsTypeOK ==
    /\ app \in {"front", "back", "returning"} /\ {node, nodes} \subseteq 0 .. MaxBuilt
    /\ status \in [Asleep -> {"stopped", "active", "starting", "hibernating"}]
    /\ sweeps \in [1 .. MaxSweeps -> [of : 0 .. MaxBuilt, todo : SUBSET Asleep, at : Asleep \cup {NoOne}]]
    /\ begun \in 0 .. MaxSweeps /\ wakes \in [Asleep -> 0 .. MaxBuilt]
    /\ {overlapped, updated, moved} \subseteq BOOLEAN /\ missed \subseteq Asleep
    /\ {addrs, lastSeenAddrs, shown} \subseteq SUBSET Addrs

PhoneEventsInit ==
    /\ app = "front" /\ node = 1 /\ nodes = 1 /\ status = [s \in Asleep |-> "active"]
    /\ sweeps = [i \in 1 .. MaxSweeps |-> NoSweep] /\ begun = 0 /\ wakes = [s \in Asleep |-> 0]
    /\ overlapped = FALSE /\ missed = {}
    /\ addrs = {} /\ updated = FALSE /\ lastSeenAddrs = {} /\ moved = FALSE /\ shown = {}

(***************************************************************************)
(* The node: watchReachability begins and ends with it.                    *)
(***************************************************************************)

\* onStatus: those who show it are told, and nothing was seen yet.
OnStatus(now) ==
    /\ addrs' = now /\ shown' = now
    /\ updated' = FALSE /\ lastSeenAddrs' = {} /\ moved' = FALSE

\* The node stops, or is lost: for a change of its options, or in the background.
NodeStops ==
    /\ node # 0 /\ node' = 0
    /\ status' = [s \in Asleep |-> "stopped"] /\ OnStatus({})
    /\ UNCHANGED <<nodes, sweepVars>>

NodeStarts ==
    /\ node = 0 /\ nodes < MaxBuilt /\ nodes' = nodes + 1 /\ node' = nodes'
    /\ status' = [s \in Asleep |-> "active"] /\ \E now \in SUBSET Addrs : OnStatus(now)
    /\ UNCHANGED sweepVars

\* A relay's reservation is granted or lost, an interface comes or goes.
AddrsChange ==
    /\ node # 0 /\ addrs' \in SUBSET Addrs \ {addrs} /\ updated' = TRUE
    /\ UNCHANGED <<node, nodes, status, sweepVars, lastSeenAddrs, moved, shown>>

\* onSelfUpdate: only a set that differs from the one last seen is told of.
SelfUpdate ==
    /\ node # 0 /\ updated /\ updated' = FALSE
    /\ \/ /\ addrs = lastSeenAddrs /\ UNCHANGED <<lastSeenAddrs, moved, shown>>
       \/ /\ addrs # lastSeenAddrs
          /\ lastSeenAddrs' = addrs /\ moved' = TRUE /\ shown' = addrs
    /\ UNCHANGED <<node, nodes, status, sweepVars, addrs>>

(***************************************************************************)
(* The app, and the sweep of its return.                                   *)
(***************************************************************************)

Background ==
    /\ app # "back" /\ app' = "back"
    /\ status' = [s \in Asleep |-> IF status[s] = "active" THEN "hibernating" ELSE status[s]]
    /\ missed' = {s \in missed : status[s] # "active"}
    /\ UNCHANGED <<node, nodes, sweeps, begun, wakes, overlapped, addrVars>>

Returning ==
    /\ app = "back" /\ app' = "returning"
    /\ UNCHANGED <<node, nodes, status, sweeps, begun, wakes, overlapped, missed, addrVars>>

\* runner.onStateChange: wakeHibernatedStrands works through the strands of the node that runs now.
Resumed ==
    /\ app = "returning" /\ app' = "front"
    /\ \/ /\ node = 0 /\ UNCHANGED <<sweeps, begun, overlapped>>
       \/ /\ node # 0 /\ begun < MaxSweeps /\ begun' = begun + 1
          /\ sweeps' = [sweeps EXCEPT ![begun'] = [of |-> node, todo |-> Asleep, at |-> NoOne]]
          /\ overlapped' = (overlapped \/ \E i \in 1 .. MaxSweeps : Going(i))
    /\ UNCHANGED <<node, nodes, status, wakes, missed, addrVars>>

\* wakeStrand: one wake of a strand at a time, whichever node it was asked of.
wakeStrand(s) ==
    /\ wakes' = IF wakes[s] = 0 THEN [wakes EXCEPT ![s] = node] ELSE wakes
    /\ status' = IF wakes[s] = 0 THEN [status EXCEPT ![s] = "starting"] ELSE status
    /\ missed' = IF wakes[s] # 0 THEN missed \cup {s} ELSE missed

\* The sweep reaches a strand: one that does not hibernate is passed by.
SweepReaches(i, s) ==
    /\ Going(i) /\ sweeps[i].at = NoOne /\ s \in sweeps[i].todo
    /\ \/ /\ sweeps[i].of = node /\ status[s] = "hibernating"
          /\ sweeps' = [sweeps EXCEPT ![i].todo = @ \ {s}, ![i].at = s] /\ wakeStrand(s)
       \/ /\ sweeps[i].of # node \/ status[s] # "hibernating"
          /\ sweeps' = [sweeps EXCEPT ![i].todo = @ \ {s}]
          /\ UNCHANGED <<wakes, status, missed>>
    /\ UNCHANGED <<app, node, nodes, begun, overlapped, addrVars>>

SweepEnds(i) ==
    /\ Going(i) /\ sweeps[i].at = NoOne /\ sweeps[i].todo = {}
    /\ sweeps' = [sweeps EXCEPT ![i] = NoSweep]
    /\ UNCHANGED <<app, node, nodes, status, begun, wakes, overlapped, missed, addrVars>>

\* What waking a strand of this node comes to.
Woken(s, ok) ==
    /\ status' = [status EXCEPT ![s] = IF ok THEN "active" ELSE "hibernating"]
    /\ missed' = IF ok THEN missed \ {s} ELSE missed \cup {s}

\* The wake is no longer under way, whatever came of it, and the sweeps that wait for it go on.
WakeSettles(s, ok) ==
    /\ wakes' = [wakes EXCEPT ![s] = 0]
    /\ sweeps' = [i \in 1 .. MaxSweeps |->
                    IF sweeps[i].at = s THEN [sweeps[i] EXCEPT !.at = NoOne] ELSE sweeps[i]]

\* One asked of a node that was stopped since ends too, and wakes nothing.
WakeEnds(s) ==
    /\ wakes[s] # 0
    /\ \E ok \in BOOLEAN :
         /\ WakeSettles(s, ok)
         /\ IF wakes[s] = node THEN Woken(s, ok) ELSE UNCHANGED <<status, missed>>
    /\ UNCHANGED <<app, node, nodes, begun, overlapped, addrVars>>

\* strandFor: a read or a send wakes the strand it is about itself; cadre-core joins the two.
strandFor(s) ==
    /\ node # 0 /\ status[s] = "hibernating" /\ status' = [status EXCEPT ![s] = "starting"]
    /\ UNCHANGED <<node, nodes, sweepVars, addrVars>>

StrandForEnds(s) ==
    /\ node # 0 /\ status[s] = "starting" /\ wakes[s] # node
    /\ \E ok \in BOOLEAN : Woken(s, ok)
    /\ UNCHANGED <<app, node, nodes, sweeps, begun, wakes, overlapped, addrVars>>

PhoneEventsNext ==
    \/ NodeStops \/ NodeStarts \/ AddrsChange \/ SelfUpdate
    \/ Background \/ Returning \/ Resumed
    \/ \E i \in 1 .. MaxSweeps : SweepEnds(i) \/ \E s \in Asleep : SweepReaches(i, s)
    \/ \E s \in Asleep : WakeEnds(s) \/ strandFor(s) \/ StrandForEnds(s)

PhoneEventsSpec == PhoneEventsInit /\ [][PhoneEventsNext]_phoneEventsVars

(***************************************************************************)
(* Properties.                                                             *)
(***************************************************************************)

\* "On a plain return to the app every conversation would stay down" (CadreService.ts:109-116): once
\* the sweep of a return has ended, no strand hibernates in the front, but one whose wake failed and
\* one that was passed over for a wake that had been asked of an earlier node.
AwakeInFront ==
    (app = "front" /\ \A i \in 1 .. MaxSweeps : ~Going(i)) =>
        {s \in Asleep : status[s] = "hibernating"} \subseteq missed

\* "One at a time, to keep a phone's return from rebuilding every strand network at once"
\* (CadreService.ts:113-114): the sweeps have one wake under way, but when the user returned again
\* before the first one had ended; and none asks twice for a strand.
OneAtATime ==
    overlapped \/ Cardinality({s \in Asleep : wakes[s] # 0 /\ wakes[s] = node}) <= 1

\* A reservation "can be lost after it was granted" (reachability.ts:3-5): once the event of a change
\* is handled, those who show the addresses read the ones the node has.  The exception: it lost all
\* of those it started with before any other change was seen.
ReachIsShown ==
    (node # 0 /\ ~updated) => (shown = addrs \/ (addrs = {} /\ ~moved))

=============================================================================
