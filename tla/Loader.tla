------------------------------- MODULE Loader -------------------------------
(***************************************************************************)
(* loader() (packages/core/src/stores/loader.ts) over the reference-counted *)
(* store it is built on (stores/store.ts): the read state machine behind   *)
(* every screen.  What it reads is a source with a version number; a read  *)
(* returns some version between the one it began at and the one it ended   *)
(* at.  Timers are flags: set, and fired at any later time.                *)
(* A name with a suffix (run_Overlapping) is a faulty variant that no      *)
(* action uses.                                                            *)
(***************************************************************************)
EXTENDS Naturals

CONSTANTS
    MaxVersion,     \* bound: changes of the source
    Subscribers,
    MaxFailures     \* bound: reads that fail

ASSUME LoaderAssumption ==
    /\ MaxVersion \in Nat
    /\ MaxFailures \in Nat

VARIABLES
    polls,          \* does its user give it a `pollMs`?  Never changes.
    source,         \* the version of what is read
    told,           \* history: the newest version a change signal was given for
    subscribers,
    active,
    inFlight,       \* "none", "loading", or "settled": its .finally has not run
    running,        \* calls of load() that have not settled
    begun,          \* history: the version the newest read began at
    again, debounce, poll,
    shown,          \* the store: [state, value, refreshing]
    failed          \* reads that failed

timers == <<again, debounce, poll>>
world == <<polls, source, told, failed>>
vars == <<polls, source, told, subscribers, active, inFlight, running, begun, timers, shown, failed>>

-----------------------------------------------------------------------------
(* run(): start a read, or ask for one more after the one in flight.        *)
run_Overlapping ==
    /\ inFlight' = "loading" /\ running' = running + 1 /\ begun' = source
    /\ shown' = [shown EXCEPT !.refreshing = TRUE]
    /\ UNCHANGED again

run_Coalescing ==
    IF inFlight # "none" THEN UNCHANGED <<again, inFlight, running, begun, shown>>
    ELSE /\ inFlight' = "loading" /\ running' = running + 1 /\ begun' = source
         /\ shown' = [shown EXCEPT !.refreshing = TRUE]
         /\ UNCHANGED again

run ==
    IF inFlight # "none"
    THEN again' = TRUE /\ UNCHANGED <<inFlight, running, begun, shown>>
    ELSE /\ inFlight' = "loading"
         /\ running' = running + 1
         /\ begun' = source
         /\ shown' = [shown EXCEPT !.refreshing = TRUE]
         /\ UNCHANGED again

(* The first subscriber starts the store: its change signals, and a read. *)
Subscribe(x) ==
    /\ x \notin subscribers
    /\ subscribers' = subscribers \cup {x}
    /\ IF subscribers = {} THEN active' = TRUE /\ run
       ELSE UNCHANGED <<active, inFlight, running, begun, again, shown>>
    /\ UNCHANGED <<debounce, poll, world>>

Unsubscribe_KeepsTimers(x) ==
    /\ x \in subscribers
    /\ subscribers' = subscribers \ {x}
    /\ active' = (subscribers' # {})
    /\ UNCHANGED <<again, inFlight, running, begun, shown, world, debounce, poll>>

(* The last one to leave stops it: no more signals, no timer left.  A read  *)
(* in flight runs on.                                                       *)
Unsubscribe(x) ==
    /\ x \in subscribers
    /\ subscribers' = subscribers \ {x}
    /\ IF subscribers' = {}
       THEN active' = FALSE /\ debounce' = FALSE /\ poll' = FALSE
       ELSE UNCHANGED <<active, debounce, poll>>
    /\ UNCHANGED <<again, inFlight, running, begun, shown, world>>

(* The source changes.  scheduleFromChange hears of it while it is active;  *)
(* some changes no signal covers.                                           *)
Change ==
    /\ source < MaxVersion
    /\ source' = source + 1
    /\ \/ /\ active
          /\ told' = source'
          /\ debounce' = TRUE
       \/ UNCHANGED <<told, debounce>>
    /\ UNCHANGED <<subscribers, active, inFlight, running, begun, again, poll, shown, polls, failed>>

DebounceFires ==
    /\ debounce /\ debounce' = FALSE
    /\ run
    /\ UNCHANGED <<subscribers, active, poll, world>>

PollFires ==
    /\ poll /\ poll' = FALSE
    /\ run
    /\ UNCHANGED <<subscribers, active, debounce, world>>

(* reload() and refresh(), which the caller may use subscribed or not. *)
reload == run /\ UNCHANGED <<subscribers, active, debounce, poll, world>>

(* What the store shows once a read has settled: after a failure, the last  *)
(* value read if there is one.                                              *)
ReadSettles(ok, v) ==
    shown' = IF ok THEN [state |-> "ready", value |-> v, refreshing |-> FALSE]
             ELSE IF shown.state = "ready" THEN [shown EXCEPT !.refreshing = FALSE]
             ELSE [shown EXCEPT !.state = "failed", !.refreshing = FALSE]

LoadReturns ==
    /\ inFlight = "loading"
    /\ inFlight' = "settled"
    /\ running' = running - 1
    /\ \E v \in begun..source : ReadSettles(TRUE, v)
    /\ UNCHANGED <<subscribers, active, begun, timers, world>>

LoadFails ==
    /\ inFlight = "loading" /\ failed < MaxFailures
    /\ inFlight' = "settled"
    /\ running' = running - 1
    /\ failed' = failed + 1
    /\ ReadSettles(FALSE, 0)
    /\ UNCHANGED <<subscribers, active, begun, timers, polls, source, told>>

Finally_NoPoll ==
    /\ inFlight = "settled"
    /\ again' = FALSE
    /\ IF again /\ active
       THEN inFlight' = "loading" /\ running' = running + 1 /\ begun' = source
            /\ shown' = [shown EXCEPT !.refreshing = TRUE] /\ UNCHANGED poll
       ELSE inFlight' = "none" /\ poll' = (polls /\ active /\ shown.state = "ready")
            /\ UNCHANGED <<running, begun, shown>>
    /\ UNCHANGED <<subscribers, active, debounce, world>>

(* .finally: one more read if one was asked for meanwhile, else the poll is *)
(* set anew.                                                                *)
Finally ==
    /\ inFlight = "settled"
    /\ again' = FALSE
    /\ IF again /\ active
       THEN /\ inFlight' = "loading"
            /\ running' = running + 1
            /\ begun' = source
            /\ shown' = [shown EXCEPT !.refreshing = TRUE]
            /\ UNCHANGED poll
       ELSE /\ inFlight' = "none"
            /\ poll' = (polls /\ active)
            /\ UNCHANGED <<running, begun, shown>>
    /\ UNCHANGED <<subscribers, active, debounce, world>>

-----------------------------------------------------------------------------
Init ==
    /\ polls \in BOOLEAN
    /\ source = 0 /\ told = 0 /\ begun = 0 /\ failed = 0
    /\ subscribers = {} /\ active = FALSE
    /\ inFlight = "none" /\ running = 0
    /\ again = FALSE /\ debounce = FALSE /\ poll = FALSE
    /\ shown = [state |-> "loading", value |-> 0, refreshing |-> FALSE]

Next ==
    \/ \E x \in Subscribers : Subscribe(x) \/ Unsubscribe(x)
    \/ Change \/ DebounceFires \/ PollFires \/ reload
    \/ LoadReturns \/ LoadFails \/ Finally

(* Timers fire, and a read settles one way or the other.  Nobody has to     *)
(* subscribe, leave or reload.                                              *)
Fairness ==
    /\ WF_vars(DebounceFires) /\ WF_vars(PollFires)
    /\ WF_vars(LoadReturns \/ LoadFails) /\ WF_vars(Finally)

Spec == Init /\ [][Next]_vars
FairSpec == Spec /\ Fairness

-----------------------------------------------------------------------------
(* Properties. *)

TypeOK ==
    /\ polls \in BOOLEAN
    /\ source \in 0..MaxVersion /\ told \in 0..source /\ begun \in 0..source
    /\ subscribers \subseteq Subscribers
    /\ active \in BOOLEAN /\ again \in BOOLEAN /\ debounce \in BOOLEAN /\ poll \in BOOLEAN
    /\ inFlight \in {"none", "loading", "settled"}
    /\ running \in 0..1
    /\ shown \in [state : {"loading", "ready", "failed"}, value : 0..MaxVersion, refreshing : BOOLEAN]
    /\ failed \in 0..MaxFailures

(* "It stops all of that when its last subscriber leaves", and the other    *)
(* way round: while somebody is subscribed a polling loader never falls     *)
(* asleep, however its reads end and its subscribers come and go.           *)
AwakeWhileWatched ==
    /\ subscribers = {} => ~active /\ ~debounce /\ ~poll
    /\ subscribers # {} /\ polls => inFlight # "none" \/ poll

(* The backstop: with a poll, also a change nothing signals is read while   *)
(* somebody is watching.                                                    *)
PollCoversSilentChanges ==
    \A v \in 0..MaxVersion : (polls /\ active /\ source = v) ~> (begun >= v \/ ~active)

(* The loader keeps the promise of Reader. *)
R == INSTANCE Reader WITH open <- active, reading <- (inFlight = "loading")
ImplementsReader == R!Spec
=============================================================================
