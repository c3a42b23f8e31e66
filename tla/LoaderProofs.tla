---------------------------- MODULE LoaderProofs ----------------------------
(***************************************************************************)
(* The loader, for any number of changes, subscribers and failing reads:   *)
(* one read at a time, awake exactly while it is watched, no signal        *)
(* forgotten, and every step one that Reader allows.  That a signal is     *)
(* followed in the end needs the timers' fairness and is model-checked.    *)
(***************************************************************************)
EXTENDS Loader, TLAPS

(* The types, by what they are about. *)
Stores == [state : {"loading", "ready", "failed"}, value : 0..MaxVersion, refreshing : BOOLEAN]

NumbersTyped == source \in 0..MaxVersion /\ told \in 0..source /\ begun \in 0..source /\ failed \in 0..MaxFailures

FlagsTyped ==
    /\ polls \in BOOLEAN /\ active \in BOOLEAN
    /\ again \in BOOLEAN /\ debounce \in BOOLEAN /\ poll \in BOOLEAN
    /\ subscribers \subseteq Subscribers
    /\ inFlight \in {"none", "loading", "settled"}

(* The store is started by its first subscriber and stopped by its last.    *)
StartedWhileWatched ==
    /\ active <=> subscribers # {}
    /\ ~active => ~debounce /\ ~poll

OneRead == running = (IF inFlight = "loading" THEN 1 ELSE 0)

(* Idle and watched, a polling loader has its next poll set; a request to   *)
(* read again is there only while there is a read to wait for.              *)
IdleIsPolled ==
    /\ active /\ polls => inFlight # "none" \/ poll
    /\ again => inFlight # "none"

(* A change that was signalled and that no read has begun after is still    *)
(* going to be read: by the debounce timer, or when the read in flight ends.*)
SignalIsPending == active /\ begun < told => debounce \/ again

LoaderInv ==
    /\ NumbersTyped /\ FlagsTyped /\ shown \in Stores
    /\ StartedWhileWatched /\ OneRead /\ IdleIsPolled /\ SignalIsPending
-----------------------------------------------------------------------------
(* What run() does, by whoever asks: reads at most once at a time, and the  *)
(* request is either under way from now on or kept.                         *)
LEMMA RunAsks ==
    ASSUME LoaderInv, run
    PROVE  /\ inFlight' \in {"loading", "settled"} /\ OneRead'
           /\ begun' \in {begun, source} /\ (begun' = source \/ again')
           /\ again' \in BOOLEAN /\ (again => again')
           /\ shown' \in Stores
<1>1. CASE inFlight # "none"
  BY <1>1 DEF run, LoaderInv, FlagsTyped, OneRead
<1>2. CASE inFlight = "none"
  <2>1. /\ inFlight' = "loading" /\ running' = running + 1 /\ begun' = source
        /\ shown' = [shown EXCEPT !.refreshing = TRUE] /\ again' = again
    BY <1>2 DEF run
  <2>2. running = 0
    BY <1>2 DEF LoaderInv, OneRead
  <2>3. shown' \in Stores
    BY <2>1 DEF LoaderInv, Stores
  <2> QED BY <2>1, <2>2, <2>3 DEF LoaderInv, FlagsTyped, OneRead
<1> QED BY <1>1, <1>2

(* So it keeps the invariant, whatever the caller does to the timers of a   *)
(* store that is watched.                                                   *)
LEMMA RunKeeps ==
    ASSUME LoaderInv, run, UNCHANGED world,
           subscribers' \subseteq Subscribers, active' \in BOOLEAN, debounce' \in BOOLEAN, poll' \in BOOLEAN,
           StartedWhileWatched'
    PROVE  LoaderInv'
<1>1. NumbersTyped /\ FlagsTyped /\ inFlight' # "none" /\ begun' \in {begun, source}
      /\ (begun' = source \/ again') /\ UNCHANGED <<polls, source, told, failed>>
  BY RunAsks DEF LoaderInv, world
<1>2. NumbersTyped'
  BY <1>1 DEF NumbersTyped
<1>3. FlagsTyped'
  BY <1>1, RunAsks DEF FlagsTyped
<1>4. SignalIsPending'
  BY <1>1, LoaderAssumption DEF NumbersTyped, SignalIsPending
<1>5. IdleIsPolled'
  BY <1>1 DEF IdleIsPolled
<1> QED BY <1>2, <1>3, <1>4, <1>5, RunAsks DEF LoaderInv

(* The store holds a state, a value and whether it is being refreshed when  *)
(* a read has ended, too.                                                   *)
LEMMA StoreTyped == LoaderInv /\ (LoadReturns \/ LoadFails \/ Finally) => shown' \in Stores
<1> SUFFICES ASSUME LoaderInv, LoadReturns \/ LoadFails \/ Finally PROVE shown' \in Stores
  OBVIOUS
<1>1. shown \in Stores /\ begun \in 0..MaxVersion /\ source \in 0..MaxVersion
  BY LoaderAssumption DEF LoaderInv, NumbersTyped
<1>2. [shown EXCEPT !.refreshing = TRUE] \in Stores /\ [shown EXCEPT !.refreshing = FALSE] \in Stores
      /\ [shown EXCEPT !.state = "failed", !.refreshing = FALSE] \in Stores
  BY <1>1 DEF Stores
<1>3. CASE LoadReturns
  <2>1. PICK v \in begun..source : ReadSettles(TRUE, v)
    BY <1>3 DEF LoadReturns
  <2>2. v \in 0..MaxVersion
    BY <1>1, LoaderAssumption
  <2>3. shown' = [state |-> "ready", value |-> v, refreshing |-> FALSE]
    BY <2>1 DEF ReadSettles
  <2> QED BY <2>2, <2>3 DEF Stores
<1>4. CASE LoadFails
  <2>1. ReadSettles(FALSE, 0)
    BY <1>4 DEF LoadFails
  <2>2. shown' = [shown EXCEPT !.refreshing = FALSE] \/ shown' = [shown EXCEPT !.state = "failed", !.refreshing = FALSE]
    BY <2>1, Zenon DEF ReadSettles
  <2> QED BY <1>2, <2>2
<1>5. CASE Finally
  BY <1>5, <1>1, <1>2 DEF Finally
<1> QED BY <1>3, <1>4, <1>5

(* Other subscribers may come and go as long as there is one, or none.      *)
LEMMA Unmoved ==
    ASSUME LoaderInv, subscribers' \subseteq Subscribers, subscribers' # {} <=> subscribers # {},
           UNCHANGED <<active, inFlight, running, begun, again, shown, debounce, poll, world>>
    PROVE  LoaderInv'
<1>1. NumbersTyped' /\ SignalIsPending'
  BY DEF LoaderInv, NumbersTyped, SignalIsPending, world
<1>2. FlagsTyped' /\ StartedWhileWatched' /\ IdleIsPolled' /\ OneRead'
  BY DEF LoaderInv, FlagsTyped, StartedWhileWatched, IdleIsPolled, OneRead, world
<1> QED BY <1>1, <1>2 DEF LoaderInv

LEMMA LoaderInit == Init => LoaderInv
<1> SUFFICES ASSUME Init PROVE LoaderInv
  OBVIOUS
<1>1. NumbersTyped
  BY LoaderAssumption DEF Init, NumbersTyped
<1>4. FlagsTyped
  BY DEF Init, FlagsTyped
<1>2. shown \in Stores
  BY LoaderAssumption DEF Init, Stores
<1>3. StartedWhileWatched /\ OneRead /\ IdleIsPolled /\ SignalIsPending
  BY DEF Init, StartedWhileWatched, OneRead, IdleIsPolled, SignalIsPending
<1> QED BY <1>1, <1>2, <1>3, <1>4 DEF LoaderInv

LEMMA LoaderStep == LoaderInv /\ [Next]_vars => LoaderInv'
<1> SUFFICES ASSUME LoaderInv, [Next]_vars PROVE LoaderInv'
  OBVIOUS
<1>1. NumbersTyped /\ FlagsTyped /\ StartedWhileWatched /\ OneRead /\ IdleIsPolled /\ SignalIsPending /\ shown \in Stores
  BY DEF LoaderInv
<1>2. ASSUME NEW x \in Subscribers, Subscribe(x) PROVE LoaderInv'
  <2>1. CASE subscribers = {}
    <3>1. run /\ active' = TRUE /\ subscribers' = {x} /\ UNCHANGED <<debounce, poll, world>>
      BY <1>2, <2>1 DEF Subscribe
    <3> QED BY <1>1, <3>1, RunKeeps DEF StartedWhileWatched, FlagsTyped
  <2>2. CASE subscribers # {}
    <3>1. UNCHANGED <<active, inFlight, running, begun, again, shown, debounce, poll, world>>
          /\ subscribers' # {} /\ subscribers' \subseteq Subscribers
      BY <1>1, <1>2, <2>2 DEF Subscribe, FlagsTyped
    <3> QED BY <1>1, <2>2, <3>1, Unmoved
  <2> QED BY <2>1, <2>2
<1>3. ASSUME NEW x \in Subscribers, Unsubscribe(x) PROVE LoaderInv'
  <2>1. UNCHANGED <<again, inFlight, running, begun, shown, world>> /\ subscribers' \subseteq Subscribers
    BY <1>1, <1>3 DEF Unsubscribe, FlagsTyped
  <2>2. CASE subscribers' = {}
    <3>1. active' = FALSE /\ debounce' = FALSE /\ poll' = FALSE
      BY <1>3, <2>2 DEF Unsubscribe
    <3>2. StartedWhileWatched' /\ IdleIsPolled' /\ SignalIsPending'
      BY <1>1, <2>1, <2>2, <3>1 DEF StartedWhileWatched, IdleIsPolled, SignalIsPending
    <3>3. NumbersTyped' /\ FlagsTyped' /\ OneRead'
      BY <1>1, <2>1, <3>1 DEF NumbersTyped, FlagsTyped, OneRead, world
    <3> QED BY <1>1, <2>1, <3>2, <3>3 DEF LoaderInv
  <2>3. CASE subscribers' # {}
    <3>1. subscribers # {} /\ UNCHANGED <<active, debounce, poll>>
      BY <1>3, <2>3 DEF Unsubscribe
    <3> QED BY <1>1, <2>1, <2>3, <3>1, Unmoved
  <2> QED BY <2>2, <2>3
<1>4. CASE Change
  <2>1. UNCHANGED <<subscribers, active, inFlight, running, begun, again, poll, shown, polls, failed>>
        /\ source < MaxVersion /\ source' = source + 1
    BY <1>4 DEF Change
  <2>2. (active /\ told' = source' /\ debounce' = TRUE) \/ (UNCHANGED <<told, debounce>>)
    BY <1>4 DEF Change
  <2>3. NumbersTyped'
    BY <1>1, <2>1, <2>2, LoaderAssumption DEF NumbersTyped
  <2>5. SignalIsPending'
    BY <1>1, <2>1, <2>2 DEF SignalIsPending
  <2>6. debounce' \in BOOLEAN /\ (~active => debounce' = debounce)
    BY <1>1, <2>2 DEF FlagsTyped
  <2>4. FlagsTyped' /\ StartedWhileWatched' /\ IdleIsPolled'
    BY <1>1, <2>1, <2>6 DEF FlagsTyped, StartedWhileWatched, IdleIsPolled
  <2>7. OneRead'
    BY <1>1, <2>1 DEF OneRead
  <2> QED BY <1>1, <2>1, <2>3, <2>4, <2>5, <2>7 DEF LoaderInv
<1>5. CASE DebounceFires
  BY <1>1, <1>5, RunKeeps DEF DebounceFires, StartedWhileWatched, FlagsTyped
<1>6. CASE PollFires
  BY <1>1, <1>6, RunKeeps DEF PollFires, StartedWhileWatched, FlagsTyped
<1>7. CASE reload
  BY <1>1, <1>7, RunKeeps DEF reload, StartedWhileWatched, FlagsTyped
<1>8. ASSUME LoadReturns \/ LoadFails PROVE LoaderInv'
  <2>1. /\ inFlight = "loading" /\ inFlight' = "settled" /\ running' = running - 1
        /\ UNCHANGED <<subscribers, active, begun, timers, polls, source, told>>
    BY <1>8, Zenon DEF LoadReturns, LoadFails, world
  <2>5. failed' = failed \/ (failed < MaxFailures /\ failed' = failed + 1)
    BY <1>8, Zenon DEF LoadReturns, LoadFails, world
  <2>2. NumbersTyped'
    BY <1>1, <2>1, <2>5, LoaderAssumption DEF NumbersTyped
  <2>4. SignalIsPending'
    BY <1>1, <2>1 DEF SignalIsPending, timers
  <2>3. FlagsTyped' /\ StartedWhileWatched' /\ IdleIsPolled' /\ OneRead'
    BY <1>1, <2>1 DEF FlagsTyped, StartedWhileWatched, IdleIsPolled, OneRead, timers
  <2> QED BY <1>8, <2>2, <2>3, <2>4, StoreTyped DEF LoaderInv
<1>9. CASE Finally
  <2>1. inFlight = "settled" /\ again' = FALSE /\ UNCHANGED <<subscribers, active, debounce, polls, source, told, failed>>
    BY <1>9 DEF Finally, world
  <2>2. CASE again /\ active
    <3>1. inFlight' = "loading" /\ running' = running + 1 /\ begun' = source /\ UNCHANGED poll
      BY <1>9, <2>2 DEF Finally
    <3>2. NumbersTyped'
      BY <1>1, <2>1, <3>1 DEF NumbersTyped
    <3>4. SignalIsPending'
      BY <1>1, <2>1, <3>1 DEF NumbersTyped, SignalIsPending
    <3>3. FlagsTyped' /\ StartedWhileWatched' /\ IdleIsPolled'
      BY <1>1, <2>1, <3>1 DEF FlagsTyped, StartedWhileWatched, IdleIsPolled
    <3>5. OneRead'
      BY <1>1, <2>1, <3>1 DEF OneRead
    <3> QED BY <1>9, <3>2, <3>3, <3>4, <3>5, StoreTyped DEF LoaderInv
  <2>3. CASE ~(again /\ active)
    <3>1. inFlight' = "none" /\ poll' = (polls /\ active) /\ UNCHANGED <<running, begun>>
      BY <1>9, <2>3 DEF Finally
    <3>2. poll' \in BOOLEAN /\ (poll' <=> polls /\ active)
      BY <3>1, Zenon
    <3>3. NumbersTyped' /\ SignalIsPending'
      BY <1>1, <2>1, <2>3, <3>1 DEF NumbersTyped, SignalIsPending
    <3>4. FlagsTyped' /\ StartedWhileWatched' /\ IdleIsPolled' /\ OneRead'
      BY <1>1, <2>1, <3>1, <3>2 DEF FlagsTyped, StartedWhileWatched, IdleIsPolled, OneRead
    <3> QED BY <1>9, <3>3, <3>4, StoreTyped DEF LoaderInv
  <2> QED BY <2>2, <2>3
<1>10. CASE UNCHANGED vars
  BY <1>1, <1>10, Unmoved DEF vars, timers, world, FlagsTyped, StartedWhileWatched
<1> QED BY <1>2, <1>3, <1>4, <1>5, <1>6, <1>7, <1>8, <1>9, <1>10 DEF Next

(* The inductive invariant of the loader, as a theorem of the specification.*)
LEMMA LoaderStays == Spec => []LoaderInv
BY LoaderInit, LoaderStep, PTL DEF Spec

(* The loader's state keeps its types, `running` included: whoever asks and *)
(* however reads end, load() is never called while a call of it is open.    *)
THEOREM LoaderTypes == Spec => []TypeOK
<1>1. LoaderInv => TypeOK
  BY DEF LoaderInv, NumbersTyped, FlagsTyped, Stores, OneRead, TypeOK
<1> QED BY <1>1, LoaderStays, PTL

(* A loader without subscribers has no timer left, and a polling one that   *)
(* is watched reads or has its next poll set, for any subscribers.          *)
THEOREM AwakeExactlyWhileWatched == Spec => []AwakeWhileWatched
<1>1. LoaderInv => AwakeWhileWatched
  BY DEF LoaderInv, StartedWhileWatched, IdleIsPolled, AwakeWhileWatched
<1> QED BY <1>1, LoaderStays, PTL

(* A change that was signalled while somebody watches is read, or a timer   *)
(* or the end of the read in flight still has to: no signal is dropped when *)
(* it arrives during a read or the store is stopped and started again.      *)
THEOREM SignalsStayPending == Spec => []SignalIsPending
<1>1. LoaderInv => SignalIsPending
  BY DEF LoaderInv
<1> QED BY <1>1, LoaderStays, PTL

-----------------------------------------------------------------------------
(* Every step of the loader is one Reader allows. *)

LEMMA ReaderInit == Init => R!Init
BY DEF Init, R!Init

(* run() begins a read unless one is under way.                             *)
LEMMA RunIsBegin ==
    ASSUME LoaderInv, run
    PROVE  \/ /\ ~(inFlight = "loading") /\ (inFlight' = "loading") = TRUE
              /\ begun' \in begun..MaxVersion
           \/ (inFlight' = "loading") = (inFlight = "loading") /\ begun' = begun
<1>1. CASE inFlight # "none"
  BY <1>1 DEF run
<1>2. CASE inFlight = "none"
  BY <1>2, LoaderAssumption DEF run, LoaderInv, NumbersTyped
<1> QED BY <1>1, <1>2

LEMMA ReaderStep == LoaderInv /\ [Next]_vars => [R!Next]_(R!readerVars)
<1> SUFFICES ASSUME LoaderInv, [Next]_vars PROVE R!Next \/ UNCHANGED R!readerVars
  OBVIOUS
<1> USE DEF R!readerVars
<1>1. active \in BOOLEAN /\ (active <=> subscribers # {})
  BY DEF LoaderInv, FlagsTyped, StartedWhileWatched
<1>2. ASSUME NEW x \in Subscribers, Subscribe(x) PROVE R!Next \/ UNCHANGED R!readerVars
  <2>1. CASE subscribers = {}
    <3>1. run /\ active' = TRUE /\ ~active /\ UNCHANGED told
      BY <1>1, <1>2, <2>1 DEF Subscribe, world
    <3>2. R!Open \/ R!OpenAndBegin
      BY <3>1, RunIsBegin DEF R!Open, R!OpenAndBegin
    <3> QED BY <3>2 DEF R!Next
  <2>2. CASE subscribers # {}
    BY <1>2, <2>2 DEF Subscribe, world
  <2> QED BY <2>1, <2>2
<1>3. ASSUME NEW x \in Subscribers, Unsubscribe(x) PROVE R!Next \/ UNCHANGED R!readerVars
  <2>1. UNCHANGED <<told, begun, inFlight>>
    BY <1>3 DEF Unsubscribe, world
  <2>2. CASE subscribers' = {}
    <3>1. active /\ active' = FALSE
      BY <1>1, <1>3, <2>2 DEF Unsubscribe
    <3>2. R!Close
      BY <2>1, <3>1 DEF R!Close
    <3> QED BY <3>2 DEF R!Next
  <2>3. CASE subscribers' # {}
    BY <1>3, <2>1, <2>3 DEF Unsubscribe
  <2> QED BY <2>2, <2>3
<1>4. CASE Change
  <2>1. UNCHANGED <<active, begun, inFlight>> /\ source < MaxVersion /\ source' = source + 1
    BY <1>4 DEF Change
  <2>2. CASE active /\ told' = source'
    <3>1. told' \in (told + 1)..MaxVersion
      BY <2>1, <2>2, LoaderAssumption DEF LoaderInv, NumbersTyped
    <3>2. R!Tell
      BY <2>1, <2>2, <3>1 DEF R!Tell
    <3> QED BY <3>2 DEF R!Next
  <2>3. CASE told' = told
    BY <2>1, <2>3
  <2> QED BY <1>4, <2>2, <2>3 DEF Change
<1>5. ASSUME DebounceFires \/ PollFires \/ reload PROVE R!Next \/ UNCHANGED R!readerVars
  <2>1. run /\ UNCHANGED <<active, told>>
    BY <1>5 DEF DebounceFires, PollFires, reload, world
  <2>2. R!Begin \/ UNCHANGED R!readerVars
    BY <2>1, RunIsBegin DEF R!Begin
  <2> QED BY <2>2 DEF R!Next
<1>6. ASSUME LoadReturns \/ LoadFails PROVE R!Next
  <2>1. inFlight = "loading" /\ inFlight' = "settled" /\ UNCHANGED <<active, told, begun>>
    BY <1>6, Zenon DEF LoadReturns, LoadFails, world
  <2>2. R!End
    BY <2>1 DEF R!End
  <2> QED BY <2>2 DEF R!Next
<1>7. CASE Finally
  <2>1. inFlight = "settled" /\ UNCHANGED <<active, told>>
    BY <1>7 DEF Finally, world
  <2>2. CASE again /\ active
    <3>1. inFlight' = "loading" /\ begun' \in begun..MaxVersion
      BY <1>7, <2>2, LoaderAssumption DEF Finally, LoaderInv, NumbersTyped
    <3>2. R!Begin
      BY <2>1, <3>1 DEF R!Begin
    <3> QED BY <3>2 DEF R!Next
  <2>3. CASE ~(again /\ active)
    <3>1. inFlight' = "none" /\ begun' = begun
      BY <1>7, <2>3 DEF Finally
    <3> QED BY <2>1, <3>1
  <2> QED BY <2>2, <2>3
<1>8. CASE UNCHANGED vars
  BY <1>8 DEF vars
<1> QED BY <1>2, <1>3, <1>4, <1>5, <1>6, <1>7, <1>8 DEF Next

(* The loader implements the safety part of what Reader promises: one read  *)
(* at a time, begun at what the source is by then, signals only while it is *)
(* open, and a read at once when it opens with none under way.              *)
THEOREM LoaderKeepsReader == Spec => R!Steps
BY ReaderInit, ReaderStep, LoaderStays, PTL DEF Spec, R!Steps
=============================================================================
