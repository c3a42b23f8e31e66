------------------------------ MODULE Delivery ------------------------------
(***************************************************************************)
(* DeliveryTracker (packages/core/src/sereus/delivery.ts): where each of   *)
(* this device's own writes stands.  The tracker is modelled operation by  *)
(* operation; the stack below it (a strand's queue, its journal and its    *)
(* durability reports) is the environment, modelled from the events and    *)
(* the reads the tracker makes of it.                                      *)
(*                                                                         *)
(* Abstracted: what a write wrote (kind, message, preview), the `mayFail`  *)
(* flag, times, and the notifications to listeners.  The marks a replay of *)
(* buffered events computes are kept as one summary per write (`early`)    *)
(* instead of the list of closures: see Buffer.                            *)
(* A name with a suffix (setState_AnyOrder) is a faulty variant that no    *)
(* action uses.                                                            *)
(***************************************************************************)
EXTENDS Naturals, FiniteSets

CONSTANTS
    Writes,         \* transaction ids
    Strands,
    StrandOf,       \* the strand each write is made in
    OnlineWrites,   \* writes made with the queue off: committed when they return
    EarlyEvents,    \* EARLY_EVENTS: how many writes may have events waiting
    MaxAttempts,    \* bound: submissions of one queued write
    MaxRestarts     \* bound: restarts of the node or of the process

ASSUME ConstantsAssumption ==
    /\ StrandOf \in [Writes -> Strands]
    /\ OnlineWrites \subseteq Writes
    /\ EarlyEvents \in Nat
    /\ MaxAttempts \in Nat
    /\ MaxRestarts \in Nat

VARIABLES
    \* The stack.  `stage`, `inDoubt` and `held` survive restarts; `report` does not.
    stage,          \* where the queue has each write
    inDoubt,        \* an attempt may have delivered it, so it cannot be withdrawn
    report,         \* the durability report held in memory
    held,           \* history: another machine has been reported to hold the write
    attempts,
    published,      \* strands whose database can be asked
    left,           \* strands this device has left
    restarts,
    \* The tracker.
    unrecorded,     \* writes that returned and are not recorded yet
    mark,           \* byTx
    failures,
    early,          \* events of writes not recorded yet, as one mark each
    refreshing,     \* strands with a refresh() waiting on load()
    loaded,
    loadText,       \* what load()'s read of the slot returns
    slot,           \* the rows of the last save requested
    onDisk,         \* the rows the slot may hold if the process dies now
    owed,           \* history: writes a row of which is on disk, not let go since
    dropped         \* history: those of them a save left out, asked for before the slot was read

stackVars == <<stage, inDoubt, report, held, attempts, published, left, restarts>>
diskVars == <<slot, onDisk, dropped>>
loadVars == <<loaded, loadText>>
vars == <<stackVars, unrecorded, mark, failures, early, refreshing, loadVars, diskVars, owed>>

-----------------------------------------------------------------------------
(* Marks. *)

Pending == {"saving", "waiting", "sending"}
Committed == {"here", "unconfirmed", "delivered"}

ORDER == [saving |-> 1, waiting |-> 2, sending |-> 3, here |-> 4, unconfirmed |-> 5, delivered |-> 6]
rank(s) == ORDER[s]

MarkOf(s, d) == [state |-> s, discardable |-> d]
NoMark == MarkOf("untracked", FALSE)
Failed == MarkOf("failed", FALSE)
Fresh == MarkOf("saving", FALSE)

Marks == [state : Pending \cup Committed, discardable : BOOLEAN]
Tracked(w) == mark[w].state # "untracked"
InStrand(s) == {w \in Writes : StrandOf[w] = s}

Rows == [pending : SUBSET Writes, failed : SUBSET Writes]
NoRows == [pending |-> {}, failed |-> {}]

alternating(from, to) == {from, to} = {"waiting", "sending"}

setState_AnyOrder(m, to) == [m EXCEPT !.state = to]

setState(m, to) ==
    IF alternating(m.state, to) \/ rank(to) >= rank(m.state) THEN [m EXCEPT !.state = to] ELSE m

applyStatus_FlagOnce(m, e) ==
    IF Failed \in {m, e} THEN Failed
    ELSE setState([m EXCEPT !.discardable = IF m = Fresh THEN e.discardable ELSE @], e.state)

(* One status or durability report applied to a mark.  A refusal takes the  *)
(* write out of byTx, and what is applied to it after that is not seen.     *)
applyStatus(m, e) ==
    IF Failed \in {m, e} THEN Failed
    ELSE setState([m EXCEPT !.discardable = IF e.state = "waiting" THEN e.discardable ELSE @], e.state)

committedState(r) == CASE r = "elsewhere" -> "delivered" [] r = "followed" -> "here" [] OTHER -> "unconfirmed"

Up(w) == published[StrandOf[w]]

(* What offline.status answers for a write the queue still has an open      *)
(* outcome for.                                                             *)
QueueStatus(w) ==
    CASE stage[w] = "queued" -> MarkOf("waiting", ~inDoubt[w])
      [] stage[w] = "submitting" -> MarkOf("sending", FALSE)
      [] stage[w] = "failed" -> Failed

readNow_Unpublished(w, m) ==
    IF Up(w) /\ stage[w] \in {"queued", "submitting", "failed"} THEN applyStatus(m, QueueStatus(w))
    ELSE setState(m, committedState(report[w]))

readNow(w, m) ==
    IF ~Up(w) THEN m
    ELSE IF stage[w] \in {"queued", "submitting", "failed"} THEN applyStatus(m, QueueStatus(w))
    ELSE setState(m, committedState(report[w]))

-----------------------------------------------------------------------------
(* Effects the tracker's operations share. *)

persist_WaitingOnly ==
    LET rows == [pending |-> {w \in Writes : mark'[w].state = "waiting"}, failed |-> failures']
    IN slot' = rows /\ onDisk' = onDisk \cup {rows} /\ dropped' = dropped

(* persist(): a save is asked for and not waited on.  Until it has landed,  *)
(* a process that dies leaves the slot as any save since the last landed    *)
(* one made it.  Before the slot has been read, the rows are of what memory *)
(* holds alone, and the ones the slot held are left out.                    *)
persist ==
    LET rows == [pending |-> {w \in Writes : mark'[w].state \in {"waiting", "sending"}}, failed |-> failures']
    IN /\ slot' = rows
       /\ onDisk' = onDisk \cup {rows}
       /\ dropped' = IF loaded THEN dropped ELSE dropped \cup owed

Update_KeepsRefused(new) ==
    /\ mark' = new
    /\ failures' = failures \cup {w \in Writes : new[w] = Failed}
    /\ owed' = {w \in owed : new[w].state \notin Committed}
    /\ IF \E w \in Writes : new[w].state # mark[w].state THEN persist ELSE UNCHANGED diskVars

(* New marks for some writes: a refused one moves to `failures`, and the    *)
(* rows are saved when some state moved.                                    *)
Update(new) ==
    /\ mark' = [w \in Writes |-> IF new[w] = Failed THEN NoMark ELSE new[w]]
    /\ failures' = failures \cup {w \in Writes : new[w] = Failed}
    /\ owed' = {w \in owed : new[w].state \notin Committed}
    /\ IF \E w \in Writes : new[w].state # mark[w].state THEN persist ELSE UNCHANGED diskVars

(* Events that arrive before the write is recorded wait; past EarlyEvents   *)
(* writes one of them is dropped (the code drops the oldest, here any).     *)
(* Applying the buffered closures one by one and applying the mark they     *)
(* make of a fresh write come to the same.                                  *)
Buffer(w, e) ==
    LET kept == [early EXCEPT ![w] = applyStatus(IF @ = NoMark THEN Fresh ELSE @, e)]
        keys == {x \in Writes : kept[x] # NoMark}
    IN IF Cardinality(keys) > EarlyEvents
       THEN \E x \in keys : early' = [kept EXCEPT ![x] = NoMark]
       ELSE early' = kept

(* apply(): a stack event reaches the tracked write, or the buffer. *)
apply(w, e) ==
    IF Tracked(w)
    THEN Update([mark EXCEPT ![w] = applyStatus(@, e)]) /\ UNCHANGED early
    ELSE Buffer(w, e) /\ UNCHANGED <<mark, failures, diskVars, owed>>

trackerRest == <<unrecorded, refreshing, loadVars>>

-----------------------------------------------------------------------------
(* The stack's steps, each with the tracker's handler of the event it emits. *)

(* A write returns once it is saved in the journal; its first status comes  *)
(* before its id is known.                                                  *)
WriteQueued(w) ==
    /\ w \notin OnlineWrites
    /\ stage[w] = "none" /\ Up(w)
    /\ stage' = [stage EXCEPT ![w] = "queued"]
    /\ unrecorded' = unrecorded \cup {w}
    /\ apply(w, MarkOf("waiting", TRUE))
    /\ UNCHANGED <<inDoubt, report, held, attempts, published, left, restarts, refreshing, loadVars>>

(* With the queue off a write returns once its cohort has it. *)
WriteOnline(w) ==
    /\ w \in OnlineWrites
    /\ stage[w] = "none" /\ Up(w)
    /\ \E r \in {"followed", "unfollowed", "elsewhere"} :
          /\ stage' = [stage EXCEPT ![w] = "committed"]
          /\ report' = [report EXCEPT ![w] = r]
          /\ held' = IF r = "elsewhere" THEN held \cup {w} ELSE held
          /\ apply(w, MarkOf(committedState(r), FALSE))
    /\ unrecorded' = unrecorded \cup {w}
    /\ UNCHANGED <<inDoubt, attempts, published, left, restarts, refreshing, loadVars>>

Submit(w) ==
    /\ stage[w] = "queued" /\ Up(w) /\ attempts[w] < MaxAttempts
    /\ stage' = [stage EXCEPT ![w] = "submitting"]
    /\ attempts' = [attempts EXCEPT ![w] = @ + 1]
    /\ apply(w, MarkOf("sending", FALSE))
    /\ UNCHANGED <<inDoubt, report, held, published, left, restarts, trackerRest>>

(* The cohort was not reached: back to the queue, perhaps in doubt. *)
BackOff(w) ==
    /\ stage[w] = "submitting" /\ Up(w)
    /\ \E d \in {inDoubt[w], TRUE} :
          /\ inDoubt' = [inDoubt EXCEPT ![w] = d]
          /\ apply(w, MarkOf("waiting", ~d))
    /\ stage' = [stage EXCEPT ![w] = "queued"]
    /\ UNCHANGED <<report, held, attempts, published, left, restarts, trackerRest>>

Commit(w) ==
    /\ stage[w] = "submitting" /\ Up(w)
    /\ \E r \in {"followed", "unfollowed", "elsewhere"} :
          /\ stage' = [stage EXCEPT ![w] = "committed"]
          /\ report' = [report EXCEPT ![w] = r]
          /\ held' = IF r = "elsewhere" THEN held \cup {w} ELSE held
          /\ apply(w, MarkOf(committedState(r), FALSE))
    /\ UNCHANGED <<inDoubt, attempts, published, left, restarts, trackerRest>>

(* strand:commit-held: every member holds a commit that was followed. *)
CommitHeld(w) ==
    /\ stage[w] = "committed" /\ report[w] = "followed" /\ Up(w)
    /\ report' = [report EXCEPT ![w] = "elsewhere"]
    /\ held' = held \cup {w}
    /\ apply(w, MarkOf("delivered", FALSE))
    /\ UNCHANGED <<stage, inDoubt, attempts, published, left, restarts, trackerRest>>

Refuse(w) ==
    /\ stage[w] \in {"queued", "submitting"} /\ Up(w)
    /\ stage' = [stage EXCEPT ![w] = "failed"]
    /\ apply(w, Failed)
    /\ UNCHANGED <<inDoubt, report, held, attempts, published, left, restarts, trackerRest>>

(* messages.discard: a waiting message is withdrawn.  The queue refuses one *)
(* an attempt may have delivered, and nothing changes then.                 *)
discard(w) ==
    /\ mark[w].state = "waiting" /\ Up(w)
    /\ stage[w] = "queued" /\ ~inDoubt[w]
    /\ stage' = [stage EXCEPT ![w] = "failed"]
    /\ apply(w, Failed)
    /\ UNCHANGED <<inDoubt, report, held, attempts, published, left, restarts, trackerRest>>

(* strand:queue-state, also sent when a strand's database is published.     *)
QueueState(s) ==
    /\ s \notin left
    /\ published' = [published EXCEPT ![s] = TRUE]
    /\ refreshing' = refreshing \cup {s}
    /\ UNCHANGED <<stage, inDoubt, report, held, attempts, left, restarts>>
    /\ UNCHANGED <<unrecorded, mark, failures, early, loadVars, diskVars, owed>>

(* What a node that stops takes with it: no database, no reports in memory, *)
(* and a submission cut short may have been delivered.                      *)
NodeStops ==
    /\ restarts < MaxRestarts
    /\ restarts' = restarts + 1
    /\ published' = [s \in Strands |-> FALSE]
    /\ report' = [w \in Writes |-> "none"]
    /\ inDoubt' = [w \in Writes |-> inDoubt[w] \/ stage[w] = "submitting"]
    /\ stage' = [w \in Writes |-> IF stage[w] = "submitting" THEN "queued" ELSE stage[w]]
    /\ UNCHANGED <<held, attempts, left>>

(* The host rebuilds its node; the tracker lives on. *)
NodeRestart ==
    /\ NodeStops
    /\ UNCHANGED <<unrecorded, mark, failures, early, refreshing, loadVars, diskVars, owed>>

(* The process dies and is started again: a new tracker, which begins by    *)
(* reading the slot.                                                        *)
Crash ==
    /\ NodeStops
    /\ unrecorded' = {} /\ refreshing' = {} /\ failures' = {}
    /\ mark' = [w \in Writes |-> NoMark]
    /\ early' = [w \in Writes |-> NoMark]
    /\ loaded' = FALSE
    /\ \E rows \in onDisk : loadText' = rows /\ slot' = rows /\ onDisk' = {rows}
    /\ UNCHANGED <<owed, dropped>>

(* The last save requested reaches the disk. *)
SaveLands ==
    /\ onDisk # {slot}
    /\ onDisk' = {slot}
    /\ owed' = owed \cup slot.pending \cup slot.failed
    /\ UNCHANGED <<stackVars, unrecorded, mark, failures, early, refreshing, loadVars, slot, dropped>>

-----------------------------------------------------------------------------
(* The tracker's own operations. *)

load_WaitingOnly ==
    /\ ~loaded /\ loaded' = TRUE
    /\ mark' = [w \in Writes |-> IF w \in loadText.pending \ loadText.failed /\ ~Tracked(w)
                                 THEN MarkOf("waiting", FALSE) ELSE mark[w]]
    /\ UNCHANGED <<stackVars, unrecorded, failures, early, refreshing, loadText, diskVars, owed>>

load ==
    /\ ~loaded
    /\ loaded' = TRUE
    /\ failures' = failures \cup loadText.failed
    /\ mark' = [w \in Writes |-> IF w \in loadText.pending \ loadText.failed /\ ~Tracked(w)
                                 THEN MarkOf("waiting", FALSE) ELSE mark[w]]
    /\ UNCHANGED <<stackVars, unrecorded, early, refreshing, loadText, diskVars, owed>>

(* A buffered commit reads its durability again when it is replayed.        *)
Replayed(w, m) ==
    IF early[w] = NoMark THEN m
    ELSE LET r == applyStatus(m, early[w])
         IN IF early[w].state \in Committed /\ w \notin OnlineWrites /\ ~Up(w)
            THEN applyStatus(r, MarkOf("unconfirmed", FALSE)) ELSE r

record_NoRead(w) ==
    /\ w \in unrecorded
    /\ unrecorded' = unrecorded \ {w}
    /\ LET m == Replayed(w, Fresh)
       IN /\ mark' = [mark EXCEPT ![w] = IF m = Failed THEN NoMark ELSE m]
          /\ failures' = IF m = Failed THEN failures \cup {w} ELSE failures
          /\ owed' = IF m.state \in Committed THEN owed \ {w} ELSE owed
    /\ early' = [early EXCEPT ![w] = NoMark]
    /\ persist
    /\ UNCHANGED <<stackVars, refreshing, loadVars>>

record(w) ==
    /\ w \in unrecorded
    /\ unrecorded' = unrecorded \ {w}
    /\ LET m == Replayed(w, readNow(w, Fresh))
       IN /\ mark' = [mark EXCEPT ![w] = IF m = Failed THEN NoMark ELSE m]
          /\ failures' = IF m = Failed THEN failures \cup {w} ELSE failures
          /\ owed' = IF m.state \in Committed THEN owed \ {w} ELSE owed
    /\ early' = [early EXCEPT ![w] = NoMark]
    /\ persist
    /\ UNCHANGED <<stackVars, refreshing, loadVars>>

refresh_NoRead(s) ==
    /\ s \in refreshing /\ loaded
    /\ refreshing' = refreshing \ {s}
    /\ UNCHANGED <<stackVars, unrecorded, mark, failures, early, loadVars, diskVars, owed>>

(* Every tracked write of the strand is read again, once load() is done. *)
refresh(s) ==
    /\ s \in refreshing /\ loaded
    /\ refreshing' = refreshing \ {s}
    /\ Update([w \in Writes |-> IF Tracked(w) /\ StrandOf[w] = s THEN readNow(w, mark[w]) ELSE mark[w]])
    /\ UNCHANGED <<stackVars, unrecorded, early, loadVars>>

(* DELIVERED_KEEP_MS after it was delivered, a write is let go. *)
DeliveredTimer(w) ==
    /\ mark[w].state = "delivered"
    /\ mark' = [mark EXCEPT ![w] = NoMark]
    /\ UNCHANGED <<stackVars, unrecorded, failures, early, refreshing, loadVars, owed>>
    /\ persist

(* The refusal is not shown any more, and the queue forgets its outcome if  *)
(* there is a database to tell.                                             *)
dismiss(w) ==
    /\ w \in failures
    /\ failures' = failures \ {w}
    /\ stage' = IF Up(w) /\ stage[w] = "failed" THEN [stage EXCEPT ![w] = "acknowledged"] ELSE stage
    /\ owed' = owed \ {w}
    /\ mark' = mark
    /\ persist
    /\ UNCHANGED <<inDoubt, report, held, attempts, published, left, restarts>>
    /\ UNCHANGED <<unrecorded, early, refreshing, loadVars>>

(* strands.leave: the strand is unpublished, then the tracker forgets it. *)
forgetStrand(s) ==
    /\ s \notin left
    /\ left' = left \cup {s}
    /\ published' = [published EXCEPT ![s] = FALSE]
    /\ mark' = [w \in Writes |-> IF StrandOf[w] = s THEN NoMark ELSE mark[w]]
    /\ failures' = failures \ InStrand(s)
    /\ owed' = owed \ InStrand(s)
    /\ persist
    /\ UNCHANGED <<stage, inDoubt, report, held, attempts, restarts>>
    /\ UNCHANGED <<unrecorded, early, refreshing, loadVars>>

-----------------------------------------------------------------------------
Init ==
    /\ stage = [w \in Writes |-> "none"]
    /\ inDoubt = [w \in Writes |-> FALSE]
    /\ report = [w \in Writes |-> "none"]
    /\ held = {} /\ left = {} /\ restarts = 0
    /\ attempts = [w \in Writes |-> 0]
    /\ published = [s \in Strands |-> FALSE]
    /\ unrecorded = {} /\ failures = {} /\ refreshing = {} /\ owed = {}
    /\ mark = [w \in Writes |-> NoMark]
    /\ early = [w \in Writes |-> NoMark]
    /\ loaded = FALSE /\ loadText = NoRows
    /\ slot = NoRows /\ onDisk = {NoRows} /\ dropped = {}

Stack(w) ==
    \/ WriteQueued(w) \/ WriteOnline(w) \/ Submit(w) \/ BackOff(w) \/ Commit(w)
    \/ CommitHeld(w) \/ Refuse(w) \/ discard(w)

Tracker(w) == record(w) \/ DeliveredTimer(w) \/ dismiss(w)

Strand(s) == QueueState(s) \/ refresh(s) \/ forgetStrand(s)

Next ==
    \/ \E w \in Writes : Stack(w) \/ Tracker(w)
    \/ \E s \in Strands : Strand(s)
    \/ NodeRestart \/ Crash \/ SaveLands \/ load

(* The host starts its node and the boot sweep attaches every strand, so a  *)
(* strand not left is published again; promise continuations run; the       *)
(* storage answers.  What the members answer to a submission, and what the  *)
(* user does, is left free.                                                 *)
Fairness ==
    /\ WF_vars(load) /\ WF_vars(SaveLands)
    /\ \A s \in Strands : WF_vars(QueueState(s)) /\ WF_vars(refresh(s))
    /\ \A w \in Writes : WF_vars(record(w))

Spec == Init /\ [][Next]_vars
FairSpec == Spec /\ Fairness

-----------------------------------------------------------------------------
(* Properties. *)

TypeOK ==
    /\ stage \in [Writes -> {"none", "queued", "submitting", "committed", "failed", "acknowledged"}]
    /\ inDoubt \in [Writes -> BOOLEAN]
    /\ report \in [Writes -> {"none", "followed", "unfollowed", "elsewhere"}]
    /\ held \subseteq Writes
    /\ attempts \in [Writes -> 0..MaxAttempts]
    /\ published \in [Strands -> BOOLEAN]
    /\ left \subseteq Strands
    /\ restarts \in 0..MaxRestarts
    /\ unrecorded \subseteq Writes
    /\ mark \in [Writes -> Marks \cup {NoMark}]
    /\ failures \subseteq Writes
    /\ early \in [Writes -> Marks \cup {NoMark, Failed}]
    /\ refreshing \subseteq Strands
    /\ loaded \in BOOLEAN
    /\ loadText \in Rows
    /\ slot \in Rows
    /\ onDisk \in SUBSET Rows /\ slot \in onDisk
    /\ owed \subseteq Writes /\ dropped \subseteq Writes

(* Does the tracker's mark of w reflect a strand it has read since it was   *)
(* published?                                                               *)
Current(w) == Tracked(w) /\ Up(w) /\ StrandOf[w] \notin refreshing

(* While its strand is up and read, a write is marked as on its way exactly *)
(* while the queue still has it: no event order, buffer overflow, replay,   *)
(* reload or restart leaves a mark behind (header: "never stuck as pending" *)
(* and "a status read then is current").                                    *)
PendingAgrees ==
    \A w \in Writes : Current(w) =>
        (mark[w].state \in Pending <=> stage[w] \in {"queued", "submitting"})

(* No mark says more than what happened: a mark past `sending` is never of  *)
(* a write that is queued, in flight or refused, a delivered one is held by *)
(* another machine, and what is listed as refused was refused.  readNow     *)
(* answers `unconfirmed` for a write nothing is known of, so this rests on  *)
(* when it is asked.                                                        *)
MarksAreTrue ==
    /\ \A w \in Writes : mark[w].state \in Committed => stage[w] \in {"committed", "acknowledged"}
    /\ \A w \in Writes : mark[w].state = "delivered" => w \in held
    /\ \A w \in failures : stage[w] \in {"failed", "acknowledged"}

(* model/messages.ts:13: "`unconfirmed`: committed, and nothing will report *)
(* its delivery this session."                                              *)
UnconfirmedIsCommitted ==
    \A w \in Writes : mark[w].state = "unconfirmed" => stage[w] = "committed"

(* A withdrawal is never offered for a message an attempt may have          *)
(* delivered (model/messages.ts: "no attempt can have delivered it").       *)
WithdrawalIsSafe ==
    \A w \in Writes : mark[w].state = "waiting" /\ mark[w].discardable => ~inDoubt[w]

(* What has reached the disk is not lost: once the slot has been read, a    *)
(* write saved as waiting or refused is still marked or listed, through any *)
(* number of restarts, until it settles or the user lets it go -- but for   *)
(* rows left out by a save that was asked for before the slot was read.     *)
StaysRemembered == loaded => \A w \in owed \ dropped : Tracked(w) \/ w \in failures

(* Why: the slot holds every promised row in each state the process may     *)
(* die in, and what has been read of it is in memory under a state that is  *)
(* saved again.  Only writes that were recorded once get there, so record() *)
(* never starts one of them over as `saving`, which is not saved.           *)
RowsOf(v) == v.pending \cup v.failed
Promised == owed \ dropped
Recorded(w) == w \notin unrecorded /\ stage[w] # "none"
Kept(w) == mark[w].state \in {"waiting", "sending"} \/ w \in failures

KnownIsRecorded ==
    /\ \A w \in unrecorded : stage[w] # "none"
    /\ \A w \in Writes : Tracked(w) \/ w \in failures \cup owed \cup RowsOf(loadText) => Recorded(w)
    /\ \A v \in onDisk : \A w \in RowsOf(v) : Recorded(w)

MemoryKeeps == loaded => \A w \in Promised \cup RowsOf(slot) : Kept(w)

TextKeeps == ~loaded =>
    /\ \A w \in Promised \cup RowsOf(slot) : Kept(w) \/ w \in RowsOf(loadText)
    /\ \A w \in RowsOf(loadText) : ~Tracked(w) /\ w \notin failures

DiskKeeps == \A v \in onDisk : Promised \subseteq RowsOf(v)

(* The inductive invariant: promised rows are on the disk, and in memory    *)
(* once they were read (persist, load and record).                          *)
RowsAreKept == KnownIsRecorded /\ MemoryKeeps /\ TextKeeps /\ DiskKeeps

(* The header: "Refusals stay listed until the user dismisses them".  Here  *)
(* of a refused write whose row reached the disk, once the slot and the     *)
(* strand have been read.                                                   *)
RefusalsStayListed ==
    loaded => \A w \in owed :
        stage[w] = "failed" /\ Up(w) /\ StrandOf[w] \notin refreshing => w \in failures

(* Once committed, a mark never goes back to an earlier one.                *)
NeverRetreats ==
    [][\A w \in Writes : mark[w].state \in Committed /\ Tracked(w)'
          => rank(mark'[w].state) >= rank(mark[w].state)]_vars

(* "a committed write shows `unconfirmed`, never stuck as pending" (the     *)
(* header): a mark the stack is done with moves on, restarts included.      *)
NeverStuckPending ==
    \A w \in Writes :
        (mark[w].state \in Pending /\ stage[w] \in {"committed", "failed"} /\ StrandOf[w] \notin left)
            ~> (mark[w].state \notin Pending \/ StrandOf[w] \in left)

(* A refusal of a write whose row is on disk comes to be listed, also when  *)
(* the event came before the slot was read or the process died with it.     *)
RefusalSurfaces ==
    \A w \in Writes :
        (stage[w] = "failed" /\ w \in owed \ dropped)
            ~> (w \in failures \/ w \notin owed \ dropped \/ StrandOf[w] \in left)
=============================================================================
