--------------------------- MODULE DeliveryProofs ---------------------------
(***************************************************************************)
(* Theorems about Delivery, for every value of its constants: types, that  *)
(* rows which reached the disk are not lost (StaysRemembered), and that    *)
(* what a mark says is so (MarksAreTrue, WithdrawalIsSafe, PendingAgrees,  *)
(* NeverRetreats).                                                         *)
(***************************************************************************)
EXTENDS Delivery, TLAPS

-----------------------------------------------------------------------------
(* What the operators on marks return. *)

Events == Marks \cup {Failed}
MarksNow == [Writes -> Marks \cup {NoMark, Failed}]

(* A state moves to the one reported or stays. *)
LEMMA SetStateResult ==
    ASSUME NEW m \in Marks, NEW to \in Pending \cup Committed
    PROVE  /\ setState(m, to) \in Marks
           /\ setState(m, to).state \in {m.state, to}
<1>1. [m EXCEPT !.state = to] \in Marks /\ [m EXCEPT !.state = to].state = to
  BY DEF Marks
<1>2. setState(m, to) \in {m, [m EXCEPT !.state = to]}
  BY DEF setState
<1>3. QED BY <1>1, <1>2

(* Applying a report gives a mark or a refusal, in a state one of the two had. *)
LEMMA ApplyStatusResult ==
    ASSUME NEW m \in Events, NEW e \in Events
    PROVE  /\ applyStatus(m, e) \in Events
           /\ applyStatus(m, e).state \in {m.state, e.state}
<1>1. CASE Failed \in {m, e}
  BY <1>1 DEF applyStatus, Events
<1>2. CASE Failed \notin {m, e}
  <2> DEFINE n == [m EXCEPT !.discardable = IF e.state = "waiting" THEN e.discardable ELSE @]
  <2>1. m \in Marks /\ e \in Marks
    BY <1>2 DEF Events
  <2>2. n \in Marks /\ n.state = m.state /\ e.state \in Pending \cup Committed
    BY <2>1 DEF Marks
  <2>3. applyStatus(m, e) = setState(n, e.state)
    BY <1>2 DEF applyStatus
  <2>4. QED BY <2>2, <2>3, SetStateResult DEF Events
<1>3. QED BY <1>1, <1>2

(* A durability report gives a committed state. *)
LEMMA CommittedStateResult ==
    ASSUME NEW r
    PROVE  committedState(r) \in Committed
BY DEF committedState, Committed

(* A read of the strand leaves a mark as it was, or gives one the queue or  *)
(* the durability report accounts for.                                      *)
LEMMA ReadNowResult ==
    ASSUME NEW w \in Writes, NEW m \in Marks, inDoubt \in [Writes -> BOOLEAN]
    PROVE  /\ readNow(w, m) \in Events
           /\ readNow(w, m).state \in {m.state, "waiting", "sending", "failed"} \cup Committed
<1>1. CASE ~Up(w)
  BY <1>1 DEF readNow, Events
<1>2. CASE Up(w) /\ stage[w] \in {"queued", "submitting", "failed"}
  <2>1. /\ QueueStatus(w) \in Events
        /\ QueueStatus(w).state \in {"waiting", "sending", "failed"}
    BY <1>2 DEF QueueStatus, Events, Marks, MarkOf, Failed, Pending
  <2>2. readNow(w, m) = applyStatus(m, QueueStatus(w))
    BY <1>2 DEF readNow
  <2>3. QED BY <2>1, <2>2, ApplyStatusResult DEF Events
<1>3. CASE Up(w) /\ stage[w] \notin {"queued", "submitting", "failed"}
  <2>1. readNow(w, m) = setState(m, committedState(report[w]))
    BY <1>3 DEF readNow
  <2>2. QED BY <2>1, SetStateResult, CommittedStateResult DEF Events
<1>4. QED BY <1>1, <1>2, <1>3

-----------------------------------------------------------------------------
(* Type correctness, effect by effect. *)

LEMMA PersistTypes ==
    ASSUME TypeOK, persist,
           mark' \in [Writes -> Marks \cup {NoMark}], failures' \subseteq Writes
    PROVE  slot' \in Rows /\ onDisk' \in SUBSET Rows /\ slot' \in onDisk' /\ dropped' \subseteq Writes
BY DEF TypeOK, persist, Rows

(* New marks, each a mark or a refusal, leave marks and refusals well typed. *)
LEMMA UpdateTypes ==
    ASSUME TypeOK, NEW new \in MarksNow, Update(new)
    PROVE  /\ mark' \in [Writes -> Marks \cup {NoMark}]
           /\ failures' \subseteq Writes /\ owed' \subseteq Writes /\ dropped' \subseteq Writes
           /\ slot' \in Rows /\ onDisk' \in SUBSET Rows /\ slot' \in onDisk'
<1>1. /\ mark' \in [Writes -> Marks \cup {NoMark}]
      /\ failures' \subseteq Writes
      /\ owed' \subseteq Writes
  BY DEF TypeOK, Update, MarksNow
<1>2. CASE persist
  BY <1>1, <1>2, PersistTypes
<1>3. CASE UNCHANGED diskVars
  BY <1>1, <1>3 DEF TypeOK, diskVars
<1>4. QED BY <1>1, <1>2, <1>3 DEF Update

(* Buffering an event leaves one well typed mark per write waiting. *)
LEMMA BufferTypes ==
    ASSUME TypeOK, NEW w \in Writes, NEW e \in Events, Buffer(w, e)
    PROVE  early' \in [Writes -> Marks \cup {NoMark, Failed}]
<1> DEFINE was == IF early[w] = NoMark THEN Fresh ELSE early[w]
           kept == [early EXCEPT ![w] = applyStatus(was, e)]
<1>1. was \in Events
  BY DEF TypeOK, Fresh, MarkOf, Marks, Events, Pending
<1>2. applyStatus(was, e) \in Events
  BY <1>1, ApplyStatusResult
<1>3. kept \in [Writes -> Marks \cup {NoMark, Failed}]
  BY <1>2 DEF TypeOK, Events
<1>4. \A x \in Writes : [kept EXCEPT ![x] = NoMark] \in [Writes -> Marks \cup {NoMark, Failed}]
  BY <1>3
<1>5. early' = kept \/ \E x \in Writes : early' = [kept EXCEPT ![x] = NoMark]
  BY DEF Buffer
<1>6. QED BY <1>3, <1>4, <1>5

(* The tracked mark with a report applied, as Update takes it. *)
LEMMA AppliedTypes ==
    ASSUME TypeOK, NEW w \in Writes, NEW e \in Events, Tracked(w)
    PROVE  [mark EXCEPT ![w] = applyStatus(@, e)] \in MarksNow
<1>1. mark[w] \in Events
  BY DEF TypeOK, Tracked, NoMark, MarkOf, Events
<1>2. applyStatus(mark[w], e) \in Events
  BY <1>1, ApplyStatusResult
<1>3. QED BY <1>2 DEF TypeOK, MarksNow, Events

(* So does a stack event, whether it is applied or buffered. *)
LEMMA ApplyTypes ==
    ASSUME TypeOK, NEW w \in Writes, NEW e \in Events, apply(w, e)
    PROVE  /\ mark' \in [Writes -> Marks \cup {NoMark}]
           /\ early' \in [Writes -> Marks \cup {NoMark, Failed}]
           /\ failures' \subseteq Writes /\ owed' \subseteq Writes /\ dropped' \subseteq Writes
           /\ slot' \in Rows /\ onDisk' \in SUBSET Rows /\ slot' \in onDisk'
<1>1. CASE Tracked(w)
  <2>1. Update([mark EXCEPT ![w] = applyStatus(@, e)]) /\ UNCHANGED early
    BY <1>1 DEF apply
  <2>2. QED BY <1>1, <2>1, AppliedTypes, UpdateTypes DEF TypeOK
<1>2. CASE ~Tracked(w)
  <2>1. Buffer(w, e) /\ UNCHANGED <<mark, failures, diskVars, owed>>
    BY <1>2 DEF apply
  <2>2. QED BY <2>1, BufferTypes DEF TypeOK, diskVars
<1>3. QED BY <1>1, <1>2

(* A node that stops leaves the stack well typed. *)
LEMMA NodeStopsTypes ==
    ASSUME TypeOK, NodeStops
    PROVE  /\ stage' \in [Writes -> {"none", "queued", "submitting", "committed", "failed", "acknowledged"}]
           /\ inDoubt' \in [Writes -> BOOLEAN]
           /\ report' \in [Writes -> {"none", "followed", "unfollowed", "elsewhere"}]
           /\ published' \in [Strands -> BOOLEAN]
           /\ restarts' \in 0..MaxRestarts
<1>1. inDoubt' \in [Writes -> BOOLEAN]
  BY Zenon DEF TypeOK, NodeStops
<1>2. restarts' \in 0..MaxRestarts
  BY ConstantsAssumption DEF TypeOK, NodeStops
<1>3. QED BY <1>1, <1>2 DEF TypeOK, NodeStops

(* A write's mark once it is recorded. *)
LEMMA RecordedMark ==
    ASSUME TypeOK, NEW w \in Writes
    PROVE  /\ Replayed(w, readNow(w, Fresh)) \in Events
           /\ MarkOf("unconfirmed", FALSE) \in Events
<1>1. Fresh \in Marks /\ MarkOf("unconfirmed", FALSE) \in Events
  BY DEF Fresh, MarkOf, Marks, Events, Pending, Committed
<1>2. readNow(w, Fresh) \in Events
  BY <1>1, ReadNowResult DEF TypeOK
<1>3. CASE early[w] = NoMark
  BY <1>1, <1>2, <1>3 DEF Replayed
<1>4. CASE early[w] # NoMark
  <2> DEFINE r == applyStatus(readNow(w, Fresh), early[w])
  <2>1. early[w] \in Events
    BY <1>4 DEF TypeOK, Events
  <2>2. r \in Events
    BY <1>2, <2>1, ApplyStatusResult
  <2>3. applyStatus(r, MarkOf("unconfirmed", FALSE)) \in Events
    BY <1>1, <2>2, ApplyStatusResult
  <2>4. Replayed(w, readNow(w, Fresh)) \in {r, applyStatus(r, MarkOf("unconfirmed", FALSE))}
    BY <1>4 DEF Replayed
  <2>5. QED BY <1>1, <2>2, <2>3, <2>4
<1>5. QED BY <1>3, <1>4

(* What record() makes of the marks and the refusals. *)
LEMMA RecordTypes ==
    ASSUME TypeOK, NEW w \in Writes, record(w)
    PROVE  /\ mark' \in [Writes -> Marks \cup {NoMark}]
           /\ failures' \subseteq Writes /\ owed' \subseteq Writes
           /\ early' \in [Writes -> Marks \cup {NoMark, Failed}]
<1> DEFINE m == Replayed(w, readNow(w, Fresh))
<1>1. m \in Events
  BY RecordedMark
<1>2. mark' = [mark EXCEPT ![w] = IF m = Failed THEN NoMark ELSE m]
  BY DEF record
<1>3. mark' \in [Writes -> Marks \cup {NoMark}]
  BY <1>1, <1>2 DEF TypeOK, Events
<1>4. failures' \subseteq Writes /\ owed' \subseteq Writes
  BY DEF record, TypeOK
<1>5. QED BY <1>3, <1>4 DEF record, TypeOK

(* Reading a strand again gives every write a mark or a refusal. *)
LEMMA RefreshTypes ==
    ASSUME TypeOK, NEW s \in Strands
    PROVE  [w \in Writes |-> IF Tracked(w) /\ StrandOf[w] = s THEN readNow(w, mark[w]) ELSE mark[w]] \in MarksNow
<1>1. ASSUME NEW w \in Writes, Tracked(w)
      PROVE  readNow(w, mark[w]) \in Events
  <2>1. mark[w] \in Marks
    BY <1>1 DEF TypeOK, Tracked, NoMark, MarkOf
  <2>2. QED BY <2>1, ReadNowResult DEF TypeOK
<1>2. QED BY <1>1 DEF TypeOK, MarksNow, Events

(* Every variable has its type in every state of the tracker and the stack. *)
THEOREM TypeCorrect == Spec => []TypeOK
<1>1. Init => TypeOK
  <2> SUFFICES ASSUME Init
               PROVE  TypeOK
    OBVIOUS
  <2>1. NoRows \in Rows
    BY DEF NoRows, Rows
  <2>2. loadText \in Rows /\ slot \in Rows /\ onDisk \in SUBSET Rows /\ slot \in onDisk
    BY <2>1 DEF Init
  <2>3. attempts \in [Writes -> 0..MaxAttempts] /\ restarts \in 0..MaxRestarts
    BY ConstantsAssumption DEF Init
  <2>4. mark \in [Writes -> Marks \cup {NoMark}] /\ early \in [Writes -> Marks \cup {NoMark, Failed}]
    BY DEF Init
  <2>5. QED BY <2>2, <2>3, <2>4 DEF Init, TypeOK
<1>2. TypeOK /\ [Next]_vars => TypeOK'
  <2> SUFFICES ASSUME TypeOK, [Next]_vars
               PROVE  TypeOK'
    OBVIOUS
  <2> USE DEF trackerRest, loadVars
  <2>1. ASSUME NEW w \in Writes, WriteQueued(w)
        PROVE  TypeOK'
    <3>1. MarkOf("waiting", TRUE) \in Events
      BY DEF Events, Marks, MarkOf, Pending
    <3>2. QED BY <2>1, <3>1, ApplyTypes DEF WriteQueued, TypeOK
  <2>2. ASSUME NEW w \in Writes, WriteOnline(w)
        PROVE  TypeOK'
    <3>1. PICK r \in {"followed", "unfollowed", "elsewhere"} :
             /\ stage' = [stage EXCEPT ![w] = "committed"]
             /\ report' = [report EXCEPT ![w] = r]
             /\ held' = IF r = "elsewhere" THEN held \cup {w} ELSE held
             /\ apply(w, MarkOf(committedState(r), FALSE))
      BY <2>2 DEF WriteOnline
    <3>2. MarkOf(committedState(r), FALSE) \in Events
      BY CommittedStateResult DEF Events, Marks, MarkOf
    <3>3. QED BY <2>2, <3>1, <3>2, ApplyTypes DEF WriteOnline, TypeOK
  <2>3. ASSUME NEW w \in Writes, Submit(w)
        PROVE  TypeOK'
    <3>1. MarkOf("sending", FALSE) \in Events
      BY DEF Events, Marks, MarkOf, Pending
    <3>2. attempts' \in [Writes -> 0..MaxAttempts]
      BY <2>3, ConstantsAssumption DEF Submit, TypeOK
    <3>3. QED BY <2>3, <3>1, <3>2, ApplyTypes DEF Submit, TypeOK
  <2>4. ASSUME NEW w \in Writes, BackOff(w)
        PROVE  TypeOK'
    <3>1. PICK d \in BOOLEAN : inDoubt' = [inDoubt EXCEPT ![w] = d] /\ apply(w, MarkOf("waiting", ~d))
      BY <2>4, Zenon DEF BackOff, TypeOK
    <3>2. MarkOf("waiting", ~d) \in Events
      BY DEF Events, Marks, MarkOf, Pending
    <3>3. QED BY <2>4, <3>1, <3>2, ApplyTypes DEF BackOff, TypeOK
  <2>5. ASSUME NEW w \in Writes, Commit(w)
        PROVE  TypeOK'
    <3>1. PICK r \in {"followed", "unfollowed", "elsewhere"} :
             /\ stage' = [stage EXCEPT ![w] = "committed"]
             /\ report' = [report EXCEPT ![w] = r]
             /\ held' = IF r = "elsewhere" THEN held \cup {w} ELSE held
             /\ apply(w, MarkOf(committedState(r), FALSE))
      BY <2>5 DEF Commit
    <3>2. MarkOf(committedState(r), FALSE) \in Events
      BY CommittedStateResult DEF Events, Marks, MarkOf
    <3>3. QED BY <2>5, <3>1, <3>2, ApplyTypes DEF Commit, TypeOK
  <2>6. ASSUME NEW w \in Writes, CommitHeld(w)
        PROVE  TypeOK'
    <3>1. MarkOf("delivered", FALSE) \in Events
      BY DEF Events, Marks, MarkOf, Committed
    <3>2. QED BY <2>6, <3>1, ApplyTypes DEF CommitHeld, TypeOK
  <2>7. ASSUME NEW w \in Writes, Refuse(w)
        PROVE  TypeOK'
    BY <2>7, ApplyTypes DEF Refuse, TypeOK, Events
  <2>8. ASSUME NEW w \in Writes, discard(w)
        PROVE  TypeOK'
    BY <2>8, ApplyTypes DEF discard, TypeOK, Events
  <2>9. ASSUME NEW w \in Writes, record(w)
        PROVE  TypeOK'
    <3>1. persist
      BY <2>9 DEF record
    <3>2. QED BY <2>9, <3>1, RecordTypes, PersistTypes DEF record, TypeOK, stackVars
  <2>10. ASSUME NEW w \in Writes, DeliveredTimer(w)
         PROVE  TypeOK'
    <3>1. mark' \in [Writes -> Marks \cup {NoMark}] /\ failures' \subseteq Writes /\ persist
      BY <2>10 DEF DeliveredTimer, TypeOK
    <3>2. QED BY <2>10, <3>1, PersistTypes DEF DeliveredTimer, TypeOK, stackVars
  <2>11. ASSUME NEW w \in Writes, dismiss(w)
         PROVE  TypeOK'
    <3>1. mark' \in [Writes -> Marks \cup {NoMark}] /\ failures' \subseteq Writes /\ persist
      BY <2>11 DEF dismiss, TypeOK
    <3>2. QED BY <2>11, <3>1, PersistTypes DEF dismiss, TypeOK
  <2>12. ASSUME NEW s \in Strands, QueueState(s)
         PROVE  TypeOK'
    BY <2>12 DEF QueueState, TypeOK, diskVars
  <2>13. ASSUME NEW s \in Strands, refresh(s)
         PROVE  TypeOK'
    BY <2>13, RefreshTypes, UpdateTypes DEF refresh, TypeOK, stackVars
  <2>14. ASSUME NEW s \in Strands, forgetStrand(s)
         PROVE  TypeOK'
    <3>1. mark' \in [Writes -> Marks \cup {NoMark}] /\ failures' \subseteq Writes /\ persist
      BY <2>14 DEF forgetStrand, TypeOK
    <3>2. QED BY <2>14, <3>1, PersistTypes DEF forgetStrand, TypeOK
  <2>15. CASE NodeRestart
    BY <2>15, NodeStopsTypes DEF NodeRestart, NodeStops, TypeOK, diskVars
  <2>16. CASE Crash
    <3>1. PICK rows \in onDisk : loadText' = rows /\ slot' = rows /\ onDisk' = {rows}
      BY <2>16 DEF Crash
    <3>2. loadText' \in Rows /\ slot' \in Rows /\ onDisk' \in SUBSET Rows /\ slot' \in onDisk'
      BY <3>1 DEF TypeOK
    <3>3. NodeStops
      BY <2>16 DEF Crash
    <3>4. mark' \in [Writes -> Marks \cup {NoMark}] /\ early' \in [Writes -> Marks \cup {NoMark, Failed}]
      BY <2>16 DEF Crash
    <3>5. QED BY <2>16, <3>2, <3>3, <3>4, NodeStopsTypes DEF Crash, NodeStops, TypeOK
  <2>17. CASE SaveLands
    BY <2>17 DEF SaveLands, TypeOK, stackVars, Rows
  <2>18. CASE load
    <3>1. mark' \in [Writes -> Marks \cup {NoMark}]
      BY <2>18 DEF load, TypeOK, MarkOf, Marks, Pending
    <3>2. QED BY <2>18, <3>1 DEF load, TypeOK, stackVars, diskVars, Rows
  <2>19. CASE UNCHANGED vars
    BY <2>19 DEF vars, stackVars, diskVars, TypeOK
  <2>20. QED
    BY <2>1, <2>2, <2>3, <2>4, <2>5, <2>6, <2>7, <2>8, <2>9, <2>10, <2>11, <2>12, <2>13,
       <2>14, <2>15, <2>16, <2>17, <2>18, <2>19
    DEF Next, Stack, Tracker, Strand
<1>3. QED BY <1>1, <1>2, PTL DEF Spec

-----------------------------------------------------------------------------
(* Rows are kept. *)

(* Writes only come to be recorded: no step takes one back. *)
Arrivals ==
    /\ \A x \in Writes : stage[x] # "none" => stage'[x] # "none"
    /\ unrecorded' \subseteq Writes
    /\ \A x \in unrecorded' \ unrecorded : stage[x] = "none" /\ stage'[x] # "none"

(* A write that has been recorded stays so. *)
LEMMA RecordedStays ==
    ASSUME TypeOK, RowsAreKept, Arrivals
    PROVE  /\ \A x \in Writes : Recorded(x) => Recorded(x)'
           /\ \A x \in unrecorded' : stage'[x] # "none"
BY DEF TypeOK, Arrivals, Recorded, RowsAreKept, KnownIsRecorded

(* A step that touches neither memory nor the slot. *)
LEMMA StutterKeeps ==
    ASSUME TypeOK, RowsAreKept, Arrivals,
           UNCHANGED <<mark, failures, owed, slot, onDisk, dropped, loaded, loadText>>
    PROVE  RowsAreKept'
<1>1. KnownIsRecorded'
  <2>1. \A w \in Writes : Tracked(w)' \/ w \in (failures \cup owed \cup RowsOf(loadText))' => Recorded(w)'
    BY RecordedStays DEF RowsAreKept, KnownIsRecorded, Tracked, RowsOf
  <2>2. \A v \in onDisk' : \A w \in RowsOf(v) : w \in Writes
    BY DEF TypeOK, Rows, RowsOf
  <2>3. \A v \in onDisk' : \A w \in RowsOf(v) : Recorded(w)'
    BY <2>2, RecordedStays DEF RowsAreKept, KnownIsRecorded
  <2>4. QED BY <2>1, <2>3, RecordedStays DEF KnownIsRecorded
<1>2. (MemoryKeeps /\ TextKeeps /\ DiskKeeps)'
  BY DEF RowsAreKept, MemoryKeeps, TextKeeps, DiskKeeps, Promised, Kept, Tracked, RowsOf
<1>3. QED BY <1>1, <1>2 DEF RowsAreKept

(* A step that saves.  The rows it saves are what memory keeps, and before  *)
(* the slot has been read nothing is promised any more.                     *)
LEMMA PersistKeeps ==
    ASSUME TypeOK, TypeOK', RowsAreKept, Arrivals, persist, UNCHANGED <<loaded, loadText>>,
           owed' \subseteq owed,
           \A w \in owed' : Kept(w) => Kept(w)',
           \A w \in Writes : Tracked(w)' \/ w \in failures' => Recorded(w)',
           \A w \in RowsOf(loadText) : ~Tracked(w) /\ w \notin failures => ~Tracked(w)' /\ w \notin failures'
    PROVE  RowsAreKept'
<1>1. /\ slot'.pending = {w \in Writes : mark'[w].state \in {"waiting", "sending"}}
      /\ slot'.failed = failures'
      /\ onDisk' = onDisk \cup {slot'}
      /\ dropped' = IF loaded THEN dropped ELSE dropped \cup owed
  BY DEF persist
<1>2. \A w \in Writes : w \in RowsOf(slot') <=> Kept(w)'
  BY <1>1 DEF RowsOf, Kept
<1>3. RowsOf(slot') \subseteq Writes /\ owed' \subseteq Writes /\ owed \subseteq Writes
  BY DEF TypeOK, Rows, RowsOf
<1>4. \A w \in Writes : Kept(w)' => Tracked(w)' \/ w \in failures'
  BY DEF Kept, Tracked
<1>5. Promised' \subseteq Promised /\ (~loaded => Promised' = {})
  BY <1>1 DEF Promised
<1>6. loaded => \A w \in Promised' : Kept(w)'
  <2> SUFFICES ASSUME loaded, NEW w \in Promised'
               PROVE  Kept(w)'
    OBVIOUS
  <2>1. w \in Promised /\ w \in owed'
    BY <1>5 DEF Promised
  <2>2. Kept(w)
    BY <2>1 DEF RowsAreKept, MemoryKeeps
  <2>3. QED BY <2>1, <2>2
<1>7. KnownIsRecorded'
  <2>1. \A w \in Writes : w \in owed' \/ w \in RowsOf(loadText)' => Recorded(w)'
    BY RecordedStays DEF RowsAreKept, KnownIsRecorded
  <2>2. \A w \in RowsOf(slot') : Recorded(w)'
    BY <1>2, <1>3, <1>4
  <2>3. \A v \in onDisk : \A w \in RowsOf(v) : w \in Writes
    BY DEF TypeOK, Rows, RowsOf
  <2>4. \A v \in onDisk : \A w \in RowsOf(v) : Recorded(w)'
    BY <2>3, RecordedStays DEF RowsAreKept, KnownIsRecorded
  <2>5. \A v \in onDisk' : \A w \in RowsOf(v) : Recorded(w)'
    BY <1>1, <2>2, <2>4
  <2>6. QED BY <2>1, <2>5, RecordedStays DEF KnownIsRecorded
<1>8. MemoryKeeps'
  BY <1>2, <1>3, <1>6 DEF MemoryKeeps, RowsOf
<1>9. TextKeeps'
  <2>1. ~loaded => \A w \in RowsOf(loadText) : ~Tracked(w)' /\ w \notin failures'
    BY DEF RowsAreKept, TextKeeps
  <2>2. QED BY <1>2, <1>3, <1>5, <2>1 DEF TextKeeps, RowsOf
<1>10. DiskKeeps'
  <2>1. Promised' \subseteq RowsOf(slot')
    BY <1>2, <1>3, <1>5, <1>6 DEF Promised
  <2>2. \A v \in onDisk : Promised' \subseteq RowsOf(v)
    BY <1>5 DEF RowsAreKept, DiskKeeps
  <2>3. QED BY <1>1, <2>1, <2>2 DEF DiskKeeps
<1>11. QED BY <1>7, <1>8, <1>9, <1>10 DEF RowsAreKept

(* Marks that move on: only tracked writes', and never to `saving`. *)
Onward(new) ==
    \A w \in Writes :
        \/ new[w] = mark[w]
        \/ /\ Tracked(w) /\ new[w] \in Events
           /\ mark[w].state # "saving" => new[w].state # "saving"

(* A report is a refusal, or a mark in one of the tracked states. *)
LEMMA EventStates ==
    ASSUME NEW e \in Events
    PROVE  e = Failed \/ (e \in Marks /\ e.state \in {"saving", "waiting", "sending"} \cup Committed)
BY DEF Events, Marks, Pending

(* New marks that move no write back to `saving` keep the rows. *)
LEMMA UpdateKeeps ==
    ASSUME TypeOK, TypeOK', RowsAreKept, Arrivals, UNCHANGED <<loaded, loadText>>,
           NEW new \in MarksNow, Onward(new), Update(new)
    PROVE  RowsAreKept'
<1>1. /\ \A w \in Writes : mark'[w] = IF new[w] = Failed THEN NoMark ELSE new[w]
      /\ \A w \in Writes : w \in failures' <=> w \in failures \/ new[w] = Failed
      /\ owed' = {w \in owed : new[w].state \notin Committed}
      /\ owed' \subseteq Writes /\ failures' \subseteq Writes
  BY DEF Update, TypeOK
<1>2. \A w \in Writes : mark[w] # Failed
  BY DEF TypeOK, Marks, Pending, Committed, Failed, NoMark, MarkOf
<1>3. ASSUME NEW w \in Writes, Tracked(w)' \/ (w \in failures' /\ w \notin failures)
      PROVE  Tracked(w)
  <2>1. CASE new[w] = mark[w]
    BY <1>1, <1>2, <1>3, <2>1 DEF Tracked
  <2>2. CASE new[w] # mark[w]
    BY <2>2 DEF Onward
  <2>3. QED BY <2>1, <2>2
<1>4. ASSUME NEW w \in owed', Kept(w)
      PROVE  Kept(w)'
  <2>1. w \in Writes /\ new[w].state \notin Committed
    BY <1>1
  <2>2. CASE w \in failures
    BY <1>1, <2>1, <2>2 DEF Kept
  <2>3. CASE mark[w].state \in {"waiting", "sending"}
    <3>1. CASE new[w] = mark[w]
      BY <1>1, <1>2, <2>1, <2>3, <3>1 DEF Kept
    <3>2. CASE new[w] # mark[w]
      <4>1. new[w] \in Events /\ new[w].state # "saving"
        BY <2>1, <2>3, <3>2 DEF Onward
      <4>2. CASE new[w] = Failed
        BY <1>1, <2>1, <4>2 DEF Kept
      <4>3. CASE new[w] # Failed
        BY <1>1, <2>1, <4>1, <4>3, EventStates DEF Kept
      <4>4. QED BY <4>2, <4>3
    <3>3. QED BY <3>1, <3>2
  <2>4. QED BY <1>4, <2>2, <2>3 DEF Kept
<1>5. \A w \in Writes : Tracked(w)' \/ w \in failures' => Recorded(w)'
  BY <1>3, RecordedStays DEF RowsAreKept, KnownIsRecorded
<1>6. RowsOf(loadText) \subseteq Writes
  BY DEF TypeOK, Rows, RowsOf
<1>7. CASE persist
  BY <1>1, <1>3, <1>4, <1>5, <1>6, <1>7, PersistKeeps
<1>8. CASE UNCHANGED diskVars /\ \A w \in Writes : new[w].state = mark[w].state
  <2>1. \A w \in Writes : new[w] # Failed
    BY <1>8 DEF TypeOK, Marks, Pending, Committed, Failed, NoMark, MarkOf
  <2>2. /\ \A w \in Writes : mark'[w].state = mark[w].state
        /\ failures' = failures
    BY <1>1, <1>8, <2>1 DEF TypeOK
  <2>3. \A w \in Writes : (Kept(w) <=> Kept(w)') /\ (Tracked(w) <=> Tracked(w)')
    BY <2>2 DEF Kept, Tracked
  <2>4. slot' = slot /\ onDisk' = onDisk /\ Promised' \subseteq Promised
    BY <1>1, <1>8 DEF diskVars, Promised
  <2>5. RowsOf(slot) \subseteq Writes /\ Promised \subseteq Writes
    BY DEF TypeOK, Rows, RowsOf, Promised
  <2>6. KnownIsRecorded'
    <3>1. \A w \in Writes : w \in owed' \/ w \in RowsOf(loadText)' => Recorded(w)'
      BY <1>1, RecordedStays DEF RowsAreKept, KnownIsRecorded
    <3>2. \A v \in onDisk : \A w \in RowsOf(v) : w \in Writes
      BY DEF TypeOK, Rows, RowsOf
    <3>3. \A v \in onDisk' : \A w \in RowsOf(v) : Recorded(w)'
      BY <2>4, <3>2, RecordedStays DEF RowsAreKept, KnownIsRecorded
    <3>4. QED BY <1>5, <3>1, <3>3, RecordedStays DEF KnownIsRecorded
  <2>7. MemoryKeeps'
    BY <2>3, <2>4, <2>5 DEF RowsAreKept, MemoryKeeps, RowsOf
  <2>8. TextKeeps'
    BY <1>6, <2>2, <2>3, <2>4, <2>5 DEF RowsAreKept, TextKeeps, RowsOf
  <2>9. DiskKeeps'
    BY <2>4 DEF RowsAreKept, DiskKeeps
  <2>10. QED BY <2>6, <2>7, <2>8, <2>9 DEF RowsAreKept
<1>9. QED BY <1>7, <1>8 DEF Update

(* A report the tracker hears: never of a write being `saving`. *)
Reports == {e \in Events : e.state # "saving"}

(* A stack event keeps the rows, applied or buffered. *)
LEMMA ApplyKeeps ==
    ASSUME TypeOK, TypeOK', RowsAreKept, Arrivals, UNCHANGED <<loaded, loadText>>,
           NEW w \in Writes, NEW e \in Reports, apply(w, e)
    PROVE  RowsAreKept'
<1>1. CASE Tracked(w)
  <2> DEFINE new == [mark EXCEPT ![w] = applyStatus(@, e)]
  <2>1. Update(new) /\ new \in MarksNow
    BY <1>1, AppliedTypes DEF apply, Reports
  <2>2. mark[w] \in Events /\ e \in Events /\ e.state # "saving"
    BY <1>1 DEF TypeOK, Tracked, NoMark, MarkOf, Events, Reports
  <2>3. /\ applyStatus(mark[w], e) \in Events
        /\ applyStatus(mark[w], e).state \in {mark[w].state, e.state}
    BY <2>2, ApplyStatusResult
  <2>4. \A x \in Writes : new[x] = IF x = w THEN applyStatus(mark[w], e) ELSE mark[x]
    BY DEF TypeOK
  <2>5. Onward(new)
    BY <1>1, <2>2, <2>3, <2>4 DEF Onward
  <2>6. QED BY <2>1, <2>5, UpdateKeeps
<1>2. CASE ~Tracked(w)
  BY <1>2, StutterKeeps DEF apply, diskVars
<1>3. QED BY <1>1, <1>2

(* Reading a strand again moves no write back to `saving`. *)
LEMMA RefreshOnward ==
    ASSUME TypeOK, NEW s \in Strands
    PROVE  Onward([w \in Writes |-> IF Tracked(w) /\ StrandOf[w] = s THEN readNow(w, mark[w]) ELSE mark[w]])
<1>1. ASSUME NEW w \in Writes, Tracked(w)
      PROVE  /\ readNow(w, mark[w]) \in Events
             /\ mark[w].state # "saving" => readNow(w, mark[w]).state # "saving"
  <2>1. mark[w] \in Marks
    BY <1>1 DEF TypeOK, Tracked, NoMark, MarkOf
  <2>2. QED BY <2>1, ReadNowResult DEF TypeOK, Committed
<1>2. QED BY <1>1 DEF Onward

(* The rows read from the slot come into memory. *)
LEMMA LoadKeeps ==
    ASSUME TypeOK, TypeOK', RowsAreKept, load
    PROVE  RowsAreKept'
<1>1. /\ ~loaded /\ loaded' = TRUE
      /\ failures' = failures \cup loadText.failed
      /\ UNCHANGED <<unrecorded, stage, loadText, slot, onDisk, dropped, owed>>
      /\ \A w \in Writes : mark'[w] = IF w \in loadText.pending \ loadText.failed /\ ~Tracked(w)
                                        THEN MarkOf("waiting", FALSE) ELSE mark[w]
  BY DEF load, stackVars, diskVars
<1>2. /\ RowsOf(loadText) \subseteq Writes /\ RowsOf(slot) \subseteq Writes
      /\ Promised \subseteq Writes
      /\ \A v \in onDisk : RowsOf(v) \subseteq Writes
  BY DEF TypeOK, Rows, RowsOf, Promised
<1>3. \A w \in RowsOf(loadText) : ~Tracked(w)
  BY <1>1 DEF RowsAreKept, TextKeeps
<1>4. ASSUME NEW w \in Writes, Kept(w) \/ w \in RowsOf(loadText)
      PROVE  Kept(w)'
  <2>1. CASE w \in failures \cup loadText.failed
    BY <1>1, <2>1 DEF Kept
  <2>2. CASE w \in RowsOf(loadText) \ loadText.failed
    BY <1>1, <1>3, <2>2 DEF Kept, RowsOf, MarkOf
  <2>3. CASE w \notin RowsOf(loadText) /\ mark[w].state \in {"waiting", "sending"}
    BY <1>1, <2>3 DEF Kept, RowsOf
  <2>4. QED BY <1>4, <2>1, <2>2, <2>3 DEF Kept, RowsOf
<1>5. MemoryKeeps'
  <2>1. \A w \in Promised \cup RowsOf(slot) : Kept(w) \/ w \in RowsOf(loadText)
    BY <1>1 DEF RowsAreKept, TextKeeps
  <2>2. Promised' = Promised /\ slot' = slot
    BY <1>1 DEF Promised
  <2>3. QED BY <1>2, <1>4, <2>1, <2>2 DEF MemoryKeeps, RowsOf
<1>6. KnownIsRecorded'
  <2>1. \A w \in Writes : Recorded(w)' <=> Recorded(w)
    BY <1>1 DEF Recorded
  <2>2. ASSUME NEW w \in Writes, Tracked(w)' \/ w \in failures'
        PROVE  Tracked(w) \/ w \in failures \/ w \in RowsOf(loadText)
    BY <1>1, <2>2 DEF Tracked, RowsOf
  <2>3. \A w \in Writes : Tracked(w)' \/ w \in (failures \cup owed \cup RowsOf(loadText))' => Recorded(w)'
    BY <1>1, <2>1, <2>2 DEF RowsAreKept, KnownIsRecorded, RowsOf
  <2>4. \A v \in onDisk' : \A w \in RowsOf(v) : Recorded(w)'
    BY <1>1, <1>2, <2>1 DEF RowsAreKept, KnownIsRecorded
  <2>5. QED BY <1>1, <2>3, <2>4 DEF RowsAreKept, KnownIsRecorded
<1>7. TextKeeps' /\ DiskKeeps'
  BY <1>1 DEF RowsAreKept, TextKeeps, DiskKeeps, Promised
<1>8. QED BY <1>5, <1>6, <1>7 DEF RowsAreKept

(* Rows that land on the disk are promised from then on. *)
LEMMA SaveLandsKeeps ==
    ASSUME TypeOK, RowsAreKept, SaveLands
    PROVE  RowsAreKept'
<1>1. /\ onDisk' = {slot} /\ owed' = owed \cup RowsOf(slot)
      /\ UNCHANGED <<stage, unrecorded, mark, failures, loaded, loadText, slot, dropped>>
  BY DEF SaveLands, RowsOf, stackVars, loadVars
<1>2. slot \in onDisk /\ RowsOf(slot) \subseteq Writes
  BY DEF TypeOK, Rows, RowsOf
<1>3. Promised' \subseteq Promised \cup RowsOf(slot)
  BY <1>1 DEF Promised
<1>4. KnownIsRecorded'
  BY <1>1, <1>2 DEF RowsAreKept, KnownIsRecorded, Tracked, Recorded
<1>5. MemoryKeeps' /\ TextKeeps'
  BY <1>1, <1>3 DEF RowsAreKept, MemoryKeeps, TextKeeps, Kept, Tracked
<1>6. DiskKeeps'
  BY <1>1, <1>2, <1>3 DEF RowsAreKept, DiskKeeps
<1>7. QED BY <1>4, <1>5, <1>6 DEF RowsAreKept

(* A node that stops brings no new write. *)
LEMMA NodeStopsArrivals ==
    ASSUME TypeOK, RowsAreKept, NodeStops, unrecorded' \subseteq unrecorded
    PROVE  Arrivals
BY DEF NodeStops, Arrivals, TypeOK

(* The process dies: some save since the last landed one is what is left.   *)
LEMMA CrashKeeps ==
    ASSUME TypeOK, RowsAreKept, Crash
    PROVE  RowsAreKept'
<1>1. PICK rows \in onDisk : loadText' = rows /\ slot' = rows /\ onDisk' = {rows}
  BY DEF Crash
<1>2. /\ unrecorded' = {} /\ failures' = {} /\ loaded' = FALSE
      /\ UNCHANGED <<owed, dropped>>
      /\ \A w \in Writes : ~Tracked(w)'
  BY DEF Crash, Tracked, NoMark, MarkOf
<1>3. Arrivals
  BY <1>2, NodeStopsArrivals DEF Crash
<1>4. RowsOf(rows) \subseteq Writes /\ owed \subseteq Writes
  BY <1>1 DEF TypeOK, Rows, RowsOf
<1>5. Promised' \subseteq RowsOf(rows)
  BY <1>1, <1>2 DEF RowsAreKept, DiskKeeps, Promised
<1>6. \A w \in RowsOf(rows) \cup owed : Recorded(w)'
  BY <1>1, <1>3, <1>4, RecordedStays DEF RowsAreKept, KnownIsRecorded
<1>7. KnownIsRecorded'
  BY <1>1, <1>2, <1>6 DEF KnownIsRecorded, RowsOf
<1>8. MemoryKeeps' /\ TextKeeps' /\ DiskKeeps'
  BY <1>1, <1>2, <1>4, <1>5 DEF MemoryKeeps, TextKeeps, DiskKeeps, RowsOf
<1>9. QED BY <1>7, <1>8 DEF RowsAreKept

(* Recording a write starts it over as `saving`, which is not saved: it is  *)
(* not one of those the slot holds.                                         *)
LEMMA RecordKeeps ==
    ASSUME TypeOK, TypeOK', RowsAreKept, NEW w \in Writes, record(w)
    PROVE  RowsAreKept'
<1>1. /\ w \in unrecorded /\ unrecorded' = unrecorded \ {w}
      /\ failures' \in {failures, failures \cup {w}} /\ owed' \subseteq owed
      /\ UNCHANGED <<stage, loaded, loadText>> /\ persist
      /\ \A x \in Writes : x # w => mark'[x] = mark[x]
  BY DEF record, stackVars, loadVars, TypeOK
<1>2. w \notin owed /\ w \notin RowsOf(loadText) /\ stage[w] # "none"
  BY <1>1 DEF RowsAreKept, KnownIsRecorded, Recorded
<1>3. Arrivals
  BY <1>1 DEF Arrivals, TypeOK
<1>4. owed' \subseteq Writes /\ RowsOf(loadText) \subseteq Writes
  BY DEF TypeOK, Rows, RowsOf
<1>5. \A x \in owed' : Kept(x) => Kept(x)'
  BY <1>1, <1>2, <1>4 DEF Kept
<1>6. \A x \in Writes : Tracked(x)' \/ x \in failures' => Recorded(x)'
  <2>1. Recorded(w)'
    BY <1>1, <1>2 DEF Recorded
  <2>2. \A x \in Writes : x # w /\ (Tracked(x)' \/ x \in failures') => Recorded(x)
    BY <1>1 DEF RowsAreKept, KnownIsRecorded, Tracked
  <2>3. QED BY <1>3, <2>1, <2>2, RecordedStays
<1>7. \A x \in RowsOf(loadText) : ~Tracked(x) /\ x \notin failures => ~Tracked(x)' /\ x \notin failures'
  BY <1>1, <1>2, <1>4 DEF Tracked
<1>8. QED BY <1>1, <1>3, <1>5, <1>6, <1>7, PersistKeeps

(* Letting writes go: their marks or refusals are dropped, and the promise. *)
LEMMA LetGoKeeps ==
    ASSUME TypeOK, TypeOK', RowsAreKept, persist, Arrivals,
           UNCHANGED <<loaded, loadText>>,
           \A w \in Writes : mark'[w] \in {mark[w], NoMark},
           failures' \subseteq failures, owed' \subseteq owed,
           \A w \in owed' : Kept(w) => mark'[w] = mark[w] /\ (w \in failures => w \in failures')
    PROVE  RowsAreKept'
<1>1. \A w \in Writes : Tracked(w)' => Tracked(w)
  BY DEF Tracked, NoMark, MarkOf
<1>2. \A w \in owed' : Kept(w) => Kept(w)'
  BY DEF Kept
<1>3. \A w \in Writes : Tracked(w)' \/ w \in failures' => Recorded(w)'
  BY <1>1, RecordedStays DEF RowsAreKept, KnownIsRecorded
<1>4. RowsOf(loadText) \subseteq Writes
  BY DEF TypeOK, Rows, RowsOf
<1>5. QED BY <1>1, <1>2, <1>3, <1>4, PersistKeeps

(* The timer lets go of a write that is not among the rows that are kept:   *)
(* a delivered one.                                                         *)
LEMMA TimerKeeps ==
    ASSUME TypeOK, TypeOK', RowsAreKept, NEW w \in Writes, DeliveredTimer(w)
    PROVE  RowsAreKept'
<1>1. /\ mark[w].state = "delivered" /\ mark' = [mark EXCEPT ![w] = NoMark]
      /\ UNCHANGED <<stage, unrecorded, failures, owed, loaded, loadText>> /\ persist
  BY DEF DeliveredTimer, stackVars, loadVars
<1>2. Arrivals
  BY <1>1 DEF Arrivals, TypeOK
<1>3. \A x \in owed' : Kept(x) => Kept(x)'
  BY <1>1 DEF Kept, TypeOK
<1>4. \A x \in Writes : Tracked(x)' => Tracked(x)
  BY <1>1 DEF Tracked, NoMark, MarkOf, TypeOK
<1>5. \A x \in Writes : Tracked(x)' \/ x \in failures' => Recorded(x)'
  BY <1>1, <1>2, <1>4, RecordedStays DEF RowsAreKept, KnownIsRecorded
<1>6. RowsOf(loadText) \subseteq Writes
  BY DEF TypeOK, Rows, RowsOf
<1>7. QED BY <1>1, <1>2, <1>3, <1>4, <1>5, <1>6, PersistKeeps

(* The inductive invariant holds in every reachable state (persist, load,   *)
(* record, refresh, dismiss, forgetStrand and every report of the stack).   *)
THEOREM RowsStayKept == Spec => []RowsAreKept
<1>1. Init => RowsAreKept
  BY DEF Init, RowsAreKept, KnownIsRecorded, MemoryKeeps, TextKeeps, DiskKeeps, RowsOf, Promised,
         Recorded, Kept, Tracked, NoRows, NoMark, MarkOf
<1>2. TypeOK /\ TypeOK' /\ RowsAreKept /\ [Next]_vars => RowsAreKept'
  <2> SUFFICES ASSUME TypeOK, TypeOK', RowsAreKept, [Next]_vars
               PROVE  RowsAreKept'
    OBVIOUS
  <2> USE DEF trackerRest, loadVars, stackVars, diskVars
  <2>1. ASSUME NEW w \in Writes, Stack(w)
        PROVE  RowsAreKept'
    <3>1. Arrivals /\ UNCHANGED <<loaded, loadText>>
      BY <2>1 DEF Stack, WriteQueued, WriteOnline, Submit, BackOff, Commit, CommitHeld, Refuse, discard,
                  Arrivals, TypeOK
    <3>2. /\ Failed \in Reports
          /\ \A d \in BOOLEAN, s \in Committed \cup {"waiting", "sending"} : MarkOf(s, d) \in Reports
      BY DEF Reports, Events, Marks, MarkOf, Failed, Pending, Committed
    <3>3. \A r : committedState(r) \in Committed
      BY CommittedStateResult
    <3>4. \E e \in Reports : apply(w, e)
      <4>1. CASE WriteQueued(w) \/ Submit(w) \/ Refuse(w) \/ discard(w) \/ CommitHeld(w)
        BY <3>2, <4>1 DEF WriteQueued, Submit, Refuse, discard, CommitHeld, Committed
      <4>2. CASE WriteOnline(w) \/ Commit(w)
        BY <3>2, <3>3, <4>2 DEF WriteOnline, Commit
      <4>3. CASE BackOff(w)
        <5>1. PICK d : apply(w, MarkOf("waiting", ~d))
          BY <4>3 DEF BackOff
        <5>2. (~d) \in BOOLEAN
          OBVIOUS
        <5>3. QED BY <3>2, <5>1, <5>2
      <4>4. QED BY <2>1, <4>1, <4>2, <4>3 DEF Stack
    <3>5. QED BY <3>1, <3>4, ApplyKeeps
  <2>2. ASSUME NEW w \in Writes, record(w)
        PROVE  RowsAreKept'
    BY <2>2, RecordKeeps
  <2>3. ASSUME NEW w \in Writes, DeliveredTimer(w)
        PROVE  RowsAreKept'
    BY <2>3, TimerKeeps
  <2>4. ASSUME NEW w \in Writes, dismiss(w)
        PROVE  RowsAreKept'
    <3>1. Arrivals
      BY <2>4 DEF dismiss, Arrivals, TypeOK
    <3>2. QED BY <2>4, <3>1, LetGoKeeps DEF dismiss
  <2>5. ASSUME NEW s \in Strands, QueueState(s)
        PROVE  RowsAreKept'
    <3>1. Arrivals
      BY <2>5 DEF QueueState, Arrivals, TypeOK
    <3>2. QED BY <2>5, <3>1, StutterKeeps DEF QueueState
  <2>6. ASSUME NEW s \in Strands, refresh(s)
        PROVE  RowsAreKept'
    <3>1. Arrivals
      BY <2>6 DEF refresh, Arrivals, TypeOK
    <3>2. QED BY <2>6, <3>1, RefreshTypes, RefreshOnward, UpdateKeeps DEF refresh
  <2>7. ASSUME NEW s \in Strands, forgetStrand(s)
        PROVE  RowsAreKept'
    <3>1. Arrivals
      BY <2>7 DEF forgetStrand, Arrivals, TypeOK
    <3>2. /\ \A w \in Writes : mark'[w] = IF StrandOf[w] = s THEN NoMark ELSE mark[w]
          /\ failures' = failures \ InStrand(s) /\ owed' = owed \ InStrand(s)
      BY <2>7 DEF forgetStrand
    <3>3. \A w \in owed' : mark'[w] = mark[w] /\ (w \in failures => w \in failures')
      BY <3>2 DEF InStrand, TypeOK
    <3>4. QED BY <2>7, <3>1, <3>2, <3>3, LetGoKeeps DEF forgetStrand
  <2>8. CASE NodeRestart
    <3>1. Arrivals
      BY <2>8, NodeStopsArrivals DEF NodeRestart
    <3>2. QED BY <2>8, <3>1, StutterKeeps DEF NodeRestart
  <2>9. CASE Crash
    BY <2>9, CrashKeeps
  <2>10. CASE SaveLands
    BY <2>10, SaveLandsKeeps
  <2>11. CASE load
    BY <2>11, LoadKeeps
  <2>12. CASE UNCHANGED vars
    <3>1. Arrivals
      BY <2>12 DEF vars, Arrivals, TypeOK
    <3>2. QED BY <2>12, <3>1, StutterKeeps DEF vars
  <2>13. QED
    BY <2>1, <2>2, <2>3, <2>4, <2>5, <2>6, <2>7, <2>8, <2>9, <2>10, <2>11, <2>12
    DEF Next, Tracker, Strand
<1>3. QED BY <1>1, <1>2, TypeCorrect, PTL DEF Spec

(* What reached the disk is marked or listed once the slot has been read,   *)
(* for any number of writes, strands, attempts and restarts (load, persist  *)
(* and record).                                                             *)
THEOREM RememberedThroughRestarts == Spec => []StaysRemembered
<1>1. RowsAreKept => StaysRemembered
  BY DEF RowsAreKept, MemoryKeeps, Promised, Kept, StaysRemembered, Tracked
<1>2. QED BY <1>1, RowsStayKept, PTL

-----------------------------------------------------------------------------
(***************************************************************************)
(* Marks.                                                                  *)
(* The inductive invariant carries the truth of a mark along every way it  *)
(* takes: the event of the stack, the buffer of a write that is not        *)
(* recorded yet, the slot, and the reading of a strand again.              *)
(***************************************************************************)
(* Mark m does not say more of write w than what happened, and does not     *)
(* offer to withdraw it when an attempt may have delivered it.              *)
Truth(w, st, hs, m) ==
    /\ m.state \in Committed => st \in {"committed", "acknowledged"}
    /\ m.state = "delivered" => w \in hs
    /\ m.state = "failed" => st \in {"failed", "acknowledged"}

Safe(st, d, m) == m.state = "waiting" /\ m.discardable => ~d /\ st # "submitting"

Told(w, m) == Truth(w, stage[w], held, m) /\ Safe(stage[w], inDoubt[w], m)

Refused == {w \in Writes : stage[w] \in {"failed", "acknowledged"}}

MarksTold == \A w \in Writes : Told(w, mark[w])

EarlyTold ==
    /\ \A w \in Writes : stage[w] = "none" => early[w] = NoMark
    /\ \A w \in unrecorded : Told(w, early[w])

RefusedFailed ==
    /\ failures \cup loadText.failed \subseteq Refused
    /\ \A v \in onDisk : v.failed \subseteq Refused

StackAgrees ==
    \A w \in Writes : (report[w] = "elsewhere" => w \in held) /\ (stage[w] = "none" => ~inDoubt[w])

PublishedIsRead == \A s \in Strands : published[s] => loaded \/ s \in refreshing

(* The half of PendingAgrees that needs the strand to have been read. *)
Settled ==
    \A w \in Writes : Current(w) /\ mark[w].state \in Pending => stage[w] \in {"queued", "submitting"}

MarksInv == MarksTold /\ EarlyTold /\ RefusedFailed /\ StackAgrees /\ PublishedIsRead /\ Settled

-----------------------------------------------------------------------------
(* What applying a report preserves. *)

(* The result of setState: the state reported, unless the mark is past it.  *)
LEMMA SetStateRank ==
    ASSUME NEW m \in Marks, NEW to \in Pending \cup Committed
    PROVE  /\ setState(m, to).discardable = m.discardable
           /\ to \in Committed => setState(m, to).state \in Committed
           /\ m.state \in Committed => /\ setState(m, to).state \in Committed
                                       /\ rank(setState(m, to).state) >= rank(m.state)
           /\ to = "sending" => setState(m, to).state # "waiting"
           /\ setState(m, to).state = "waiting" => to \in {"waiting", "saving"}
BY DEF setState, alternating, rank, ORDER, Marks, Pending, Committed

(* Applying a report that is so to a mark that is so gives one that is so,  *)
(* and it is a report of the queue that makes a withdrawal offered.         *)
LEMMA ApplyTold ==
    ASSUME NEW w, NEW st, NEW hs, NEW d, NEW m \in Events, NEW e \in Events,
           Truth(w, st, hs, m), Truth(w, st, hs, e), Safe(st, d, e),
           Safe(st, d, m) \/ e.state # "saving"
    PROVE  /\ applyStatus(m, e) \in Events
           /\ Truth(w, st, hs, applyStatus(m, e))
           /\ Safe(st, d, applyStatus(m, e))
<1>1. /\ applyStatus(m, e) \in Events
      /\ applyStatus(m, e).state \in {m.state, e.state}
  BY ApplyStatusResult
<1>2. Truth(w, st, hs, applyStatus(m, e))
  BY <1>1 DEF Truth
<1>3. Safe(st, d, applyStatus(m, e))
  <2>1. CASE Failed \in {m, e}
    BY <2>1 DEF applyStatus, Safe, Failed, MarkOf
  <2>2. CASE Failed \notin {m, e}
    <3> DEFINE n == [m EXCEPT !.discardable = IF e.state = "waiting" THEN e.discardable ELSE @]
               r == setState(n, e.state)
    <3>1. /\ n \in Marks /\ n.state = m.state /\ e.state \in Pending \cup Committed
          /\ n.discardable = IF e.state = "waiting" THEN e.discardable ELSE m.discardable
      BY <2>2 DEF Events, Marks
    <3>2. applyStatus(m, e) = r
      BY <2>2 DEF applyStatus
    <3>3. /\ r.discardable = n.discardable
          /\ r.state = "waiting" => e.state \in {"waiting", "saving"}
          /\ r.state \in {n.state, e.state}
      BY <3>1, SetStateRank, SetStateResult
    <3>4. CASE e.state = "waiting"
      BY <3>1, <3>2, <3>3, <3>4 DEF Safe
    <3>5. CASE e.state = "saving"
      BY <3>1, <3>2, <3>3, <3>5 DEF Safe
    <3>6. CASE e.state \notin {"waiting", "saving"}
      BY <3>2, <3>3, <3>6 DEF Safe
    <3>7. QED BY <3>4, <3>5, <3>6
  <2>3. QED BY <2>1, <2>2
<1>4. QED BY <1>1, <1>2, <1>3

(* A committed mark stays committed or is refused, and does not retreat; so *)
(* does a mark a commit is applied to.                                      *)
LEMMA ApplyCommits ==
    ASSUME NEW m \in Events, NEW e \in Events,
           m.state \in Committed \cup {"failed"} \/ e.state \in Committed \cup {"failed"}
    PROVE  /\ applyStatus(m, e) = Failed \/ applyStatus(m, e).state \in Committed
           /\ m.state \in Committed /\ applyStatus(m, e) # Failed
                => rank(applyStatus(m, e).state) >= rank(m.state)
<1>1. CASE Failed \in {m, e}
  BY <1>1 DEF applyStatus
<1>2. CASE Failed \notin {m, e}
  <2> DEFINE n == [m EXCEPT !.discardable = IF e.state = "waiting" THEN e.discardable ELSE @]
  <2>1. /\ n \in Marks /\ n.state = m.state
        /\ m.state \in Pending \cup Committed /\ e.state \in Pending \cup Committed
    BY <1>2 DEF Events, Marks
  <2>2. applyStatus(m, e) = setState(n, e.state)
    BY <1>2 DEF applyStatus
  <2>3. m.state \in Committed \/ e.state \in Committed
    BY <2>1 DEF Pending, Committed
  <2>4. QED BY <2>1, <2>2, <2>3, SetStateRank
<1>3. QED BY <1>1, <1>2

(* What a read of the strand gives is so, and says `on its way` only of     *)
(* what the queue still has (offline.status, then the durability report).   *)
LEMMA ReadNowTold ==
    ASSUME TypeOK, StackAgrees, NEW w \in Writes, NEW m \in Marks, stage[w] # "none", Told(w, m)
    PROVE  LET r == readNow(w, m)
           IN /\ r \in Events /\ Told(w, r)
              /\ Up(w) /\ r.state \in Pending => stage[w] \in {"queued", "submitting"}
              /\ m.state \in Committed /\ r # Failed
                   => r.state \in Committed /\ rank(r.state) >= rank(m.state)
              /\ r.state \in Pending \cup Committed \cup {"failed"}
<1> DEFINE r == readNow(w, m)
           q == QueueStatus(w)
           c == committedState(report[w])
<1>1. CASE ~Up(w)
  <2>1. r = m
    BY <1>1 DEF readNow
  <2>2. m.state \in Pending \cup Committed
    BY DEF Marks
  <2>3. m.state \in Committed => rank(m.state) >= rank(m.state)
    BY DEF rank, ORDER, Committed
  <2>4. QED BY <1>1, <2>1, <2>2, <2>3 DEF Events
<1>2. CASE Up(w) /\ stage[w] \in {"queued", "submitting", "failed"}
  <2>1. /\ q \in Events /\ q.state \in {"waiting", "sending", "failed"}
        /\ q.state = "waiting" => stage[w] = "queued"
        /\ q.state = "sending" => stage[w] = "submitting"
        /\ q.state = "failed" <=> stage[w] = "failed"
        /\ q.state = "failed" => q = Failed
    BY <1>2 DEF QueueStatus, MarkOf, Events, Marks, Pending, Failed
  <2>2. stage[w] = "queued" => q.discardable = ~inDoubt[w]
    BY DEF QueueStatus, MarkOf
  <2>3. Truth(w, stage[w], held, q)
    BY <2>1 DEF Truth, Committed
  <2>4. Safe(stage[w], inDoubt[w], q)
    BY <2>1, <2>2 DEF Safe
  <2>5. r = applyStatus(m, q)
    BY <1>2 DEF readNow
  <2>6. m \in Events /\ r \in Events /\ Told(w, r)
    BY <2>1, <2>3, <2>4, <2>5, ApplyTold DEF Told, Events
  <2>7. r.state \in Pending => stage[w] \in {"queued", "submitting"}
    <3>1. stage[w] = "failed" => r = Failed
      BY <2>1, <2>5 DEF applyStatus
    <3>2. QED BY <1>2, <3>1 DEF Failed, MarkOf, Pending
  <2>8. m.state \in Committed /\ r # Failed => r.state \in Committed /\ rank(r.state) >= rank(m.state)
    BY <2>1, <2>5, <2>6, ApplyCommits
  <2>9. r.state \in Pending \cup Committed \cup {"failed"}
    BY <2>6 DEF Events, Marks, Failed, MarkOf
  <2>10. QED BY <2>6, <2>7, <2>8, <2>9
<1>3. CASE Up(w) /\ stage[w] \notin {"queued", "submitting", "failed"}
  <2>1. stage[w] \in {"committed", "acknowledged"}
    BY <1>3 DEF TypeOK
  <2>2. r = setState(m, c)
    BY <1>3 DEF readNow
  <2>3. c \in Committed /\ (c = "delivered" => w \in held)
    BY CommittedStateResult DEF committedState, StackAgrees
  <2>4. /\ r \in Marks /\ r.state \in Committed /\ r.state \in {m.state, c}
        /\ m.state \in Committed => rank(r.state) >= rank(m.state)
    BY <2>2, <2>3, SetStateRank, SetStateResult
  <2>5. Told(w, r)
    BY <2>1, <2>3, <2>4 DEF Told, Truth, Safe, Committed
  <2>6. QED BY <2>4, <2>5 DEF Events, Committed, Pending
<1>4. QED BY <1>1, <1>2, <1>3

(* Marks that will be so leave every mark so, and list as refused only what *)
(* was refused.                                                             *)
LEMMA PersistRefused ==
    ASSUME TypeOK, RefusedFailed, persist, failures' \subseteq Refused', loadText' = loadText,
           Refused \subseteq Refused'
    PROVE  RefusedFailed'
BY DEF RefusedFailed, persist

LEMMA UpdateTold ==
    ASSUME TypeOK, RefusedFailed, NEW new \in MarksNow, Update(new), loadText' = loadText,
           Refused \subseteq Refused',
           \A w \in Writes : /\ Truth(w, stage'[w], held', new[w])
                             /\ Safe(stage'[w], inDoubt'[w], new[w])
    PROVE  MarksTold' /\ RefusedFailed'
<1>1. /\ \A w \in Writes : mark'[w] = IF new[w] = Failed THEN NoMark ELSE new[w]
      /\ failures' = failures \cup {w \in Writes : new[w] = Failed}
  BY DEF Update
<1>2. MarksTold'
  BY <1>1 DEF MarksTold, Told, Truth, Safe, NoMark, MarkOf, Committed
<1>3. failures' \subseteq Refused'
  <2>1. \A w \in Writes : new[w] = Failed => w \in Refused'
    BY DEF Truth, Refused, Failed, MarkOf
  <2>2. QED BY <1>1, <2>1 DEF RefusedFailed
<1>4. CASE persist
  BY <1>2, <1>3, <1>4, PersistRefused
<1>5. CASE UNCHANGED diskVars
  <2>1. onDisk' = onDisk
    BY <1>5 DEF diskVars
  <2>2. loadText.failed \subseteq Refused'
    BY DEF RefusedFailed
  <2>3. \A v \in onDisk : v.failed \subseteq Refused'
    BY DEF RefusedFailed
  <2>4. QED BY <1>2, <1>3, <2>1, <2>2, <2>3 DEF RefusedFailed
<1>6. persist \/ UNCHANGED diskVars
  BY DEF Update
<1>7. QED BY <1>4, <1>5, <1>6

(* A step of the stack that tells the tracker a report e of write w.  The   *)
(* stack leaves a committed or refused write so, and e is so once the step  *)
(* is taken.                                                                *)
LEMMA StackTold ==
    ASSUME TypeOK, TypeOK', KnownIsRecorded, MarksInv,
           NEW w \in Writes, NEW e \in Reports, apply(w, e),
           Truth(w, stage'[w], held', e), Safe(stage'[w], inDoubt'[w], e),
           e.state \in Pending => stage'[w] \in {"queued", "submitting"},
           stage'[w] # "none",
           stage[w] \in {"committed", "failed", "acknowledged"} => stage'[w] = stage[w],
           \A x \in Writes \ {w} : stage'[x] = stage[x] /\ inDoubt'[x] = inDoubt[x],
           held \subseteq held', UNCHANGED <<published, refreshing, loadText>>,
           \/ unrecorded' = unrecorded
           \/ stage[w] = "none" /\ unrecorded' = unrecorded \cup {w}
    PROVE  MarksTold' /\ EarlyTold' /\ RefusedFailed' /\ Settled'
<1> USE DEF MarksInv
<1>1. ASSUME NEW x \in Writes \ {w}, NEW m, Told(x, m)
      PROVE  Truth(x, stage'[x], held', m) /\ Safe(stage'[x], inDoubt'[x], m)
  BY <1>1 DEF Told, Truth, Safe
<1>2. ASSUME NEW m \in Events, Truth(w, stage[w], held, m)
      PROVE  /\ applyStatus(m, e) \in Events
             /\ Truth(w, stage'[w], held', applyStatus(m, e))
             /\ Safe(stage'[w], inDoubt'[w], applyStatus(m, e))
  <2>1. Truth(w, stage'[w], held', m)
    BY <1>2 DEF Truth
  <2>2. e \in Events /\ e.state # "saving"
    BY DEF Reports
  <2>3. QED BY <1>2, <2>1, <2>2, ApplyTold
<1>3. Refused \subseteq Refused'
  BY DEF Refused
<1>4. CASE Tracked(w)
  <2> DEFINE r == applyStatus(mark[w], e)
             new == [mark EXCEPT ![w] = r]
  <2>1. Update(new) /\ new \in MarksNow /\ UNCHANGED early
    BY <1>4, AppliedTypes DEF apply, Reports
  <2>2. mark[w] \in Events
    BY <1>4 DEF TypeOK, Tracked, NoMark, MarkOf, Events
  <2>3. r \in Events /\ Truth(w, stage'[w], held', r) /\ Safe(stage'[w], inDoubt'[w], r)
    BY <1>2, <2>2 DEF MarksTold, Told
  <2>4. \A x \in Writes : new[x] = IF x = w THEN r ELSE mark[x]
    BY DEF TypeOK
  <2>5. \A x \in Writes : Truth(x, stage'[x], held', new[x]) /\ Safe(stage'[x], inDoubt'[x], new[x])
    BY <1>1, <2>3, <2>4 DEF MarksTold
  <2>6. MarksTold' /\ RefusedFailed'
    BY <1>3, <2>1, <2>5, UpdateTold
  <2>7. stage[w] # "none" /\ w \notin unrecorded
    BY <1>4 DEF KnownIsRecorded, Recorded
  <2>8. EarlyTold'
    <3>1. \A x \in Writes : stage'[x] = "none" => early'[x] = NoMark
      BY <2>1, <2>7 DEF EarlyTold
    <3>2. \A x \in unrecorded' : x \in Writes \ {w} /\ x \in unrecorded
      BY <2>7 DEF TypeOK
    <3>3. \A x \in unrecorded' : Truth(x, stage'[x], held', early'[x]) /\ Safe(stage'[x], inDoubt'[x], early'[x])
      BY <1>1, <2>1, <3>2 DEF EarlyTold
    <3>4. QED BY <3>1, <3>3 DEF EarlyTold, Told
  <2>9. Settled'
    <3>1. mark' = [x \in Writes |-> IF new[x] = Failed THEN NoMark ELSE new[x]]
      BY <2>1 DEF Update
    <3>2. ASSUME NEW x \in Writes, Current(x)', mark'[x].state \in Pending
          PROVE  stage'[x] \in {"queued", "submitting"}
      <4>1. CASE x = w
        <5>1. mark'[w] = r /\ r # Failed
          BY <2>4, <3>1, <3>2, <4>1 DEF Current, Tracked, NoMark, MarkOf
        <5>2. r.state \notin Committed
          BY <3>2, <4>1, <5>1 DEF Pending, Committed
        <5>3. e.state \notin Committed \cup {"failed"}
          BY <2>2, <5>1, <5>2, ApplyCommits DEF Reports
        <5>4. e.state \in Pending
          BY <5>3 DEF Reports, Events, Marks, Failed, MarkOf
        <5>5. QED BY <4>1, <5>4
      <4>2. CASE x # w
        <5>1. mark'[x] = mark[x]
          BY <2>4, <3>1, <3>2, <4>2 DEF TypeOK, Current, Tracked, NoMark, MarkOf
        <5>2. Current(x)
          BY <3>2, <5>1 DEF Current, Tracked, Up
        <5>3. QED BY <3>2, <4>2, <5>1, <5>2 DEF Settled
      <4>3. QED BY <4>1, <4>2
    <3>3. QED BY <3>2 DEF Settled
  <2>10. QED BY <2>6, <2>8, <2>9
<1>5. CASE ~Tracked(w)
  <2> DEFINE was == IF early[w] = NoMark THEN Fresh ELSE early[w]
             kept == [early EXCEPT ![w] = applyStatus(was, e)]
  <2>1. Buffer(w, e) /\ UNCHANGED <<mark, failures, diskVars, owed>>
    BY <1>5 DEF apply
  <2>2. \A x \in Writes : early'[x] \in {kept[x], NoMark}
    <3>1. kept \in [Writes -> Events \cup {NoMark}] /\ kept = [x \in Writes |-> kept[x]]
      BY ApplyStatusResult DEF TypeOK, Reports, Events, Fresh, MarkOf, Marks, Pending
    <3>2. \A y \in Writes : \A x \in Writes : [kept EXCEPT ![y] = NoMark][x] \in {kept[x], NoMark}
      BY <3>1
    <3>3. early' = kept \/ \E y \in Writes : early' = [kept EXCEPT ![y] = NoMark]
      BY <2>1 DEF Buffer
    <3>4. QED BY <3>2, <3>3
  <2>3. \A x \in Writes : kept[x] = IF x = w THEN applyStatus(was, e) ELSE early[x]
    BY DEF TypeOK
  <2>4. EarlyTold'
    <3>1. \A x \in Writes : stage'[x] = "none" => early'[x] = NoMark
      BY <2>2, <2>3 DEF EarlyTold
    <3>2. ASSUME NEW x \in unrecorded'
          PROVE  Truth(x, stage'[x], held', kept[x]) /\ Safe(stage'[x], inDoubt'[x], kept[x])
      <4>1. CASE x = w
        <5>1. stage[w] = "none" \/ w \in unrecorded
          BY <3>2, <4>1
        <5>2. Truth(w, stage[w], held, was)
          BY <5>1 DEF EarlyTold, Told, Truth, Fresh, MarkOf, Committed
        <5>3. was \in Events
          BY DEF TypeOK, Fresh, MarkOf, Marks, Events, Pending
        <5>4. QED BY <1>2, <2>3, <4>1, <5>2, <5>3
      <4>2. CASE x # w
        <5>1. x \in unrecorded /\ x \in Writes
          BY <3>2, <4>2 DEF TypeOK
        <5>2. QED BY <1>1, <2>3, <4>2, <5>1 DEF EarlyTold
      <4>3. QED BY <4>1, <4>2
    <3>3. \A x \in unrecorded' : Told(x, early[x])'
      <4>1. \A x \in Writes : Truth(x, stage'[x], held', NoMark) /\ Safe(stage'[x], inDoubt'[x], NoMark)
        BY DEF Truth, Safe, NoMark, MarkOf, Committed
      <4>2. unrecorded' \subseteq Writes
        BY DEF TypeOK
      <4>3. QED BY <2>2, <3>2, <4>1, <4>2 DEF Told
    <3>4. QED BY <3>1, <3>3 DEF EarlyTold
  <2>5. MarksTold'
    <3>1. \A x \in Writes \ {w} : Told(x, mark[x])'
      BY <1>1, <2>1 DEF MarksTold, Told
    <3>2. mark[w].state = "untracked"
      BY <1>5 DEF Tracked
    <3>3. QED BY <2>1, <3>1, <3>2 DEF MarksTold, Told, Truth, Safe, Committed
  <2>6. RefusedFailed'
    BY <1>3, <2>1 DEF RefusedFailed, diskVars
  <2>7. Settled'
    <3>1. ASSUME NEW x \in Writes, Current(x)', mark'[x].state \in Pending
          PROVE  stage'[x] \in {"queued", "submitting"}
      <4>1. x # w /\ Current(x)
        BY <1>5, <2>1, <3>1 DEF Current, Tracked, Up
      <4>2. QED BY <2>1, <3>1, <4>1 DEF Settled
    <3>2. QED BY <3>1 DEF Settled
  <2>8. QED BY <2>4, <2>5, <2>6, <2>7
<1>6. QED BY <1>4, <1>5

(* Marks that are dropped, and steps that leave the marks alone, keep what  *)
(* is said of a write so as long as the stack only moves as it may.         *)
StackKeeps ==
    \A w \in Writes :
        /\ stage[w] \in {"committed", "acknowledged"} => stage'[w] = stage[w]
        /\ stage[w] = "failed" => stage'[w] \in {"failed", "acknowledged"}
        /\ stage[w] \in {"none", "queued"} => stage'[w] = stage[w]
        /\ stage[w] = "submitting" => stage'[w] \in {"queued", "submitting"}
        /\ inDoubt'[w] => inDoubt[w] \/ stage[w] = "submitting"

LEMMA ToldStays ==
    ASSUME TypeOK, StackKeeps, held' = held, NEW w \in Writes, NEW m, Told(w, m)
    PROVE  Truth(w, stage'[w], held', m) /\ Safe(stage'[w], inDoubt'[w], m)
BY DEF StackKeeps, Told, Truth, Safe, TypeOK

LEMMA DroppedTold ==
    ASSUME TypeOK, TypeOK', MarksInv, StackKeeps, held' = held,
           \A w \in Writes : mark'[w] \in {mark[w], NoMark},
           \A w \in Writes : early'[w] \in {early[w], NoMark}, unrecorded' \subseteq unrecorded
    PROVE  MarksTold' /\ EarlyTold' /\ Refused \subseteq Refused'
<1>1. \A w \in Writes : Truth(w, stage'[w], held', NoMark) /\ Safe(stage'[w], inDoubt'[w], NoMark)
  BY DEF Truth, Safe, NoMark, MarkOf, Committed
<1>2. MarksTold'
  BY <1>1, ToldStays DEF MarksInv, MarksTold, Told
<1>3. EarlyTold'
  <2>1. \A w \in Writes : stage'[w] = "none" => early'[w] = NoMark
    BY DEF StackKeeps, MarksInv, EarlyTold, TypeOK
  <2>2. \A w \in unrecorded' : w \in Writes /\ w \in unrecorded
    BY DEF TypeOK
  <2>3. \A w \in unrecorded' : Truth(w, stage'[w], held', early'[w]) /\ Safe(stage'[w], inDoubt'[w], early'[w])
    BY <1>1, <2>2, ToldStays DEF MarksInv, EarlyTold
  <2>4. QED BY <2>1, <2>3 DEF EarlyTold, Told
<1>4. Refused \subseteq Refused'
  BY DEF StackKeeps, Refused
<1>5. QED BY <1>2, <1>3, <1>4

(* Marks that stay or are dropped stay settled while their strand does.     *)
LEMMA DroppedSettled ==
    ASSUME TypeOK, Settled, StackKeeps,
           \A w \in Writes : mark'[w] \in {mark[w], NoMark},
           \A s \in Strands : published'[s] /\ s \notin refreshing' => published[s] /\ s \notin refreshing
    PROVE  Settled'
<1>1. ASSUME NEW w \in Writes, Current(w)', mark'[w].state \in Pending
      PROVE  stage'[w] \in {"queued", "submitting"}
  <2>1. mark'[w] = mark[w]
    BY <1>1 DEF Current, Tracked, NoMark, MarkOf
  <2>2. StrandOf[w] \in Strands
    BY ConstantsAssumption
  <2>3. Current(w)
    BY <1>1, <2>1, <2>2 DEF Current, Tracked, Up
  <2>4. stage[w] \in {"queued", "submitting"}
    BY <1>1, <2>1, <2>3 DEF Settled
  <2>5. QED BY <2>4 DEF StackKeeps
<1>2. QED BY <1>1 DEF Settled

(* A node that stops leaves every mark as true as it was.                   *)
LEMMA NodeStopsStack ==
    ASSUME TypeOK, MarksInv, NodeStops
    PROVE  /\ StackKeeps /\ held' = held /\ StackAgrees'
           /\ \A s \in Strands : ~published'[s]
<1>1. \A w \in Writes : inDoubt'[w] <=> inDoubt[w] \/ stage[w] = "submitting"
  BY Zenon DEF NodeStops
<1>2. /\ held' = held /\ report' = [w \in Writes |-> "none"]
      /\ stage' = [w \in Writes |-> IF stage[w] = "submitting" THEN "queued" ELSE stage[w]]
      /\ published' = [s \in Strands |-> FALSE]
  BY DEF NodeStops
<1>3. StackKeeps
  BY <1>1, <1>2 DEF StackKeeps
<1>4. StackAgrees'
  BY <1>1, <1>2 DEF StackAgrees, MarksInv
<1>5. QED BY <1>2, <1>3, <1>4

(* A stack that does not move. *)
LEMMA StackStill ==
    ASSUME UNCHANGED stackVars
    PROVE  StackKeeps /\ held' = held /\ (StackAgrees => StackAgrees')
BY DEF stackVars, StackKeeps, StackAgrees

-----------------------------------------------------------------------------
(* The operations of the tracker. *)

(* The events that waited are of a write that is recorded now, and they and *)
(* the read of its strand are so.                                           *)
LEMMA ReplayedTold ==
    ASSUME TypeOK, KnownIsRecorded, MarksInv, NEW w \in unrecorded
    PROVE  LET m == Replayed(w, readNow(w, Fresh))
           IN /\ m \in Events /\ Told(w, m)
              /\ Up(w) /\ m.state \in Pending => stage[w] \in {"queued", "submitting"}
<1> DEFINE r == readNow(w, Fresh)
           a == applyStatus(r, early[w])
           u == MarkOf("unconfirmed", FALSE)
           m == Replayed(w, r)
<1>1. w \in Writes /\ stage[w] # "none" /\ Told(w, early[w])
  BY DEF TypeOK, KnownIsRecorded, MarksInv, EarlyTold
<1>2. Fresh \in Marks /\ Told(w, Fresh) /\ ~(Fresh.state = "waiting")
  BY DEF Fresh, MarkOf, Marks, Pending, Told, Truth, Safe, Committed
<1>3. /\ r \in Events /\ Told(w, r)
      /\ Up(w) /\ r.state \in Pending => stage[w] \in {"queued", "submitting"}
      /\ r.state \in Pending \cup Committed \cup {"failed"}
  BY <1>1, <1>2, ReadNowTold DEF MarksInv
<1>4. CASE early[w] = NoMark
  BY <1>3, <1>4 DEF Replayed
<1>5. CASE early[w] # NoMark
  <2>1. early[w] \in Events
    BY <1>1, <1>5 DEF TypeOK, Events
  <2>2. a \in Events /\ Told(w, a)
    BY <1>1, <1>3, <2>1, ApplyTold DEF Told
  <2>3. r.state \notin Pending => a.state \notin Pending
    <3>1. r.state \notin Pending => r.state \in Committed \cup {"failed"}
      BY <1>3
    <3>2. r.state \notin Pending => a = Failed \/ a.state \in Committed
      BY <1>3, <2>1, <3>1, ApplyCommits
    <3>3. QED BY <3>2 DEF Failed, MarkOf, Pending, Committed
  <2>4. CASE m = a
    BY <1>3, <2>2, <2>3, <2>4
  <2>5. CASE m = applyStatus(a, u) /\ early[w].state \in Committed
    <3>1. u \in Events /\ Told(w, u) /\ u.state \in Committed
      BY <1>1, <2>5 DEF MarkOf, Events, Marks, Committed, Told, Truth, Safe
    <3> HIDE DEF a, u, m
    <3>2. m \in Events /\ Told(w, m)
      BY <2>2, <2>5, <3>1, ApplyTold DEF Told
    <3>3. m.state \notin Pending
      BY <2>2, <2>5, <3>1, ApplyCommits DEF Failed, MarkOf, Pending, Committed
    <3>4. QED BY <3>2, <3>3 DEF m
  <2>6. m = a \/ (m = applyStatus(a, u) /\ early[w].state \in Committed)
    BY <1>5 DEF Replayed
  <2>7. QED BY <2>4, <2>5, <2>6
<1>6. QED BY <1>4, <1>5

LEMMA RecordTold ==
    ASSUME TypeOK, TypeOK', KnownIsRecorded, MarksInv, NEW w \in Writes, record(w)
    PROVE  MarksInv'
<1> DEFINE m == Replayed(w, readNow(w, Fresh))
<1>1. /\ w \in unrecorded /\ unrecorded' = unrecorded \ {w}
      /\ mark' = [mark EXCEPT ![w] = IF m = Failed THEN NoMark ELSE m]
      /\ failures' = IF m = Failed THEN failures \cup {w} ELSE failures
      /\ early' = [early EXCEPT ![w] = NoMark]
      /\ persist /\ UNCHANGED stackVars /\ UNCHANGED <<refreshing, loaded, loadText>>
  BY DEF record, loadVars
<1>2. /\ m \in Events /\ Told(w, m)
      /\ Up(w) /\ m.state \in Pending => stage[w] \in {"queued", "submitting"}
  BY <1>1, ReplayedTold
<1>3. \A x \in Writes : mark'[x] = IF x = w THEN IF m = Failed THEN NoMark ELSE m ELSE mark[x]
  BY <1>1 DEF TypeOK
<1>4. \A x \in Writes : early'[x] = IF x = w THEN NoMark ELSE early[x]
  BY <1>1 DEF TypeOK
<1>5. \A x \in Writes : Told(x, NoMark)
  BY DEF Told, Truth, Safe, NoMark, MarkOf, Committed
<1>6. \A x \in Writes : Told(x, mark'[x])
  BY <1>2, <1>3, <1>5 DEF MarksInv, MarksTold
<1>7. MarksTold'
  BY <1>1, <1>6 DEF MarksTold, Told, stackVars
<1>8. EarlyTold'
  <2>1. \A x \in unrecorded' : x \in Writes /\ Told(x, early'[x])
    BY <1>1, <1>4 DEF MarksInv, EarlyTold, TypeOK
  <2>2. QED BY <1>1, <1>4, <2>1 DEF MarksInv, EarlyTold, Told, stackVars
<1>9. RefusedFailed'
  <2>1. Refused' = Refused
    BY <1>1 DEF Refused, stackVars
  <2>2. m = Failed => w \in Refused
    BY <1>2 DEF Told, Truth, Failed, MarkOf, Refused
  <2>3. failures' \subseteq Refused'
    BY <1>1, <2>1, <2>2 DEF MarksInv, RefusedFailed
  <2>4. QED BY <1>1, <2>1, <2>3, PersistRefused DEF MarksInv
<1>10. Settled'
  <2>1. ASSUME NEW x \in Writes, Current(x)', mark'[x].state \in Pending
        PROVE  stage'[x] \in {"queued", "submitting"}
    <3>1. CASE x = w
      <4>1. mark'[w] = m
        BY <1>3, <2>1, <3>1 DEF Current, Tracked, NoMark, MarkOf
      <4>2. Up(w)
        BY <1>1, <2>1, <3>1 DEF Current, Up, stackVars
      <4>3. QED BY <1>1, <1>2, <2>1, <3>1, <4>1, <4>2 DEF stackVars
    <3>2. CASE x # w
      <4>1. mark'[x] = mark[x]
        BY <1>3, <3>2
      <4>2. QED BY <1>1, <2>1, <4>1 DEF MarksInv, Settled, Current, Tracked, Up, stackVars
    <3>3. QED BY <3>1, <3>2
  <2>2. QED BY <2>1 DEF Settled
<1>11. StackAgrees' /\ PublishedIsRead'
  BY <1>1 DEF MarksInv, StackAgrees, PublishedIsRead, stackVars
<1>12. QED BY <1>7, <1>8, <1>9, <1>10, <1>11 DEF MarksInv

(* Reading a strand again settles every write of it. *)
LEMMA RefreshTold ==
    ASSUME TypeOK, TypeOK', KnownIsRecorded, MarksInv, NEW s \in Strands, refresh(s)
    PROVE  MarksInv'
<1> DEFINE new == [w \in Writes |-> IF Tracked(w) /\ StrandOf[w] = s THEN readNow(w, mark[w]) ELSE mark[w]]
<1>1. /\ loaded /\ refreshing' = refreshing \ {s} /\ Update(new)
      /\ UNCHANGED stackVars /\ UNCHANGED <<unrecorded, early, loaded, loadText>>
  BY DEF refresh, loadVars
<1>2. new \in MarksNow
  BY RefreshTypes
<1>3. ASSUME NEW w \in Writes, Tracked(w)
      PROVE  /\ readNow(w, mark[w]) \in Events /\ Told(w, readNow(w, mark[w]))
             /\ Up(w) /\ readNow(w, mark[w]).state \in Pending => stage[w] \in {"queued", "submitting"}
  <2>1. mark[w] \in Marks
    BY <1>3 DEF TypeOK, Tracked, NoMark, MarkOf
  <2>2. stage[w] # "none" /\ Told(w, mark[w])
    BY <1>3 DEF KnownIsRecorded, Recorded, MarksInv, MarksTold
  <2>3. QED BY <2>1, <2>2, ReadNowTold DEF MarksInv
<1>4. \A w \in Writes : Told(w, new[w])
  BY <1>3 DEF MarksInv, MarksTold
<1>5. MarksTold' /\ RefusedFailed'
  <2>1. Refused' = Refused
    BY <1>1 DEF Refused, stackVars
  <2>2. \A w \in Writes : Truth(w, stage'[w], held', new[w]) /\ Safe(stage'[w], inDoubt'[w], new[w])
    BY <1>1, <1>4 DEF Told, stackVars
  <2>3. QED BY <1>1, <1>2, <2>1, <2>2, UpdateTold DEF MarksInv
<1>6. Settled'
  <2>1. ASSUME NEW w \in Writes, Current(w)', mark'[w].state \in Pending
        PROVE  stage'[w] \in {"queued", "submitting"}
    <3>1. mark'[w] = new[w]
      BY <1>1, <2>1 DEF Update, Current, Tracked, NoMark, MarkOf
    <3>2. Tracked(w) /\ Up(w)
      <4>1. ~Tracked(w) => new[w] = mark[w]
        OBVIOUS
      <4>2. QED BY <1>1, <2>1, <3>1, <4>1 DEF Current, Tracked, Up, stackVars
    <3>3. CASE StrandOf[w] = s
      BY <1>1, <1>3, <2>1, <3>1, <3>2, <3>3 DEF stackVars
    <3>4. CASE StrandOf[w] # s
      <4>1. mark'[w] = mark[w] /\ StrandOf[w] \notin refreshing
        BY <1>1, <2>1, <3>1, <3>4 DEF Current
      <4>2. QED BY <1>1, <2>1, <3>2, <4>1 DEF MarksInv, Settled, Current, stackVars
    <3>5. QED BY <3>3, <3>4
  <2>2. QED BY <2>1 DEF Settled
<1>7. EarlyTold' /\ StackAgrees' /\ PublishedIsRead'
  BY <1>1 DEF MarksInv, EarlyTold, Told, StackAgrees, PublishedIsRead, stackVars
<1>8. QED BY <1>5, <1>6, <1>7 DEF MarksInv

(* A row read from the slot is marked as waiting, and not yet relied on: a  *)
(* strand that is up before the slot was read is still to be refreshed.     *)
LEMMA LoadTold ==
    ASSUME TypeOK, TypeOK', MarksInv, load
    PROVE  MarksInv'
<1>1. /\ ~loaded /\ loaded' = TRUE /\ failures' = failures \cup loadText.failed
      /\ \A w \in Writes : mark'[w] \in {mark[w], MarkOf("waiting", FALSE)}
      /\ \A w \in Writes : mark'[w] # mark[w] => ~Tracked(w)
      /\ UNCHANGED stackVars /\ UNCHANGED <<unrecorded, early, refreshing, loadText, onDisk>>
  BY DEF load, diskVars, TypeOK
<1>2. MarksTold'
  <2>1. \A w \in Writes : Told(w, MarkOf("waiting", FALSE))
    BY DEF Told, Truth, Safe, MarkOf, Committed
  <2>2. \A w \in Writes : Told(w, mark'[w])
    BY <1>1, <2>1 DEF MarksInv, MarksTold
  <2>3. QED BY <1>1, <2>2 DEF MarksTold, Told, stackVars
<1>3. Settled'
  <2>1. ASSUME NEW w \in Writes, Current(w)', mark'[w].state \in Pending
        PROVE  stage'[w] \in {"queued", "submitting"}
    <3>1. Up(w) /\ StrandOf[w] \notin refreshing
      BY <1>1, <2>1 DEF Current, Up, stackVars
    <3>2. FALSE
      BY <1>1, <3>1, ConstantsAssumption DEF MarksInv, PublishedIsRead, Up
    <3>3. QED BY <3>2
  <2>2. QED BY <2>1 DEF Settled
<1>4. RefusedFailed'
  BY <1>1 DEF MarksInv, RefusedFailed, Refused, stackVars
<1>5. EarlyTold' /\ StackAgrees' /\ PublishedIsRead'
  BY <1>1 DEF MarksInv, EarlyTold, Told, StackAgrees, PublishedIsRead, stackVars
<1>6. QED BY <1>2, <1>3, <1>4, <1>5 DEF MarksInv

(* The process dies with every mark; what the slot lists as refused was.    *)
LEMMA CrashTold ==
    ASSUME TypeOK, TypeOK', MarksInv, Crash
    PROVE  MarksInv'
<1>1. /\ NodeStops /\ unrecorded' = {} /\ refreshing' = {} /\ failures' = {}
      /\ \A w \in Writes : mark'[w] = NoMark /\ early'[w] = NoMark
  BY DEF Crash
<1>2. PICK rows \in onDisk : loadText' = rows /\ onDisk' = {rows}
  BY DEF Crash
<1>3. /\ StackKeeps /\ held' = held /\ StackAgrees'
      /\ \A s \in Strands : ~published'[s]
  BY <1>1, NodeStopsStack
<1>4. MarksTold' /\ EarlyTold' /\ Refused \subseteq Refused'
  BY <1>1, <1>3, DroppedTold
<1>5. RefusedFailed'
  BY <1>1, <1>2, <1>4 DEF MarksInv, RefusedFailed
<1>6. Settled' /\ PublishedIsRead'
  BY <1>3, ConstantsAssumption DEF Settled, Current, Up, PublishedIsRead
<1>7. QED BY <1>3, <1>4, <1>5, <1>6 DEF MarksInv

(* A submission that backs off is in doubt or not, and its message says so. *)
LEMMA BackOffDoubt ==
    ASSUME inDoubt \in [Writes -> BOOLEAN], NEW w \in Writes, BackOff(w)
    PROVE  \E d \in BOOLEAN : inDoubt' = [inDoubt EXCEPT ![w] = d] /\ apply(w, MarkOf("waiting", ~d))
BY Zenon DEF BackOff

(* Every handler of a report of the stack. *)
LEMMA StackStepTold ==
    ASSUME TypeOK, TypeOK', KnownIsRecorded, MarksInv, NEW w \in Writes, Stack(w)
    PROVE  MarksInv'
<1> USE DEF trackerRest, loadVars
<1>1. /\ UNCHANGED <<published, refreshing, loaded, loadText>> /\ held \subseteq held'
      /\ \A x \in Writes \ {w} : stage'[x] = stage[x] /\ inDoubt'[x] = inDoubt[x] /\ report'[x] = report[x]
      /\ stage[w] \in {"committed", "failed", "acknowledged"} => stage'[w] = stage[w]
      /\ stage'[w] # "none"
      /\ unrecorded' = unrecorded \/ (stage[w] = "none" /\ unrecorded' = unrecorded \cup {w})
  <2>1. CASE WriteQueued(w)
    BY <2>1 DEF WriteQueued, TypeOK
  <2>2. CASE WriteOnline(w)
    BY <2>2 DEF WriteOnline, TypeOK
  <2>3. CASE Submit(w)
    BY <2>3 DEF Submit, TypeOK
  <2>4. CASE BackOff(w)
    BY <2>4 DEF BackOff, TypeOK
  <2>5. CASE Commit(w)
    BY <2>5 DEF Commit, TypeOK
  <2>6. CASE CommitHeld(w)
    BY <2>6 DEF CommitHeld, TypeOK
  <2>7. CASE Refuse(w) \/ discard(w)
    BY <2>7 DEF Refuse, discard, TypeOK
  <2>8. QED BY <2>1, <2>2, <2>3, <2>4, <2>5, <2>6, <2>7 DEF Stack
<1>2. PublishedIsRead'
  BY <1>1 DEF MarksInv, PublishedIsRead
<1>3. StackAgrees'
  <2>1. report'[w] = "elsewhere" => w \in held'
    <3>1. CASE WriteOnline(w) \/ Commit(w)
      <4>1. PICK r \in {"followed", "unfollowed", "elsewhere"} :
               /\ report' = [report EXCEPT ![w] = r]
               /\ held' = IF r = "elsewhere" THEN held \cup {w} ELSE held
        BY <3>1 DEF WriteOnline, Commit
      <4>2. report'[w] = r
        BY <4>1 DEF TypeOK
      <4>3. QED BY <4>1, <4>2
    <3>2. CASE CommitHeld(w)
      BY <3>2 DEF CommitHeld, TypeOK
    <3>3. CASE WriteQueued(w) \/ Submit(w) \/ BackOff(w) \/ Refuse(w) \/ discard(w)
      BY <3>3 DEF WriteQueued, Submit, BackOff, Refuse, discard, MarksInv, StackAgrees
    <3>4. QED BY <3>1, <3>2, <3>3 DEF Stack
  <2>2. QED BY <1>1, <2>1 DEF MarksInv, StackAgrees
<1>4. \E e \in Reports :
         /\ apply(w, e)
         /\ Truth(w, stage'[w], held', e) /\ Safe(stage'[w], inDoubt'[w], e)
         /\ e.state \in Pending => stage'[w] \in {"queued", "submitting"}
  <2>1. CASE WriteQueued(w)
    <3> DEFINE e == MarkOf("waiting", TRUE)
    <3>1. apply(w, e) /\ stage'[w] = "queued" /\ ~inDoubt'[w]
      BY <2>1 DEF WriteQueued, TypeOK, MarksInv, StackAgrees
    <3>2. e \in Reports /\ e.state = "waiting"
      BY DEF Reports, Events, Marks, Pending, MarkOf
    <3>3. QED BY <3>1, <3>2 DEF Truth, Safe, Committed
  <2>2. CASE WriteOnline(w) \/ Commit(w)
    <3>1. PICK r \in {"followed", "unfollowed", "elsewhere"} :
             /\ stage' = [stage EXCEPT ![w] = "committed"]
             /\ held' = IF r = "elsewhere" THEN held \cup {w} ELSE held
             /\ apply(w, MarkOf(committedState(r), FALSE))
      BY <2>2 DEF WriteOnline, Commit
    <3> DEFINE e == MarkOf(committedState(r), FALSE)
    <3>2. /\ e \in Reports /\ e.state \in Committed
          /\ e.state = "delivered" => r = "elsewhere"
      BY DEF Reports, Events, Marks, Committed, MarkOf, committedState
    <3>3. stage'[w] = "committed" /\ (e.state = "delivered" => w \in held')
      BY <3>1, <3>2 DEF TypeOK
    <3>4. e.state \notin Pending \cup {"failed", "waiting"}
      BY <3>2 DEF Committed, Pending
    <3>5. Truth(w, stage'[w], held', e) /\ Safe(stage'[w], inDoubt'[w], e)
      BY <3>3, <3>4 DEF Truth, Safe
    <3>6. QED BY <3>1, <3>2, <3>4, <3>5
  <2>3. CASE Submit(w)
    <3> DEFINE e == MarkOf("sending", FALSE)
    <3>1. apply(w, e) /\ stage'[w] = "submitting"
      BY <2>3 DEF Submit, TypeOK
    <3>2. e \in Reports /\ e.state = "sending"
      BY DEF Reports, Events, Marks, Pending, MarkOf
    <3>3. QED BY <3>1, <3>2 DEF Truth, Safe, Committed
  <2>4. CASE BackOff(w)
    <3>1. PICK d \in BOOLEAN : inDoubt' = [inDoubt EXCEPT ![w] = d] /\ apply(w, MarkOf("waiting", ~d))
      BY <2>4, BackOffDoubt DEF TypeOK
    <3> DEFINE e == MarkOf("waiting", ~d)
    <3>2. stage'[w] = "queued"
      BY <2>4 DEF BackOff, TypeOK
    <3>3. e \in Reports /\ e.state = "waiting"
      BY DEF Reports, Events, Marks, Pending, MarkOf
    <3>4. e.discardable => ~inDoubt'[w]
      <4>1. inDoubt'[w] = d
        BY <3>1 DEF TypeOK
      <4>2. e.discardable = ~d
        BY DEF MarkOf
      <4>3. QED BY <4>1, <4>2
    <3>5. QED BY <3>1, <3>2, <3>3, <3>4 DEF Truth, Safe, Committed
  <2>5. CASE CommitHeld(w)
    <3> DEFINE e == MarkOf("delivered", FALSE)
    <3>1. apply(w, e) /\ stage'[w] = "committed" /\ w \in held'
      BY <2>5 DEF CommitHeld, TypeOK
    <3>2. e \in Reports /\ e.state = "delivered"
      BY DEF Reports, Events, Marks, Committed, MarkOf
    <3>3. QED BY <3>1, <3>2 DEF Truth, Safe, Pending
  <2>6. CASE Refuse(w) \/ discard(w)
    <3>1. apply(w, Failed) /\ stage'[w] = "failed"
      BY <2>6 DEF Refuse, discard, TypeOK
    <3>2. Failed \in Reports /\ Failed.state = "failed"
      BY DEF Reports, Events, Failed, MarkOf
    <3>3. QED BY <3>1, <3>2 DEF Truth, Safe, Pending, Committed
  <2>7. QED BY <2>1, <2>2, <2>3, <2>4, <2>5, <2>6 DEF Stack
<1>5. MarksTold' /\ EarlyTold' /\ RefusedFailed' /\ Settled'
  BY <1>1, <1>4, StackTold
<1>6. QED BY <1>2, <1>3, <1>5 DEF MarksInv

(* The inductive invariant holds in every reachable state. *)
THEOREM MarksStayTold == Spec => []MarksInv
<1>1. Init => MarksInv
  <2> SUFFICES ASSUME Init
               PROVE  MarksInv
    OBVIOUS
  <2>1. MarksTold /\ EarlyTold
    BY DEF Init, MarksTold, EarlyTold, Told, Truth, Safe, NoMark, MarkOf, Committed
  <2>2. RefusedFailed /\ StackAgrees /\ PublishedIsRead
    BY DEF Init, RefusedFailed, StackAgrees, PublishedIsRead, NoRows
  <2>3. Settled
    BY DEF Init, Settled, Current, Tracked, NoMark, MarkOf
  <2>4. QED BY <2>1, <2>2, <2>3 DEF MarksInv
<1>2. TypeOK /\ TypeOK' /\ RowsAreKept /\ MarksInv /\ [Next]_vars => MarksInv'
  <2> SUFFICES ASSUME TypeOK, TypeOK', KnownIsRecorded, MarksInv, [Next]_vars
               PROVE  MarksInv'
    BY DEF RowsAreKept
  <2> USE DEF loadVars, diskVars
  <2>1. ASSUME NEW w \in Writes, Stack(w)
        PROVE  MarksInv'
    BY <2>1, StackStepTold
  <2>2. ASSUME NEW w \in Writes, record(w)
        PROVE  MarksInv'
    BY <2>2, RecordTold
  <2>3. ASSUME NEW w \in Writes, DeliveredTimer(w)
        PROVE  MarksInv'
    <3>1. /\ UNCHANGED stackVars /\ UNCHANGED <<unrecorded, failures, early, refreshing, loaded, loadText>>
          /\ \A x \in Writes : mark'[x] \in {mark[x], NoMark}
          /\ persist
      BY <2>3 DEF DeliveredTimer, TypeOK
    <3>2. StackKeeps /\ held' = held /\ StackAgrees'
      BY <3>1, StackStill DEF MarksInv
    <3>3. MarksTold' /\ EarlyTold' /\ Refused \subseteq Refused'
      BY <3>1, <3>2, DroppedTold
    <3>4. RefusedFailed'
      BY <3>1, <3>3, PersistRefused DEF MarksInv, RefusedFailed
    <3>5. published' = published
      BY <3>1 DEF stackVars
    <3>6. PublishedIsRead' /\ Settled'
      BY <3>1, <3>2, <3>5, DroppedSettled DEF MarksInv, PublishedIsRead
    <3>7. QED BY <3>2, <3>3, <3>4, <3>6 DEF MarksInv
  <2>4. ASSUME NEW w \in Writes, dismiss(w)
        PROVE  MarksInv'
    <3>1. /\ UNCHANGED <<inDoubt, report, held, published>>
          /\ UNCHANGED <<unrecorded, mark, early, refreshing, loaded, loadText>>
          /\ failures' \subseteq failures /\ persist
          /\ \A x \in Writes : stage'[x] = stage[x] \/ (stage[x] = "failed" /\ stage'[x] = "acknowledged")
      BY <2>4 DEF dismiss, TypeOK
    <3>2. StackKeeps /\ held' = held /\ StackAgrees'
      BY <3>1 DEF StackKeeps, StackAgrees, MarksInv
    <3>3. MarksTold' /\ EarlyTold' /\ Refused \subseteq Refused'
      BY <3>1, <3>2, DroppedTold
    <3>4. RefusedFailed'
      BY <3>1, <3>3, PersistRefused DEF MarksInv, RefusedFailed
    <3>5. PublishedIsRead' /\ Settled'
      BY <3>1, <3>2, DroppedSettled DEF MarksInv, PublishedIsRead
    <3>6. QED BY <3>2, <3>3, <3>4, <3>5 DEF MarksInv
  <2>5. ASSUME NEW s \in Strands, QueueState(s)
        PROVE  MarksInv'
    <3>1. /\ UNCHANGED <<stage, inDoubt, report, held>>
          /\ UNCHANGED <<unrecorded, mark, failures, early, loaded, loadText, onDisk>>
          /\ refreshing' = refreshing \cup {s}
          /\ \A x \in Strands : x # s => published'[x] = published[x]
      BY <2>5 DEF QueueState, TypeOK
    <3>2. StackKeeps /\ held' = held /\ StackAgrees'
      BY <3>1 DEF StackKeeps, StackAgrees, MarksInv
    <3>3. MarksTold' /\ EarlyTold' /\ Refused \subseteq Refused'
      BY <3>1, <3>2, DroppedTold
    <3>4. RefusedFailed'
      BY <3>1, <3>3 DEF MarksInv, RefusedFailed
    <3>5. \A x \in Strands : published'[x] /\ x \notin refreshing' => published[x] /\ x \notin refreshing
      BY <3>1
    <3>6. PublishedIsRead' /\ Settled'
      BY <3>1, <3>2, <3>5, DroppedSettled DEF MarksInv, PublishedIsRead
    <3>7. QED BY <3>2, <3>3, <3>4, <3>6 DEF MarksInv
  <2>6. ASSUME NEW s \in Strands, refresh(s)
        PROVE  MarksInv'
    BY <2>6, RefreshTold
  <2>7. ASSUME NEW s \in Strands, forgetStrand(s)
        PROVE  MarksInv'
    <3>1. /\ UNCHANGED <<stage, inDoubt, report, held>>
          /\ UNCHANGED <<unrecorded, early, refreshing, loaded, loadText>>
          /\ \A x \in Writes : mark'[x] \in {mark[x], NoMark}
          /\ failures' \subseteq failures /\ persist
          /\ \A x \in Strands : published'[x] => published[x]
      BY <2>7 DEF forgetStrand, TypeOK
    <3>2. StackKeeps /\ held' = held /\ StackAgrees'
      BY <3>1 DEF StackKeeps, StackAgrees, MarksInv
    <3>3. MarksTold' /\ EarlyTold' /\ Refused \subseteq Refused'
      BY <3>1, <3>2, DroppedTold
    <3>4. RefusedFailed'
      BY <3>1, <3>3, PersistRefused DEF MarksInv, RefusedFailed
    <3>5. PublishedIsRead' /\ Settled'
      BY <3>1, <3>2, DroppedSettled DEF MarksInv, PublishedIsRead
    <3>6. QED BY <3>2, <3>3, <3>4, <3>5 DEF MarksInv
  <2>8. CASE NodeRestart
    <3>1. NodeStops /\ UNCHANGED <<unrecorded, mark, failures, early, refreshing, loaded, loadText, onDisk>>
      BY <2>8 DEF NodeRestart
    <3>2. /\ StackKeeps /\ held' = held /\ StackAgrees'
          /\ \A s \in Strands : ~published'[s]
      BY <3>1, NodeStopsStack
    <3>3. MarksTold' /\ EarlyTold' /\ Refused \subseteq Refused'
      BY <3>1, <3>2, DroppedTold
    <3>4. RefusedFailed'
      BY <3>1, <3>3 DEF MarksInv, RefusedFailed
    <3>5. PublishedIsRead' /\ Settled'
      BY <3>2, ConstantsAssumption DEF Settled, Current, Up, PublishedIsRead
    <3>6. QED BY <3>2, <3>3, <3>4, <3>5 DEF MarksInv
  <2>9. CASE Crash
    BY <2>9, CrashTold
  <2>10. CASE SaveLands \/ UNCHANGED vars
    <3>1. /\ UNCHANGED stackVars
          /\ UNCHANGED <<unrecorded, mark, failures, early, refreshing, loaded, loadText>>
          /\ onDisk' \subseteq onDisk
      BY <2>10 DEF SaveLands, vars, TypeOK
    <3>2. RefusedFailed'
      BY <3>1 DEF MarksInv, RefusedFailed, Refused, stackVars
    <3>3. (MarksTold /\ EarlyTold /\ StackAgrees /\ PublishedIsRead /\ Settled)'
      BY <3>1 DEF MarksInv, MarksTold, EarlyTold, Told, StackAgrees, PublishedIsRead, Settled, Current,
                  Tracked, Up, stackVars
    <3>4. QED BY <3>2, <3>3 DEF MarksInv
  <2>11. CASE load
    BY <2>11, LoadTold
  <2>12. QED
    BY <2>1, <2>2, <2>3, <2>4, <2>5, <2>6, <2>7, <2>8, <2>9, <2>10, <2>11 DEF Next, Tracker, Strand
<1>3. QED BY <1>1, <1>2, TypeCorrect, RowsStayKept, PTL DEF Spec

-----------------------------------------------------------------------------
(* No mark says more than what happened to its write, through events,       *)
(* replays, reads, reloads and restarts (applyStatus, readNow, load).       *)
THEOREM MarksTellTheTruth == Spec => []MarksAreTrue
<1>1. MarksInv => MarksAreTrue
  BY DEF MarksInv, MarksTold, RefusedFailed, Refused, Told, Truth, MarksAreTrue
<1>2. QED BY <1>1, MarksStayTold, PTL

(* A withdrawal is offered of no message an attempt may have delivered      *)
(* (the `discardable` flag of offline.status and of the waiting event).     *)
THEOREM OfferedWithdrawalIsSafe == Spec => []WithdrawalIsSafe
<1>1. MarksInv => WithdrawalIsSafe
  BY DEF MarksInv, MarksTold, Told, Safe, WithdrawalIsSafe
<1>2. QED BY <1>1, MarksStayTold, PTL

(* A mark of a strand that is up and read is on its way exactly while the   *)
(* queue has the write (QueueState's refresh after load).                   *)
THEOREM PendingAgreesWithQueue == Spec => []PendingAgrees
<1>1. TypeOK /\ MarksInv => PendingAgrees
  <2> SUFFICES ASSUME TypeOK, MarksInv, NEW w \in Writes, Current(w)
               PROVE  mark[w].state \in Pending <=> stage[w] \in {"queued", "submitting"}
    BY DEF PendingAgrees
  <2>1. mark[w].state \in Pending \cup Committed
    BY DEF Current, Tracked, TypeOK, Marks, NoMark, MarkOf
  <2>2. mark[w].state \in Committed => stage[w] \in {"committed", "acknowledged"}
    BY DEF MarksInv, MarksTold, Told, Truth
  <2>3. QED BY <2>1, <2>2 DEF MarksInv, Settled
<1>2. QED BY <1>1, TypeCorrect, MarksStayTold, PTL

(* A mark that is committed and stays does not go back.                     *)
NoRetreat(w) == mark[w].state \in Committed /\ Tracked(w)' => rank(mark'[w].state) >= rank(mark[w].state)

LEMMA UntouchedStays ==
    ASSUME NEW w \in Writes, mark'[w] = mark[w] \/ ~Tracked(w) \/ mark'[w] = NoMark
    PROVE  NoRetreat(w)
BY DEF NoRetreat, Tracked, NoMark, MarkOf, rank, ORDER, Committed

(* The marks Update makes go on as the new ones do. *)
LEMMA UpdateNoRetreat ==
    ASSUME NEW new \in MarksNow, Update(new), NEW w \in Writes,
           mark[w].state \in Committed /\ new[w] # Failed => rank(new[w].state) >= rank(mark[w].state)
    PROVE  NoRetreat(w)
BY DEF Update, NoRetreat, Tracked, NoMark, MarkOf

(* A report never takes a committed mark back. *)
LEMMA ApplyNoRetreat ==
    ASSUME TypeOK, NEW w \in Writes, NEW e \in Events, apply(w, e), NEW x \in Writes
    PROVE  NoRetreat(x)
<1>1. CASE Tracked(w)
  <2> DEFINE new == [mark EXCEPT ![w] = applyStatus(@, e)]
  <2>1. Update(new) /\ new \in MarksNow
    BY <1>1, AppliedTypes DEF apply
  <2>2. mark[w] \in Events
    BY <1>1 DEF TypeOK, Tracked, NoMark, MarkOf, Events
  <2>3. CASE x = w
    <3>1. new[x] = applyStatus(mark[w], e)
      BY <2>3 DEF TypeOK
    <3>2. QED BY <2>1, <2>2, <2>3, <3>1, ApplyCommits, UpdateNoRetreat
  <2>4. CASE x # w
    <3>1. new[x] = mark[x]
      BY <2>4 DEF TypeOK
    <3>2. mark'[x] \in {mark[x], NoMark}
      BY <2>1, <3>1 DEF Update
    <3>3. QED BY <3>2, UntouchedStays
  <2>5. QED BY <2>3, <2>4
<1>2. CASE ~Tracked(w)
  BY <1>2, UntouchedStays DEF apply
<1>3. QED BY <1>1, <1>2

(* Reading a strand again does not either. *)
LEMMA RefreshNoRetreat ==
    ASSUME TypeOK, KnownIsRecorded, MarksInv, NEW s \in Strands, refresh(s), NEW x \in Writes
    PROVE  NoRetreat(x)
<1> DEFINE new == [w \in Writes |-> IF Tracked(w) /\ StrandOf[w] = s THEN readNow(w, mark[w]) ELSE mark[w]]
<1>1. Update(new) /\ new \in MarksNow
  BY RefreshTypes DEF refresh
<1>2. CASE Tracked(x) /\ StrandOf[x] = s
  <2>1. mark[x] \in Marks
    BY <1>2 DEF TypeOK, Tracked, NoMark, MarkOf
  <2>2. stage[x] # "none" /\ Told(x, mark[x])
    BY <1>2 DEF KnownIsRecorded, Recorded, MarksInv, MarksTold
  <2>3. new[x] = readNow(x, mark[x])
    BY <1>2
  <2>4. mark[x].state \in Committed /\ new[x] # Failed => rank(new[x].state) >= rank(mark[x].state)
    BY <2>1, <2>2, <2>3, ReadNowTold DEF MarksInv
  <2>5. QED BY <1>1, <2>4, UpdateNoRetreat
<1>3. CASE ~(Tracked(x) /\ StrandOf[x] = s)
  <2>1. new[x] = mark[x]
    BY <1>3
  <2>2. mark'[x] \in {mark[x], NoMark}
    BY <1>1, <2>1 DEF Update
  <2>3. QED BY <2>2, UntouchedStays
<1>4. QED BY <1>2, <1>3

(* No step takes a committed mark back to an earlier state: late events,    *)
(* replays of the buffer and reads of the strand included (setState's rank, *)
(* record's and load's checks that a write is not tracked).                 *)
THEOREM CommittedMarksStay == Spec => NeverRetreats
<1>1. TypeOK /\ KnownIsRecorded /\ MarksInv /\ [Next]_vars
        => [\A w \in Writes : mark[w].state \in Committed /\ Tracked(w)'
               => rank(mark'[w].state) >= rank(mark[w].state)]_vars
  <2> SUFFICES ASSUME TypeOK, KnownIsRecorded, MarksInv, [Next]_vars, NEW x \in Writes
               PROVE  NoRetreat(x)
    BY DEF NoRetreat
  <2>1. ASSUME NEW w \in Writes, Stack(w)
        PROVE  NoRetreat(x)
    <3>1. /\ Failed \in Events
          /\ \A d \in BOOLEAN, s \in Committed \cup {"waiting", "sending"} : MarkOf(s, d) \in Events
      BY DEF Events, Marks, MarkOf, Failed, Pending, Committed
    <3>2. \A r : committedState(r) \in Committed
      BY CommittedStateResult
    <3>3. \E e \in Events : apply(w, e)
      <4>1. CASE WriteQueued(w) \/ Submit(w) \/ Refuse(w) \/ discard(w) \/ CommitHeld(w)
        BY <3>1, <4>1 DEF WriteQueued, Submit, Refuse, discard, CommitHeld, Committed
      <4>2. CASE WriteOnline(w) \/ Commit(w)
        BY <3>1, <3>2, <4>2 DEF WriteOnline, Commit
      <4>3. CASE BackOff(w)
        <5>1. PICK d \in BOOLEAN : apply(w, MarkOf("waiting", ~d))
          BY <4>3, BackOffDoubt DEF TypeOK
        <5>2. (~d) \in BOOLEAN
          OBVIOUS
        <5>3. QED BY <3>1, <5>1, <5>2
      <4>4. QED BY <2>1, <4>1, <4>2, <4>3 DEF Stack
    <3>4. QED BY <3>3, ApplyNoRetreat
  <2>2. ASSUME NEW w \in Writes, record(w)
        PROVE  NoRetreat(x)
    <3>1. ~Tracked(w)
      BY <2>2 DEF record, KnownIsRecorded, Recorded
    <3>2. x # w => mark'[x] = mark[x]
      BY <2>2 DEF record, TypeOK
    <3>3. QED BY <3>1, <3>2, UntouchedStays
  <2>3. ASSUME NEW w \in Writes, DeliveredTimer(w) \/ dismiss(w)
        PROVE  NoRetreat(x)
    BY <2>3, UntouchedStays DEF DeliveredTimer, dismiss, TypeOK
  <2>4. ASSUME NEW s \in Strands, refresh(s)
        PROVE  NoRetreat(x)
    BY <2>4, RefreshNoRetreat
  <2>5. ASSUME NEW s \in Strands, QueueState(s) \/ forgetStrand(s)
        PROVE  NoRetreat(x)
    BY <2>5, UntouchedStays DEF QueueState, forgetStrand
  <2>6. CASE load
    BY <2>6, UntouchedStays DEF load
  <2>7. CASE NodeRestart \/ Crash \/ SaveLands \/ UNCHANGED vars
    BY <2>7, UntouchedStays DEF NodeRestart, Crash, SaveLands, vars
  <2>8. QED
    BY <2>1, <2>2, <2>3, <2>4, <2>5, <2>6, <2>7 DEF Next, Tracker, Strand
<1>2. RowsAreKept => KnownIsRecorded
  BY DEF RowsAreKept
<1>3. QED BY <1>1, <1>2, TypeCorrect, RowsStayKept, MarksStayTold, PTL DEF Spec, NeverRetreats
=============================================================================
