-------------------------------- MODULE Marks --------------------------------
(***************************************************************************)
(* Which write a mark is about.  The tracker (module Delivery) follows     *)
(* every write of this device; a message is marked with its latest send or *)
(* edit, a reaction with its latest adding, by the clock each write was    *)
(* recorded at, and a withdrawal takes back a write of the message that    *)
(* waits.  The list reads its marks message by message, the store of a     *)
(* conversation reads them all at once, and shows both.                    *)
(*                                                                         *)
(* The queue (external) sends the writes in the order they were made.      *)
(***************************************************************************)
EXTENDS Naturals, Sequences, FiniteSetsExt, SequencesExt

CONSTANTS
    Messages,
    MaxMarked,       \* bound on the writes followed
    MaxClock         \* bound on the clock

\* What the constants have to be; the modules that compose this one assume it.
MarksConstants == MaxMarked \in Nat /\ MaxClock \in Nat

VARIABLES
    byTx,            \* the writes followed, in the order they were recorded
    clock,           \* of the device
    made,            \* history: how many writes there were
    latest,          \* history: the last write of each thing marked
    turnedBack,      \* history: the clock was set back
    withdrawn        \* history: the last withdrawal: the write marked, the one taken back, and
                     \* whether another of the message waited

marksVars == <<byTx, clock, made, latest, turnedBack, withdrawn>>

Kinds == {"send", "edit", "delete", "react", "unreact"}
Tracked == [tx : 1 .. MaxMarked, message : Messages, kind : Kinds, at : 0 .. MaxClock,
            state : {"waiting", "sending", "unconfirmed", "delivered"}]

\* What a mark is on: the message itself, or this device's reaction to it.
Marked(kind) == CASE kind \in {"send", "edit"} -> "text" [] kind = "react" -> "reaction" [] OTHER -> "none"
Key(t) == <<Marked(t.kind), t.message>>
Keys == {"text", "reaction"} \X Messages

NoWrite == [tx |-> 0, message |-> "none", kind |-> "none", at |-> 0, state |-> "none"]
Later(seen, t) == IF seen = NoWrite \/ t.at >= seen.at THEN t ELSE seen

\* messageDelivery and reactionDelivery: what the list reads, one thing at a time.
messageDelivery(key) ==
    LET seen[n \in 0 .. Len(byTx)] ==
            IF n = 0 THEN NoWrite
            ELSE IF Key(byTx[n]) = key THEN Later(seen[n - 1], byTx[n]) ELSE seen[n - 1]
    IN  seen[Len(byTx)]

\* deliveries: what the store reads, all in one pass.
deliveries ==
    LET marks[n \in 0 .. Len(byTx)] ==
            IF n = 0 THEN [key \in Keys |-> NoWrite]
            ELSE IF Key(byTx[n]) \in Keys
            THEN [marks[n - 1] EXCEPT ![Key(byTx[n])] = Later(@, byTx[n])] ELSE marks[n - 1]
    IN  marks[Len(byTx)]

Waiting(t) == t.state = "waiting"

\* The first write of the message that waits, whatever it does to it.
waitingWriteOf(m) ==
    LET waiting == {i \in DOMAIN byTx : byTx[i].message = m /\ Waiting(byTx[i])}
    IN  IF waiting = {} THEN NoWrite ELSE byTx[Min(waiting)]

NotWithdrawn == [marked |-> 0, taken |-> 0, others |-> FALSE]

MarksTypeOK ==
    /\ byTx \in Seq(Tracked) /\ clock \in 0 .. MaxClock /\ made \in 0 .. MaxMarked
    /\ latest \in [Keys -> 0 .. MaxMarked] /\ turnedBack \in BOOLEAN
    /\ withdrawn \in [marked : 0 .. MaxMarked, taken : 0 .. MaxMarked, others : BOOLEAN]

MarksInit ==
    /\ byTx = <<>> /\ clock = 0 /\ made = 0 /\ latest = [key \in Keys |-> 0]
    /\ turnedBack = FALSE /\ withdrawn = NotWithdrawn

\* record: a write joins those that are followed.
Write(m, kind) ==
    /\ made < MaxMarked /\ made' = made + 1
    /\ byTx' = Append(byTx, [tx |-> made', message |-> m, kind |-> kind, at |-> clock,
                             state |-> "waiting"])
    /\ latest' = IF Marked(kind) = "none" THEN latest ELSE [latest EXCEPT ![<<Marked(kind), m>>] = made']
    /\ UNCHANGED <<clock, turnedBack, withdrawn>>

\* The clock of a phone goes on, and is set back by its network or its user.
ClockMoves ==
    /\ clock' \in (0 .. MaxClock) \ {clock} /\ turnedBack' = (turnedBack \/ clock' < clock)
    /\ UNCHANGED <<byTx, made, latest, withdrawn>>

Moves(i, state) ==
    /\ byTx' = [byTx EXCEPT ![i].state = state]
    /\ UNCHANGED <<clock, made, latest, turnedBack, withdrawn>>

LetGo(i) ==
    /\ byTx' = RemoveAt(byTx, i) /\ UNCHANGED <<clock, made, latest, turnedBack>>

\* The queue sends, in order; a write that was committed may not be known to be held elsewhere.
Submitted(i) ==
    Waiting(byTx[i]) /\ (\A j \in 1 .. i - 1 : byTx[j].state \notin {"waiting", "sending"})
        /\ Moves(i, "sending")
Committed(i) == byTx[i].state = "sending" /\ \E s \in {"unconfirmed", "delivered"} : Moves(i, s)
CommitHeld(i) == byTx[i].state = "unconfirmed" /\ Moves(i, "delivered")

\* Refused, or delivered a minute ago: no longer followed.
Ended(i) == byTx[i].state \in {"sending", "delivered"} /\ LetGo(i) /\ UNCHANGED withdrawn

\* The user withdraws a message that is marked as one that can be.
Discard(m) ==
    LET marked == deliveries[<<"text", m>>]
        taken == waitingWriteOf(m)
    IN  /\ Waiting(marked)
        /\ withdrawn' = [marked |-> marked.tx, taken |-> taken.tx,
                         others |-> \E i \in DOMAIN byTx : byTx[i].message = m /\ Waiting(byTx[i])
                                                          /\ byTx[i].tx # marked.tx]
        /\ \E i \in DOMAIN byTx : byTx[i].tx = taken.tx /\ LetGo(i)

\* A restart keeps what was not sent, in the same order.
Restart ==
    LET kept[n \in 0 .. Len(byTx)] ==
            IF n = 0 THEN <<>>
            ELSE IF byTx[n].state \in {"waiting", "sending"}
            THEN Append(kept[n - 1], [byTx[n] EXCEPT !.state = "waiting"]) ELSE kept[n - 1]
    IN  /\ byTx' = kept[Len(byTx)]
        /\ UNCHANGED <<clock, made, latest, turnedBack, withdrawn>>

MarksNext ==
    \/ \E m \in Messages : Discard(m) \/ \E kind \in Kinds : Write(m, kind)
    \/ \E i \in DOMAIN byTx : Submitted(i) \/ Committed(i) \/ CommitHeld(i) \/ Ended(i)
    \/ ClockMoves \/ Restart

(***************************************************************************)
(* Properties.                                                             *)
(***************************************************************************)

\* The two readings of the marks agree (delivery.ts:149-185), so the store may lay the one over the
\* other (chat.ts:213): whatever the order of the writes, their kinds and their clocks.
MarksAgree == \A key \in Keys : messageDelivery(key) = deliveries[key]

\* "Each message's latest send or edit" (delivery.ts:148): while the last write of a thing is
\* followed, the mark is that write's.  The exception: the clock was set back between two of them.
MarkIsOfTheLast ==
    \A key \in Keys :
        (~turnedBack /\ \E i \in DOMAIN byTx : byTx[i].tx = latest[key]) =>
            deliveries[key].tx = latest[key]

\* "Withdraw a message still waiting to send" (model/messages.ts:118): the write taken back is the
\* one that was marked.  The exception: another write of the message waited too, a reaction of one's
\* own among them, and the first of them is taken back instead.
WithdrawnIsMarked == withdrawn.taken = withdrawn.marked \/ withdrawn.others

MarksAreRead == MarksAgree /\ MarkIsOfTheLast /\ WithdrawnIsMarked
=============================================================================
