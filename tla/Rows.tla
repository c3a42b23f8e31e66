-------------------------------- MODULE Rows --------------------------------
(***************************************************************************)
(* A conversation as its screen lays it out: the messages of the last read *)
(* and those sent since, with a line where a day begins, the name of who   *)
(* said it over the first message of a run, the time under the last, and   *)
(* the message a reply is to; or that nothing was said, or a spinner.      *)
(*                                                                         *)
(* A message carries the time its sender asserted (a time here is a        *)
(* stretch of minutes): what another member says may sort before messages  *)
(* already there.  The strand is external; a read is one action.           *)
(***************************************************************************)
EXTENDS Naturals, FiniteSets, SequencesExt

CONSTANTS
    Members,        \* of the strand, more than two
    Me,             \* this device's
    Talkers,        \* of the others, those who say something
    Unknown,        \* the empty member id
    MaxSaid,        \* bound on the messages: the n-th to be said is n
    ReadLimit,      \* how many messages a read lists (100 in the code)
    GroupGap,       \* messages this far apart are not of one run
    DayEnds         \* the first time of the next day, the last one here

\* What the constants have to be; the modules that compose this one assume it.
RowsConstants ==
    /\ Me \in Members /\ Talkers \subseteq Members \ {Me} /\ Unknown \notin Members /\ Cardinality(Members) > 2
    /\ {MaxSaid, ReadLimit, GroupGap, DayEnds} \subseteq Nat /\ ReadLimit # 0

VARIABLES
    said,           \* the strand's messages, by time
    count,          \* how many were ever said
    now,
    listed,         \* what the last read listed
    ready,          \* a read answered: the members are known
    page,           \* how the last read ended: not yet, failed, not open, ready
    readError,      \* it failed
    actionError,    \* what the user did last failed
    readAt,         \* history: how many had been said when the list was read
    justSent,       \* stored messages not read back yet
    sendings        \* messages being sent

rowVars == <<said, count, now, listed, ready, page, readError, actionError, readAt, justSent,
             sendings>>
pageVars == <<listed, ready, page, readError, actionError, readAt>>

\* A message: re is the one it replies to, or 0.
Said == [id : 1 .. MaxSaid, by : Members \cup {Unknown}, at : 0 .. DayEnds, re : 0 .. MaxSaid]

RowsTypeOK ==
    /\ said \in Seq(Said) /\ listed \in Seq(Said) /\ justSent \in Seq(Said) /\ sendings \in Seq(Said)
    /\ count \in 0 .. MaxSaid /\ now \in 0 .. DayEnds /\ readAt \in 0 .. MaxSaid
    /\ {ready, readError, actionError} \subseteq BOOLEAN
    /\ page \in {"loading", "failed", "opening", "ready"}

RowsInit ==
    /\ said = <<>> /\ count = 0 /\ now = 0 /\ listed = <<>> /\ ready = FALSE
    /\ page = "loading" /\ readError = FALSE /\ actionError = FALSE /\ readAt = 0
    /\ justSent = <<>> /\ sendings = <<>>

Ids(messages) == {m.id : m \in ToSet(messages)}

\* The messages with one more among them, by its time.
WithMessage(messages, m) ==
    InsertAt(messages, Cardinality({i \in DOMAIN messages : messages[i].at <= m.at}) + 1, m)

\* The messages that are not among others, in their order.
Without(messages, others) ==
    LET kept[n \in 0 .. Len(messages)] ==
            IF n = 0 THEN <<>>
            ELSE IF messages[n].id \in Ids(others) THEN kept[n - 1]
            ELSE Append(kept[n - 1], messages[n])
    IN  kept[Len(messages)]

TimePasses ==
    /\ now < DayEnds /\ now' = now + 1
    /\ UNCHANGED <<said, count, pageVars, justSent, sendings>>

\* Another member said something, now or before, and it arrives.
Says(by, at, re) ==
    /\ count < MaxSaid /\ count' = count + 1
    /\ said' = WithMessage(said, [id |-> count', by |-> by, at |-> at, re |-> re])
    /\ UNCHANGED <<now, pageVars, justSent, sendings>>

Removed(i) ==
    /\ said' = RemoveAt(said, i)
    /\ UNCHANGED <<count, now, pageVars, justSent, sendings>>

\* The newest are read, oldest first; what is read back is no longer kept as just sent.
Read ==
    /\ listed' = SubSeq(said, IF Len(said) > ReadLimit THEN Len(said) - ReadLimit + 1 ELSE 1, Len(said))
    /\ ready' = TRUE /\ page' = "ready" /\ readError' = FALSE /\ readAt' = count
    /\ justSent' = Without(justSent, listed')
    /\ UNCHANGED <<said, count, now, actionError, sendings>>

\* The strand is not open: what was read before is kept.
ReadNotOpen ==
    /\ page' = "opening" /\ readError' = FALSE
    /\ UNCHANGED <<said, count, now, listed, ready, actionError, readAt, justSent, sendings>>

\* A read that fails leaves what was read, when something was.
ReadFails ==
    /\ page' = IF page = "loading" THEN "failed" ELSE page
    /\ readError' = TRUE
    /\ UNCHANGED <<said, count, now, listed, ready, actionError, readAt, justSent, sendings>>

\* Retry of the banner with the error; the read it asks for is one like any other.
Retry ==
    /\ actionError /\ actionError' = FALSE
    /\ UNCHANGED <<said, count, now, listed, ready, page, readError, readAt, justSent, sendings>>

\* A message is sent: its row carries the member the screen knows as the user, if it knows one.
Send(re) ==
    /\ count < MaxSaid /\ count' = count + 1
    /\ sendings' = Append(sendings, [id |-> count', by |-> IF ready THEN Me ELSE Unknown, at |-> now,
                                     re |-> re])
    /\ UNCHANGED <<said, now, pageVars, justSent>>

\* The write returns: what was stored takes the place of the row, or the failure is told.
SendReturns(i, stored) ==
    /\ sendings' = RemoveAt(sendings, i)
    /\ LET row == [sendings[i] EXCEPT !.by = Me]
       IN  IF stored THEN said' = WithMessage(said, row) /\ justSent' = Append(justSent, row)
           ELSE UNCHANGED <<said, justSent>>
    /\ actionError' = (actionError \/ ~stored)
    /\ UNCHANGED <<count, now, listed, ready, page, readError, readAt>>

(***************************************************************************)
(* The layout.                                                             *)
(***************************************************************************)

\* What the store makes of the last read and of what this device sent since.
Shown ==
    IF page \in {"loading", "failed"} THEN <<>>
    ELSE listed \o Without(justSent, listed) \o sendings

\* What stands on the page.
Body ==
    IF page \in {"loading", "opening"} THEN "spinner"
    ELSE IF Shown = <<>> /\ ~actionError /\ ~readError THEN "nothing said"
    ELSE "rows"

Rows == DOMAIN Shown

Mine(i) == Shown[i].by = Me

Day(i) == Shown[i].at = DayEnds

\* The line with the day.
UnderDay(i) == i = 1 \/ Day(i - 1) # Day(i)

Grouped(i) ==
    /\ i > 1 /\ Shown[i - 1].by = Shown[i].by
    /\ Shown[i].at < Shown[i - 1].at + GroupGap /\ Day(i - 1) = Day(i)

ShowSender(i) == ~Mine(i) /\ ~Grouped(i)

\* The time: the days are not compared.
ShowMeta(i) ==
    \/ i = Len(Shown) \/ Shown[i + 1].by # Shown[i].by
    \/ Shown[i + 1].at >= Shown[i].at + GroupGap

\* The message a reply is to, among those of the page.
Quote(i) ==
    IF Shown[i].re = 0 THEN "none" ELSE IF Shown[i].re \in Ids(Shown) THEN "words" ELSE "gone"

\* What the bubble of a message is given, beside its words, and what it shows.
Bubble(i) ==
    [outgoing |-> Mine(i), named |-> ShowSender(i), timed |-> ShowMeta(i), quote |-> Quote(i),
     menu |-> Shown[i] \notin ToSet(sendings)]

\* What the message menu offers.
Actions(i) ==
    IF ~Bubble(i).menu THEN {}
    ELSE {"copy"} \cup IF Mine(i) THEN {"edit", "delete"} ELSE {"reply", "react"}

RowsNext ==
    \/ TimePasses
    \/ \E by \in Talkers, at \in 0 .. now, re \in Ids(said) \cup {0} : Says(by, at, re)
    \/ \E i \in DOMAIN said : Removed(i)
    \/ Read \/ ReadNotOpen \/ ReadFails \/ Retry
    \/ Send(0)
    \/ \E i \in Rows : Body = "rows" /\ "reply" \in Actions(i) /\ Send(Shown[i].id)
    \/ \E i \in DOMAIN sendings, stored \in BOOLEAN : SendReturns(i, stored)

(***************************************************************************)
(* What the reader is told, in whatever order messages come and go.        *)
(***************************************************************************)

\* Messages i to j are one after the other by the same member, without a line between.
Together(i, j) == \A k \in i .. j : Shown[k].by = Shown[i].by /\ (k > i => ~UnderDay(k))

\* The day ends between a message and the next one of its member.
AtMidnight(i) == i < Len(Shown) /\ UnderDay(i + 1)

\* Each message can be told apart: the name of another who said it stands over it or over one
\* together with it, and its time under it or under one together with it; the user's own stand
\* on the user's side, also while they are being sent.  Except that the last before midnight
\* has no time when the same member goes on, and that a message sent before the members were
\* known stands as a stranger's until it is stored.
SpeakersAreTold ==
    \A i \in Rows :
        /\ Mine(i) \/ \E j \in 1 .. i : ShowSender(j) /\ Together(j, i)
        /\ \E j \in i .. Len(Shown) : Together(i, j) /\ (ShowMeta(j) \/ AtMidnight(j))
        /\ Shown[i] \in ToSet(sendings) => Mine(i) \/ Shown[i].by = Unknown

\* "nothing said yet" is not a guess (130): what there is now was said after the read.
NothingSaidIsTrue == Body = "nothing said" => \A m \in ToSet(said) : m.id > readAt

\* A reply's message is said to be gone when it is (290).  Except when the read was cut off at
\* its limit: then it may only be older.
GoneIsGone ==
    \A i \in Rows : Quote(i) = "gone" =>
        Shown[i].re \notin Ids(said) \/ Len(listed) = ReadLimit

MessagesAreTold == SpeakersAreTold /\ NothingSaidIsTrue /\ GoneIsGone
=============================================================================
