----------------------------- MODULE Following -----------------------------
(***************************************************************************)
(* `tail` of the command line on one strand: what is there is read once,   *)
(* then each change of the strand reads its last messages again and prints *)
(* those not seen before.  A change during a read makes it read once more. *)
(*                                                                         *)
(* Messages (external) arrive in any order: one written earlier by another *)
(* member may come after later ones.  A read sees the strand as it is at   *)
(* some moment before it returns.                                          *)
(***************************************************************************)
EXTENDS Naturals, SequencesExt

CONSTANTS
    MaxArrivals,    \* bound on the messages: the n-th to arrive is n
    FirstLimit,     \* how many the first read returns (asked for 200, 100 in the code)
    TailLimit       \* how many each later one does (50)

FollowingConstants == {MaxArrivals, FirstLimit, TailLimit} \subseteq Nat

VARIABLES
    log,            \* the strand's messages in the order of their timestamps
    follows,        \* first: before the watch; on; over: interrupted
    seen,
    printed,        \* how often each message was printed
    changed,        \* a change the watch has still to report
    reader,         \* where read() is
    again,
    page,           \* what the read under way returns
    missed,         \* history: messages that came before the watch, or were behind a read's limit
    failing         \* history: the last read failed

followingVars == <<log, follows, seen, printed, changed, reader, again, page, missed, failing>>

Arrivals == 1 .. MaxArrivals

FollowingTypeOK ==
    /\ log \in Seq(Arrivals) /\ follows \in {"first", "on", "over"}
    /\ seen \subseteq Arrivals /\ printed \in [Arrivals -> Nat] /\ changed \in BOOLEAN
    /\ reader \in {"idle", "asks", "reads", "names"} /\ again \in BOOLEAN
    /\ page \in Seq(Arrivals) /\ missed \subseteq Arrivals /\ failing \in BOOLEAN

FollowingInit ==
    /\ log = <<>> /\ follows = "first" /\ seen = {} /\ printed = [m \in Arrivals |-> 0] /\ changed = FALSE
    /\ reader = "asks" /\ again = FALSE /\ page = <<>> /\ missed = {} /\ failing = FALSE

LastOf(s, n) == SubSeq(s, IF Len(s) > n THEN Len(s) - n + 1 ELSE 1, Len(s))

\* A message arrives, and takes its place by its timestamp.
Arrives(i) ==
    /\ Len(log) < MaxArrivals /\ log' = InsertAt(log, i, Len(log) + 1)
    /\ changed' = (follows = "on")
    /\ UNCHANGED <<follows, seen, printed, reader, again, page, missed, failing>>

(***************************************************************************)
(* Before the watch.                                                       *)
(***************************************************************************)

FirstRead ==
    /\ follows = "first" /\ reader = "asks" /\ reader' = "reads"
    /\ page' = LastOf(log, FirstLimit)
    /\ UNCHANGED <<log, follows, seen, printed, changed, again, missed, failing>>

\* The watch begins; nothing reads what came since the first read.
WatchBegins ==
    /\ follows = "first" /\ reader = "reads"
    /\ follows' = "on" /\ reader' = "idle" /\ seen' = ToSet(page) /\ page' = <<>>
    /\ missed' = ToSet(log) \ seen'
    /\ UNCHANGED <<log, printed, changed, again, failing>>

(***************************************************************************)
(* read().                                                                 *)
(***************************************************************************)

\* A change is reported: read, or read again after the read under way.
Change ==
    /\ changed /\ follows = "on" /\ changed' = FALSE
    /\ IF reader = "idle" THEN reader' = "asks" /\ again' = FALSE
       ELSE again' = TRUE /\ UNCHANGED reader
    /\ UNCHANGED <<log, follows, seen, printed, page, missed, failing>>

Query ==
    /\ follows # "first" /\ reader = "asks" /\ reader' = "reads"
    /\ page' = LastOf(log, TailLimit)
    /\ missed' = missed \cup (ToSet(log) \ (ToSet(page') \cup seen))
    /\ UNCHANGED <<log, follows, seen, printed, changed, again, failing>>

\* After a pass: again, if a change came meanwhile and nobody interrupted it.
NextPass ==
    IF again /\ follows = "on" THEN reader' = "asks" /\ again' = FALSE
    ELSE reader' = "idle" /\ UNCHANGED again

\* The messages are there: the names of those not seen are looked up.
Listed ==
    /\ follows # "first" /\ reader = "reads" /\ reader' = "names"
    /\ UNCHANGED <<log, follows, seen, printed, changed, again, page, missed, failing>>

ReadFails ==
    /\ follows # "first" /\ reader = "reads"
    /\ page' = <<>> /\ failing' = TRUE /\ NextPass
    /\ UNCHANGED <<log, follows, seen, printed, changed, missed>>

\* Mutant: changes reported during the pass are forgotten at its end.
Printed_Forgets ==
    /\ reader = "names"
    /\ printed' = [m \in Arrivals |-> IF m \in ToSet(page) \ seen THEN printed[m] + 1 ELSE printed[m]]
    /\ seen' = seen \cup ToSet(page)
    /\ page' = <<>> /\ failing' = FALSE /\ reader' = "idle" /\ again' = FALSE
    /\ UNCHANGED <<log, follows, changed, missed>>

\* Each message that was not seen is printed.
Printed ==
    /\ reader = "names"
    /\ printed' = [m \in Arrivals |-> IF m \in ToSet(page) \ seen THEN printed[m] + 1 ELSE printed[m]]
    /\ seen' = seen \cup ToSet(page)
    /\ page' = <<>> /\ failing' = FALSE /\ NextPass
    /\ UNCHANGED <<log, follows, changed, missed>>

\* Ctrl-C: the watch ends; a pass under way still prints.
Interrupted ==
    /\ follows = "on" /\ follows' = "over" /\ changed' = FALSE
    /\ UNCHANGED <<log, seen, printed, reader, again, page, missed, failing>>

FollowingNext ==
    \/ \E i \in 1 .. Len(log) + 1 : Arrives(i)
    \/ FirstRead \/ WatchBegins
    \/ Change \/ Query \/ Listed \/ ReadFails \/ Printed
    \/ Interrupted

\* Once the changes are worked off, every message that arrived is printed or was there at the
\* start, and none is printed twice, in whatever order messages arrive and reads run
\* (commands/strands.ts:100 "Print messages as they arrive").  Except a message that arrived
\* before the watch began or behind a read's limit, and until the next change when a read failed.
TailMissesNothing ==
    /\ follows = "on" /\ reader = "idle" /\ ~changed /\ ~failing => ToSet(log) \subseteq seen \cup missed
    /\ \A m \in Arrivals : printed[m] <= 1
=============================================================================
