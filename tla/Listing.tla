------------------------------ MODULE Listing ------------------------------
(***************************************************************************)
(* The list of conversations, home: what its store reads of the strands    *)
(* and of the start-up, and what the screen makes of it: the rows, the     *)
(* introduction for someone who has none, a spinner, or why there is       *)
(* nothing to show.                                                        *)
(*                                                                         *)
(* A read takes a while between listing the strands and asking how the     *)
(* start-up stands.  The node and its strands are external: a strand opens *)
(* some time after it was offered, and may close again.                    *)
(***************************************************************************)
EXTENDS Naturals

CONSTANT HomeStrands

VARIABLES
    start,          \* how the start-up stands: runs, failed or asked, with the node up
    retrying,       \* the user asked to start again
    revived,        \* history: the node came up after its start was given up
    opens,          \* the strands open
    cachedRows,     \* those whose row is kept from an earlier list
    focused,        \* the screen is on top, the store read and signalled
    home,           \* the last value read
    homeError,      \* the last read failed
    actionError,    \* a mute or hide failed
    homeRead,       \* where a read is, and the strands it found
    homeAgain,      \* a change asked for another read
    timer,          \* the backstop poll
    openedSince     \* history: strands that opened since the last read listed them

listingVars == <<start, retrying, revived, opens, cachedRows, focused, home, homeError, actionError,
                 homeRead, homeAgain, timer, openedSince>>

NothingRead == [read |-> FALSE, rows |-> {}, settling |-> TRUE, bootError |-> FALSE]
NoRead == [at |-> "idle", rows |-> {}]

ListingTypeOK ==
    /\ start \in {"runs", "failed", "asked"}
    /\ {retrying, revived, focused, homeError, actionError, homeAgain} \subseteq BOOLEAN
    /\ {opens, cachedRows, openedSince} \subseteq SUBSET HomeStrands
    /\ home \in [read : BOOLEAN, rows : SUBSET HomeStrands, settling : BOOLEAN, bootError : BOOLEAN]
    /\ homeRead \in [at : {"idle", "lists", "asks"}, rows : SUBSET HomeStrands]
    /\ timer \in {"none", "short", "long"}

ListingInit ==
    /\ start = "runs" /\ retrying = FALSE /\ revived = FALSE
    /\ opens = {} /\ cachedRows \in SUBSET HomeStrands
    /\ focused = FALSE /\ home = NothingRead /\ homeError = FALSE /\ actionError = FALSE
    /\ homeRead = NoRead /\ homeAgain = FALSE /\ timer = "none" /\ openedSince = {}

(***************************************************************************)
(* The start-up and the strands.                                           *)
(***************************************************************************)

\* Nothing tells the list that the start-up ended.
Started ==
    /\ start = "runs" /\ start' = "asked"
    /\ UNCHANGED <<retrying, revived, opens, cachedRows, focused, home, homeError, actionError,
                   homeRead, homeAgain, timer, openedSince>>

StartFails ==
    /\ start = "runs" /\ start' = "failed"
    /\ UNCHANGED <<retrying, revived, opens, cachedRows, focused, home, homeError, actionError,
                   homeRead, homeAgain, timer, openedSince>>

\* A list asked for the node again, and this time it came up; the start-up is not told.
Revived ==
    /\ start = "failed" /\ ~revived /\ homeRead.at # "idle" /\ revived' = TRUE
    /\ UNCHANGED <<start, retrying, opens, cachedRows, focused, home, homeError, actionError,
                   homeRead, homeAgain, timer, openedSince>>

\* A read asked for: now, or after the one under way.
AskForRead ==
    IF homeRead.at = "idle"
    THEN homeRead' = [NoRead EXCEPT !.at = "lists"] /\ UNCHANGED homeAgain
    ELSE homeAgain' = TRUE /\ UNCHANGED homeRead

\* A strand opens or closes: the set of strands signals it to the list on the screen.
Signalled == IF focused THEN AskForRead ELSE UNCHANGED <<homeRead, homeAgain>>

Opens(s) ==
    /\ start = "asked" \/ revived
    /\ s \notin opens /\ opens' = opens \cup {s} /\ openedSince' = openedSince \cup {s}
    /\ Signalled
    /\ UNCHANGED <<start, retrying, revived, cachedRows, focused, home, homeError, actionError, timer>>

Closes(s) ==
    /\ s \in opens /\ opens' = opens \ {s} /\ Signalled
    /\ UNCHANGED <<start, retrying, revived, cachedRows, focused, home, homeError, actionError,
                   timer, openedSince>>

(***************************************************************************)
(* The store.                                                              *)
(***************************************************************************)

Focus ==
    /\ ~focused /\ focused' = TRUE /\ AskForRead
    /\ UNCHANGED <<start, retrying, revived, opens, cachedRows, home, homeError, actionError, timer,
                   openedSince>>

Blur ==
    /\ focused /\ focused' = FALSE /\ timer' = "none"
    /\ UNCHANGED <<start, retrying, revived, opens, cachedRows, home, homeError, actionError,
                   homeRead, homeAgain, openedSince>>

Poll ==
    /\ focused /\ timer # "none" /\ homeRead.at = "idle" /\ timer' = "none" /\ AskForRead
    /\ UNCHANGED <<start, retrying, revived, opens, cachedRows, focused, home, homeError, actionError,
                   openedSince>>

\* The rows: the strands open now, and those known from an earlier list.
Lists ==
    /\ homeRead.at = "lists"
    /\ homeRead' = [at |-> "asks", rows |-> opens \cup cachedRows]
    /\ cachedRows' = cachedRows \cup opens /\ openedSince' = {}
    /\ UNCHANGED <<start, retrying, revived, opens, focused, home, homeError, actionError,
                   homeAgain, timer>>

\* The read ends: once more if asked, or a poll is set while the list is watched.
ReadEnds(value) ==
    /\ homeAgain' = FALSE
    /\ homeRead' = IF homeAgain /\ focused THEN [NoRead EXCEPT !.at = "lists"] ELSE NoRead
    /\ timer' = IF homeRead'.at # "idle" \/ ~focused THEN "none"
                ELSE IF value.read /\ ~value.settling THEN "long" ELSE "short"

\* How the start-up stands is asked last.
Asks ==
    /\ homeRead.at = "asks"
    /\ home' = [read |-> TRUE, rows |-> homeRead.rows, settling |-> start = "runs",
                bootError |-> start = "failed"]
    /\ homeError' = FALSE /\ ReadEnds(home')
    /\ UNCHANGED <<start, retrying, revived, opens, cachedRows, focused, actionError, openedSince>>

ReadFails ==
    /\ homeRead.at = "lists" /\ homeError' = TRUE /\ ReadEnds(home)
    /\ UNCHANGED <<start, retrying, revived, opens, cachedRows, focused, home, actionError, openedSince>>

(***************************************************************************)
(* The screen.                                                             *)
(***************************************************************************)

\* What stands below the controls: the first of these that applies.
Screen ==
    IF actionError \/ homeError THEN "error"
    ELSE IF home.bootError THEN "start failed"
    ELSE IF ~home.read \/ (home.settling /\ home.rows = {}) THEN "spinner"
    ELSE IF home.rows = {} THEN "introduction"
    ELSE "rows"

ActionFails ==
    /\ focused /\ Screen = "rows" /\ actionError' = TRUE
    /\ UNCHANGED <<start, retrying, revived, opens, cachedRows, focused, home, homeError,
                   homeRead, homeAgain, timer, openedSince>>

\* Retry of an error: a read.
Reload ==
    /\ focused /\ Screen = "error" /\ actionError' = FALSE /\ AskForRead
    /\ UNCHANGED <<start, retrying, revived, opens, cachedRows, focused, home, homeError, timer,
                   openedSince>>

\* Retry of a failed start: a start, and a read when it ended.
RetryBoot ==
    /\ focused /\ Screen = "start failed" /\ start = "failed" /\ ~retrying /\ retrying' = TRUE
    /\ UNCHANGED <<start, revived, opens, cachedRows, focused, home, homeError, actionError,
                   homeRead, homeAgain, timer, openedSince>>

Retried(works) ==
    /\ retrying /\ retrying' = FALSE /\ start' = IF works THEN "asked" ELSE "failed"
    /\ AskForRead
    /\ UNCHANGED <<revived, opens, cachedRows, focused, home, homeError, actionError,
                   timer, openedSince>>

ListingNext ==
    \/ Started \/ StartFails \/ Revived
    \/ \E s \in HomeStrands : Opens(s) \/ Closes(s)
    \/ Focus \/ Blur \/ Poll \/ Lists \/ Asks \/ ReadFails
    \/ ActionFails \/ Reload \/ RetryBoot
    \/ \E works \in BOOLEAN : Retried(works)

(***************************************************************************)
(* What the screen may be believed in, however starts, strands and reads   *)
(* interleave.                                                             *)
(***************************************************************************)

\* The list is on the screen, and nothing is under way that would change it soon.
AtRest == focused /\ homeRead.at = "idle" /\ timer # "short"

\* "A failed boot must not render as an endless spinner" (StrandList.tsx:69), nor a start that
\* worked as a failed one: at rest the screen says how the start-up ended.  Except when the node
\* came up after all: the failure stays until the user retries.
StartIsTold ==
    AtRest /\ Screen \notin {"error", "rows"} =>
        /\ Screen # "spinner"
        /\ (Screen = "start failed") = (start = "failed")

\* The introduction is not shown to someone who has conversations (StrandList.tsx:60-63): at rest
\* it means that none is open; before, also, that none was when the strands were listed.
IntroductionIsTrue ==
    Screen = "introduction" =>
        /\ focused /\ homeRead.at # "asks" => opens \subseteq openedSince
        /\ AtRest => opens = {}

\* Rows stay until their strands are left: at rest every strand open has its row.
OpenIsListed == AtRest /\ Screen = "rows" => opens \subseteq home.rows

HomeIsHonest == StartIsTold /\ IntroductionIsTrue /\ OpenIsListed
=============================================================================
