----------------------------- MODULE Summaries -----------------------------
(***************************************************************************)
(* The strand list and the summaries kept for a cold start.  A list reads  *)
(* the cache, reads a row of every open strand, saves those rows into the  *)
(* cache and adds the cached strands that are not open.  Founding a        *)
(* conversation saves a row; leaving one removes its row.  The cache is    *)
(* one slot, rewritten whole by whoever read it.  Each await is a boundary *)
(* between actions; the texts of the rows are left out.                    *)
(***************************************************************************)
EXTENDS Naturals

CONSTANTS
    Strands,
    Listers         \* calls of strands.list, and of createInvitation, that may run at once

VARIABLES
    open,           \* strands whose database is open
    ended,          \* strands left for good, or being left
    cache,          \* the slot `strandSummaries`
    list,           \* each call: where it is, the strands it found, its rows and what it read
    leaving,        \* each leave: where it is and what it read
    left,           \* history: strands whose leave returned
    raced           \* history: a row, or a copy of the cache with it, was on its way then

summaryVars == <<open, ended, cache, list, leaving, left, raced>>

NoList == [pc |-> "idle", found |-> {}, cached |-> {}, rows |-> {}, seen |-> {}, since |-> {}]

SummariesTypeOK ==
    /\ open \subseteq Strands /\ ended \subseteq Strands /\ cache \subseteq Strands
    /\ list \in [Listers -> [pc : {"idle", "cache", "rows", "reads", "saves"},
                             found : SUBSET Strands, cached : SUBSET Strands,
                             rows : SUBSET Strands, seen : SUBSET Strands, since : SUBSET Strands]]
    /\ leaving \in [Strands -> [pc : {"no", "reads", "saves"}, seen : SUBSET Strands]]
    /\ left \subseteq Strands /\ raced \subseteq Strands

SummariesInit ==
    /\ open = {} /\ ended = {} /\ cache = {} /\ left = {} /\ raced = {}
    /\ list = [c \in Listers |-> NoList]
    /\ leaving = [s \in Strands |-> [pc |-> "no", seen |-> {}]]

(***************************************************************************)
(* Listing.                                                                *)
(***************************************************************************)

\* listStrands takes the strands of the node, before it awaits the cache.
listStrands(c) ==
    /\ list[c].pc = "idle"
    /\ list' = [list EXCEPT ![c] = [NoList EXCEPT !.pc = "cache", !.found = open, !.since = left \ raced]]
    /\ UNCHANGED <<open, ended, cache, leaving, left, raced>>

\* Those that are still open are read, each in a bounded time.
CacheRead(c) ==
    /\ list[c].pc = "cache"
    /\ list' = [list EXCEPT ![c].pc = "rows", ![c].cached = cache, ![c].rows = list[c].found \cap open]
    /\ UNCHANGED <<open, ended, cache, leaving, left, raced>>

\* Mutant: the rows are added to the cache read before them.
RowsRead_OldCache(c) ==
    /\ list[c].pc = "rows"
    /\ list' = [list EXCEPT ![c] = IF @.rows = {} THEN NoList
                                   ELSE [@ EXCEPT !.pc = "saves", !.seen = list[c].cached]]
    /\ UNCHANGED <<open, ended, cache, leaving, left, raced>>

\* The rows are there: save reads the cache again, unless there is no row.
RowsRead(c) ==
    /\ list[c].pc = "rows"
    /\ list' = [list EXCEPT ![c] = IF @.rows = {} THEN NoList
                                   ELSE [@ EXCEPT !.pc = "saves", !.seen = cache]]
    /\ UNCHANGED <<open, ended, cache, leaving, left, raced>>

\* It writes what it read with its rows, unless that changes nothing, or fails to.
Save(c) ==
    /\ list[c].pc = "saves"
    /\ cache' \in {cache, list[c].seen \cup list[c].rows}
    /\ list' = [list EXCEPT ![c] = NoList]
    /\ UNCHANGED <<open, ended, leaving, left, raced>>

\* createInvitation founds a conversation in the background and saves its row.
Founds(c, s) ==
    /\ list[c].pc = "idle" /\ s \notin open \cup cache \cup ended
    /\ list' = [list EXCEPT ![c] = [NoList EXCEPT !.pc = "rows", !.rows = {s}, !.since = left \ raced]]
    /\ UNCHANGED <<open, ended, cache, leaving, left, raced>>

(***************************************************************************)
(* Leaving.                                                                *)
(***************************************************************************)

\* The strand is stopped and withdrawn; then its row is forgotten.
leave(s) ==
    /\ s \in open /\ open' = open \ {s} /\ ended' = ended \cup {s}
    /\ leaving' = [leaving EXCEPT ![s].pc = "reads"]
    /\ UNCHANGED <<cache, list, left, raced>>

\* The leave returns.  Whoever holds a row of the strand may yet write it back.
Left(s) ==
    /\ leaving' = [leaving EXCEPT ![s] = [pc |-> "no", seen |-> {}]]
    /\ left' = left \cup {s}
    /\ raced' = IF \/ \E c \in Listers : s \in list[c].rows \cup list[c].seen
                   \/ \E u \in Strands \ {s} : s \in leaving[u].seen
                THEN raced \cup {s} ELSE raced

ForgetReads(s) ==
    /\ leaving[s].pc = "reads"
    /\ IF s \in cache
       THEN leaving' = [leaving EXCEPT ![s] = [pc |-> "saves", seen |-> cache]] /\ UNCHANGED <<cache, left, raced>>
       ELSE UNCHANGED cache /\ Left(s)
    /\ UNCHANGED <<open, ended, list>>

ForgetSaves(s) ==
    /\ leaving[s].pc = "saves" /\ cache' = leaving[s].seen \ {s} /\ Left(s)
    /\ UNCHANGED <<open, ended, list>>

\* The slot could not be written: the leave goes on.
ForgetNotSaved(s) ==
    /\ leaving[s].pc = "saves"
    /\ leaving' = [leaving EXCEPT ![s] = [pc |-> "no", seen |-> {}]]
    /\ left' = left \cup {s} /\ raced' = raced \cup {s}
    /\ UNCHANGED <<open, ended, cache, list>>

(***************************************************************************)
(* The node.                                                               *)
(***************************************************************************)

Opens(s) ==
    /\ s \notin ended /\ open' = IF s \in open THEN open \ {s} ELSE open \cup {s}
    /\ UNCHANGED <<ended, cache, list, leaving, left, raced>>

\* The process dies.  A leave cut short is not finished.
Crash ==
    /\ open' = {} /\ list' = [c \in Listers |-> NoList]
    /\ leaving' = [s \in Strands |-> [pc |-> "no", seen |-> {}]]
    /\ UNCHANGED <<ended, cache, left, raced>>

SummariesNext ==
    \/ Crash
    \/ \E c \in Listers :
         listStrands(c) \/ CacheRead(c) \/ RowsRead(c) \/ Save(c) \/ \E s \in Strands : Founds(c, s)
    \/ \E s \in Strands : leave(s) \/ ForgetReads(s) \/ ForgetSaves(s) \/ ForgetNotSaved(s) \/ Opens(s)

SummariesSpec == SummariesInit /\ [][SummariesNext]_summaryVars

\* A strand left on purpose does not come back as a connecting row (local-state.ts:107): it is
\* not in the cache, nor in a list begun since.  Except when, as its leave ended, a list or
\* another leave held a row of it, or a copy of the cache with one, and when the slot could not
\* be written.
LeftIsForgotten ==
    /\ left \ raced \subseteq {s \in Strands : s \notin cache}
    /\ \A c \in Listers : list[c].since \cap (list[c].cached \cup list[c].rows) = {}
=============================================================================
