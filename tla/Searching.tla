----------------------------- MODULE Searching -----------------------------
(***************************************************************************)
(* Searching every open strand while the user types: each pause in typing  *)
(* begins a sweep and abandons the one before, which notices between two   *)
(* of its steps.                                                           *)
(*                                                                         *)
(* A text is the number of the change that typed it; 0 is the empty one.   *)
(* Strands (external) open and close while a sweep goes through them, and  *)
(* a read of one may fail.                                                 *)
(***************************************************************************)
EXTENDS Naturals, FiniteSets

CONSTANTS
    KnownStrands,   \* the strands the node knows
    MaxTyped,       \* bound on changes of the text
    None

SearchConstants ==
    /\ IsFiniteSet(KnownStrands) /\ MaxTyped \in Nat
    /\ None \notin KnownStrands \cup [searched : Nat, skipped : Nat]

VARIABLES
    query,          \* the text in the field
    typed,          \* the changes so far
    timer,          \* run(query) waits for a pause
    opened,         \* strands with a database
    sweeps,         \* the sweeps not ended: what is left, and what is read now
    hits,           \* the strands shown as searched, each with the text it was searched for
    progress,       \* how many were searched and skipped; None before the first
    running,
    ran,            \* history: the text of the last run
    unsaid          \* history: strands its sweep found closed since its last batch

searchVars == <<query, typed, timer, opened, sweeps, hits, progress, running, ran, unsaid>>

Queries == 0 .. MaxTyped
Counts == 0 .. Cardinality(KnownStrands)
Sweep == [q : Queries, left : SUBSET KnownStrands, at : KnownStrands \cup {None}, begun : BOOLEAN,
          searched : Counts, skipped : Counts, aborted : BOOLEAN]

SearchTypeOK ==
    /\ query \in Queries /\ typed \in Queries /\ timer \in BOOLEAN /\ opened \subseteq KnownStrands
    /\ sweeps \subseteq Sweep /\ hits \subseteq Queries \X KnownStrands
    /\ progress \in [searched : Counts, skipped : Counts] \cup {None}
    /\ running \in BOOLEAN /\ ran \in Queries /\ unsaid \subseteq KnownStrands

\* The effect of the first render runs an empty search after a pause.
SearchInit ==
    /\ query = 0 /\ typed = 0 /\ timer = TRUE /\ opened = {}
    /\ sweeps = {} /\ hits = {} /\ progress = None /\ running = FALSE /\ ran = 0
    /\ unsaid = {}

\* onChangeText: the timer of the text before is cleared.
SearchTyped(clears) ==
    /\ typed < MaxTyped /\ typed' = typed + 1
    /\ query' = IF clears THEN 0 ELSE typed'
    /\ timer' = TRUE
    /\ UNCHANGED <<opened, sweeps, hits, progress, running, ran, unsaid>>

Aborted == {[w EXCEPT !.aborted = TRUE] : w \in sweeps}

\* run: the sweep before is abandoned; for an empty text nothing is searched.
run ==
    /\ timer /\ timer' = FALSE
    /\ hits' = {} /\ progress' = None /\ ran' = query /\ unsaid' = {}
    /\ running' = (query # 0)
    /\ sweeps' = Aborted \cup
           (IF query = 0 THEN {}
            ELSE {[q |-> query, left |-> KnownStrands, at |-> None, begun |-> FALSE,
                   searched |-> 0, skipped |-> 0, aborted |-> FALSE]})
    /\ UNCHANGED <<query, typed, opened>>

Becomes(w, x) == sweeps' = (sweeps \ {w}) \cup {x}

\* The nicknames were read; the first strand is next.
Begun(w) ==
    /\ ~w.begun /\ Becomes(w, [w EXCEPT !.begun = TRUE])
    /\ UNCHANGED <<query, typed, timer, opened, hits, progress, running, ran, unsaid>>

\* Between two strands: an abandoned sweep ends, and one with nothing left is done.
SweepEnds(w) ==
    /\ w.begun /\ w.at = None /\ (w.aborted \/ w.left = {})
    /\ sweeps' = sweeps \ {w}
    /\ running' = (running /\ w.aborted)
    /\ UNCHANGED <<query, typed, timer, opened, hits, progress, ran, unsaid>>

\* A batch for the screen: shown unless its sweep was abandoned, which ends it.
Batch(w, x, found) ==
    IF w.aborted THEN sweeps' = sweeps \ {w} /\ UNCHANGED <<hits, progress, unsaid>>
    ELSE /\ Becomes(w, x) /\ hits' = hits \cup found /\ unsaid' = {}
         /\ progress' = [searched |-> x.searched, skipped |-> x.skipped]

Continues(w) == w.begun /\ w.at = None /\ ~w.aborted

\* A strand with a database is read; one with none is counted, and no batch tells of it.
Visit(w, s) ==
    /\ Continues(w) /\ s \in w.left
    /\ LET x == [w EXCEPT !.left = @ \ {s}, !.searched = @ + 1]
       IN  IF s \in opened THEN Becomes(w, [x EXCEPT !.at = s]) /\ UNCHANGED unsaid
           ELSE Becomes(w, [x EXCEPT !.skipped = @ + 1]) /\ unsaid' = unsaid \cup {s}
    /\ UNCHANGED <<query, typed, timer, opened, hits, progress, running, ran>>

\* Mutant: what was found is shown without a look whether the sweep was abandoned.
MessagesRead_Unchecked(w, fails) ==
    /\ w.at # None
    /\ LET x == [w EXCEPT !.at = None, !.skipped = IF fails THEN @ + 1 ELSE @]
       IN  /\ Becomes(w, x)
           /\ hits' = hits \cup (IF fails THEN {} ELSE {<<w.q, w.at>>})
           /\ progress' = [searched |-> x.searched, skipped |-> x.skipped]
           /\ unsaid' = {}
    /\ UNCHANGED <<query, typed, timer, opened, running, ran>>

\* queryMessages answers; a strand that could not be read counts as skipped.
MessagesRead(w, fails) ==
    /\ w.at # None
    /\ LET x == [w EXCEPT !.at = None, !.skipped = IF fails THEN @ + 1 ELSE @]
       IN  Batch(w, x, IF fails THEN {} ELSE {<<w.q, w.at>>})
    /\ UNCHANGED <<query, typed, timer, opened, running, ran>>

OpensOrCloses(s) ==
    /\ opened' = IF s \in opened THEN opened \ {s} ELSE opened \cup {s}
    /\ UNCHANGED <<query, typed, timer, sweeps, hits, progress, running, ran, unsaid>>

SearchNext ==
    \/ \E clears \in BOOLEAN : SearchTyped(clears)
    \/ run
    \/ \E w \in sweeps : Begun(w) \/ SweepEnds(w)
    \/ \E w \in sweeps, s \in KnownStrands : Visit(w, s)
    \/ \E w \in sweeps, fails \in BOOLEAN : MessagesRead(w, fails)
    \/ \E s \in KnownStrands : OpensOrCloses(s)

\* How many strands the screen says were searched.
Said == IF progress = None THEN 0 ELSE progress.searched

\* What is shown was found for the text searched last; every strand said to be searched is among
\* the hits or in the count of those skipped; and a search that ended said so of every strand
\* (SearchInterface.tsx:7-9 "the screen must never present an unfinished sweep as a finished
\* answer") but of those it found closed after the last one it read: the sweep passes over these
\* without a batch (model.ts:774), so the note of the skipped leaves them out, and a search that
\* finds every strand closed shows nothing at all.  In the pause after a change of the text the
\* answer to the one before is shown.
AnswerIsWhole ==
    /\ \A h \in hits : h[1] = ran
    /\ progress # None => Cardinality(hits) + progress.skipped = progress.searched
    /\ ~running /\ ran # 0 => Said + Cardinality(unsaid) = Cardinality(KnownStrands)
=============================================================================
