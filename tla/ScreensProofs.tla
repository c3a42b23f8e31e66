--------------------------- MODULE ScreensProofs ---------------------------
(***************************************************************************)
(* Theorems about Screens: what its parts promise holds in the whole.      *)
(* Proved here: the watches on the strands' databases, what is kept of the *)
(* strands that were seen, the claim of a machine, the search, the screen  *)
(* that invites, the list of conversations, the settings and the rows of a *)
(* conversation; the other parts in MemberPartsProofs.                     *)
(***************************************************************************)
EXTENDS Screens, FiniteSetTheorems, SequenceTheorems, TLAPS

-----------------------------------------------------------------------------
(***************************************************************************)
(* Watching.                                                               *)
(* WatchesFollow, for any number of strands and databases.  The inductive  *)
(* invariant adds what holds while an event is due: an up event is of a    *)
(* database that is there, a down event of none; databases are numbered as *)
(* they open, so one that replaces another differs from every watch; and a *)
(* change the store was not told of is one its watch could not see.        *)
(***************************************************************************)
Numbered ==
    \A s \in Watchable : base[s] <= bases /\ (watch[s] # None => watch[s] <= bases)

EventsTell ==
    \A s \in Watchable : (due[s] = "up" => base[s] # 0) /\ (due[s] = "down" => base[s] = 0)

BlindIsDetached == \A s \in blind : watch[s] = 0

UnheardIsUnseen ==
    \A s \in unheard : watch[s] # None /\ (base[s] = 0 \/ watch[s] # base[s])

Attached ==
    \A s \in Watchable :
        watch[s] # None /\ base[s] # 0 /\ due[s] = "none" /\ s \notin blind => watch[s] = base[s]

Watched == IF subscribed /\ latest # None THEN latest ELSE {}
ListIsWatched == \A s \in Watchable : watch[s] # None <=> s \in Watched

WatchingInv ==
    /\ WatchingTypeOK
    /\ Numbered /\ EventsTell /\ BlindIsDetached /\ UnheardIsUnseen /\ Attached /\ ListIsWatched

-----------------------------------------------------------------------------
(* The watches that follow a list. *)

LEMMA WatchesFollowList ==
    ASSUME WatchingConstants, WatchingInv, NEW ids \in SUBSET Watchable, Watches(ids)
    PROVE  /\ watch' \in [Watchable -> 0 .. MaxBases \cup {None}] /\ blind' \subseteq Watchable
           /\ \A s \in Watchable : watch'[s] # None <=> s \in ids
           /\ \A s \in Watchable : watch'[s] # None => watch'[s] \in {watch[s], base[s], 0}
           /\ \A s \in blind' : watch'[s] = 0
           /\ \A s \in Watchable : watch'[s] # None /\ watch'[s] # watch[s] =>
                watch[s] = None /\ (watch'[s] = base[s] \/ s \in blind')
           /\ \A s \in Watchable : watch'[s] = watch[s] /\ watch[s] # None =>
                (s \in blind' <=> s \in blind)
<1> DEFINE new == {s \in ids : watch[s] = None}
<1>1. PICK bad \in SUBSET {s \in new : base[s] # 0} :
        /\ watch' = [s \in Watchable |-> IF s \in new THEN attach(s, bad)
                                       ELSE IF s \in ids THEN watch[s] ELSE None]
        /\ blind' = (blind \cap ids) \cup bad
  BY DEF Watches
<1>2. \A s \in Watchable : attach(s, bad) \in {0, base[s]} /\ attach(s, bad) # None
                         /\ attach(s, bad) \in 0 .. MaxBases
                         /\ (s \in bad => attach(s, bad) = 0)
                         /\ (s \notin bad => attach(s, bad) = base[s])
  BY DEF attach, WatchingConstants, WatchingInv, WatchingTypeOK
<1>3. \A s \in blind : watch[s] # None
  BY DEF WatchingInv, BlindIsDetached, WatchingConstants
<1>4. watch' \in [Watchable -> 0 .. MaxBases \cup {None}] /\ blind' \subseteq Watchable
  BY <1>1, <1>2 DEF WatchingInv, WatchingTypeOK
<1>5. \A s \in Watchable : watch'[s] # None <=> s \in ids
  BY <1>1, <1>2
<1>6. \A s \in blind' : watch'[s] = 0
  BY <1>1, <1>2, <1>3 DEF WatchingInv, BlindIsDetached, WatchingTypeOK
<1>7. \A s \in Watchable : watch'[s] # None /\ watch'[s] # watch[s] =>
        watch[s] = None /\ (watch'[s] = base[s] \/ s \in blind')
  BY <1>1, <1>2
<1>8. \A s \in Watchable : watch'[s] # None => watch'[s] \in {watch[s], base[s], 0}
  BY <1>1, <1>2
<1>9. \A s \in Watchable : watch'[s] = watch[s] /\ watch[s] # None => (s \in blind' <=> s \in blind)
  BY <1>1, <1>5
<1>10. QED BY <1>4, <1>5, <1>6, <1>7, <1>8, <1>9

(* Following a list keeps what is said of databases, events and changes. *)
LEMMA WatchesKeep ==
    ASSUME WatchingConstants, WatchingInv, NEW ids \in SUBSET Watchable, Watches(ids),
           UNCHANGED <<base, bases, due>>, unheard' \subseteq unheard \cap ids
    PROVE  Numbered' /\ EventsTell' /\ BlindIsDetached' /\ UnheardIsUnseen' /\ Attached'
<1>1. bases \in Nat /\ 0 <= bases
  BY DEF WatchingInv, WatchingTypeOK
<1>2. Numbered'
  BY <1>1, WatchesFollowList DEF WatchingInv, Numbered
<1>3. EventsTell' /\ BlindIsDetached'
  BY WatchesFollowList DEF WatchingInv, EventsTell, BlindIsDetached
<1>4. UnheardIsUnseen'
  BY WatchesFollowList DEF WatchingInv, WatchingTypeOK, UnheardIsUnseen
<1>5. Attached'
  BY WatchesFollowList DEF WatchingInv, Attached
<1>6. QED BY <1>2, <1>3, <1>4, <1>5

-----------------------------------------------------------------------------
(* Each action keeps the invariant. *)

LEMMA UpKeeps ==
    ASSUME WatchingConstants, WatchingInv, NEW s \in Watchable, Up(s) PROVE WatchingInv'
<1>1. /\ due[s] = "up" /\ due' = [due EXCEPT ![s] = "none"] /\ base[s] # 0
      /\ UNCHANGED <<known, base, bases, subscribed, latest, read>>
  BY DEF Up, WatchingInv, EventsTell
<1>2. base[s] \in 0 .. MaxBases /\ base[s] # None
  BY DEF WatchingInv, WatchingTypeOK, WatchingConstants
<1>3. CASE watch[s] \in {None, base[s]} /\ UNCHANGED <<watch, blind, unheard>>
  BY <1>1, <1>2, <1>3 DEF WatchingInv, WatchingTypeOK, Numbered, EventsTell, BlindIsDetached,
     UnheardIsUnseen, Attached, ListIsWatched, Watched
<1>4. CASE /\ watch[s] \notin {None, base[s]}
           /\ watch' = [watch EXCEPT ![s] = base[s]] /\ blind' = blind \ {s}
           /\ unheard' = unheard \ {s}
  BY <1>1, <1>2, <1>4 DEF WatchingInv, WatchingTypeOK, Numbered, EventsTell, BlindIsDetached,
     UnheardIsUnseen, Attached, ListIsWatched, Watched
<1>5. CASE /\ watch[s] \notin {None, base[s]}
           /\ watch' = [watch EXCEPT ![s] = 0] /\ blind' = blind \cup {s} /\ UNCHANGED unheard
  <2>1. 0 # None /\ 0 \in 0 .. MaxBases /\ bases \in Nat
    BY DEF WatchingConstants, WatchingInv, WatchingTypeOK
  <2>2. QED BY <1>1, <1>2, <1>5, <2>1 DEF WatchingInv, WatchingTypeOK, Numbered, EventsTell,
     BlindIsDetached, UnheardIsUnseen, Attached, ListIsWatched, Watched
<1>6. QED BY <1>3, <1>4, <1>5 DEF Up

LEMMA DownKeeps ==
    ASSUME WatchingConstants, WatchingInv, NEW s \in Watchable, Down(s) PROVE WatchingInv'
<1>1. 0 # None /\ 0 \in 0 .. MaxBases /\ bases \in Nat
  BY DEF WatchingConstants, WatchingInv, WatchingTypeOK
<1>2. QED BY <1>1 DEF Down, WatchingInv, WatchingTypeOK, Numbered, EventsTell, BlindIsDetached,
     UnheardIsUnseen, Attached, ListIsWatched, Watched

LEMMA CommitKeeps ==
    ASSUME WatchingInv, NEW s \in Watchable, Commit(s) PROVE WatchingInv'
BY DEF Commit, WatchingInv, WatchingTypeOK, Numbered, EventsTell, BlindIsDetached,
   UnheardIsUnseen, Attached, ListIsWatched, Watched

LEMMA ListedKeeps ==
    ASSUME WatchingInv, NEW s \in Watchable, Listed(s) PROVE WatchingInv'
BY DEF Listed, WatchingInv, WatchingTypeOK, Numbered, EventsTell, BlindIsDetached,
   UnheardIsUnseen, Attached, ListIsWatched, Watched

LEMMA SubscribeKeeps ==
    ASSUME WatchingConstants, WatchingInv, Subscribe PROVE WatchingInv'
<1>1. /\ ~subscribed /\ subscribed' = TRUE /\ unheard' = {}
      /\ UNCHANGED <<known, base, bases, due, latest, read>>
  BY DEF Subscribe
<1>2. CASE latest = None /\ UNCHANGED <<watch, blind>>
  BY <1>1, <1>2 DEF WatchingInv, WatchingTypeOK, Numbered, EventsTell, BlindIsDetached,
     UnheardIsUnseen, Attached, ListIsWatched, Watched
<1>3. CASE latest # None /\ Watches(latest)
  <2>1. latest \in SUBSET Watchable
    BY <1>3 DEF WatchingInv, WatchingTypeOK
  <2>2. Numbered' /\ EventsTell' /\ BlindIsDetached' /\ UnheardIsUnseen' /\ Attached'
    BY <1>1, <1>3, <2>1, WatchesKeep
  <2>3. WatchingTypeOK' /\ ListIsWatched'
    BY <1>1, <1>3, <2>1, WatchesFollowList DEF WatchingInv, WatchingTypeOK, ListIsWatched, Watched
  <2>4. QED BY <2>2, <2>3 DEF WatchingInv
<1>4. QED BY <1>2, <1>3 DEF Subscribe

LEMMA UnsubscribeKeeps ==
    ASSUME WatchingInv, Unsubscribe PROVE WatchingInv'
BY DEF Unsubscribe, WatchingInv, WatchingTypeOK, Numbered, EventsTell, BlindIsDetached,
   UnheardIsUnseen, Attached, ListIsWatched, Watched

LEMMA ReadBeginsKeeps ==
    ASSUME WatchingInv, ReadBegins PROVE WatchingInv'
BY DEF ReadBegins, WatchingInv, WatchingTypeOK, Numbered, EventsTell, BlindIsDetached,
   UnheardIsUnseen, Attached, ListIsWatched, Watched

LEMMA ReadReturnsKeeps ==
    ASSUME WatchingConstants, WatchingInv, ReadReturns PROVE WatchingInv'
<1>1. /\ read \in SUBSET Watchable /\ latest' = read /\ read' = None /\ latest' # None
      /\ unheard' = unheard \cap read
      /\ UNCHANGED <<known, base, bases, due, subscribed>>
  BY DEF ReadReturns, WatchingInv, WatchingTypeOK, WatchingConstants
<1>2. CASE subscribed /\ Watches(read)
  <2>1. Numbered' /\ EventsTell' /\ BlindIsDetached' /\ UnheardIsUnseen' /\ Attached'
    BY <1>1, <1>2, WatchesKeep
  <2>2. WatchingTypeOK' /\ ListIsWatched'
    BY <1>1, <1>2, WatchesFollowList DEF WatchingInv, WatchingTypeOK, ListIsWatched, Watched
  <2>3. QED BY <2>1, <2>2 DEF WatchingInv
<1>3. CASE ~subscribed /\ UNCHANGED <<watch, blind>>
  BY <1>1, <1>3 DEF WatchingInv, WatchingTypeOK, Numbered, EventsTell, BlindIsDetached,
     UnheardIsUnseen, Attached, ListIsWatched, Watched
<1>4. QED BY <1>2, <1>3 DEF ReadReturns

LEMMA ReadFailsKeeps ==
    ASSUME WatchingInv, ReadFails PROVE WatchingInv'
BY DEF ReadFails, WatchingInv, WatchingTypeOK, Numbered, EventsTell, BlindIsDetached,
   UnheardIsUnseen, Attached, ListIsWatched, Watched

LEMMA PublishedKeeps ==
    ASSUME WatchingConstants, WatchingInv, NEW s \in Watchable, Published(s) PROVE WatchingInv'
<1>1. /\ bases \in Nat /\ bases' = bases + 1 /\ bases' \in 0 .. MaxBases
      /\ base' = [base EXCEPT ![s] = bases'] /\ due' = [due EXCEPT ![s] = "up"]
      /\ UNCHANGED <<known, watch, blind, subscribed, latest, read, unheard>>
  BY DEF Published, WatchingConstants, WatchingInv, WatchingTypeOK
<1>2. WatchingTypeOK' /\ EventsTell' /\ BlindIsDetached' /\ Attached' /\ ListIsWatched'
  BY <1>1 DEF WatchingInv, WatchingTypeOK, EventsTell, BlindIsDetached, Attached,
     ListIsWatched, Watched
<1>3. \A t \in Watchable : (watch[t] # None => watch[t] \in Nat /\ watch[t] <= bases)
                         /\ base[t] \in Nat /\ base[t] <= bases
  BY DEF WatchingInv, WatchingTypeOK, Numbered
<1>4. Numbered' /\ UnheardIsUnseen'
  BY <1>1, <1>3 DEF WatchingInv, WatchingTypeOK, Numbered, UnheardIsUnseen
<1>5. QED BY <1>2, <1>4 DEF WatchingInv

LEMMA ClosesKeeps ==
    ASSUME WatchingConstants, WatchingInv, NEW s \in Watchable, Closes(s) PROVE WatchingInv'
<1>1. bases \in Nat /\ 0 \in 0 .. MaxBases
  BY DEF WatchingConstants, WatchingInv, WatchingTypeOK
<1>2. QED BY <1>1 DEF Closes, WatchingInv, WatchingTypeOK, Numbered, EventsTell,
     BlindIsDetached, UnheardIsUnseen, Attached, ListIsWatched, Watched

LEMMA NodeStopsKeeps ==
    ASSUME WatchingConstants, WatchingInv, NodeStops PROVE WatchingInv'
<1>1. bases \in Nat /\ 0 \in 0 .. MaxBases
  BY DEF WatchingConstants, WatchingInv, WatchingTypeOK
<1>2. /\ base' = [s \in Watchable |-> 0] /\ due' \in [Watchable -> {"none", "up", "down"}]
      /\ \A s \in Watchable : due'[s] # "up"
      /\ UNCHANGED <<known, bases, watch, blind, subscribed, latest, read, unheard>>
  BY DEF NodeStops
<1>3. QED BY <1>1, <1>2 DEF WatchingInv, WatchingTypeOK, Numbered, EventsTell,
     BlindIsDetached, UnheardIsUnseen, Attached, ListIsWatched, Watched

-----------------------------------------------------------------------------

LEMMA WatchingInitInv == ASSUME WatchingConstants PROVE WatchingInit => WatchingInv
<1> SUFFICES ASSUME WatchingInit PROVE WatchingInv
  OBVIOUS
<1>1. WatchingTypeOK
  <2>1. /\ base \in [Watchable -> 0 .. MaxBases] /\ bases \in 0 .. MaxBases
        /\ watch \in [Watchable -> 0 .. MaxBases \cup {None}]
    BY DEF WatchingConstants, WatchingInit
  <2>2. QED BY <2>1 DEF WatchingInit, WatchingTypeOK
<1>2. Numbered /\ EventsTell
  BY DEF WatchingInit, Numbered, EventsTell
<1>3. BlindIsDetached /\ UnheardIsUnseen /\ Attached /\ ListIsWatched
  BY DEF WatchingInit, BlindIsDetached, UnheardIsUnseen, Attached, ListIsWatched, Watched
<1>4. QED BY <1>1, <1>2, <1>3 DEF WatchingInv

LEMMA WatchingNextInv ==
    ASSUME WatchingConstants PROVE WatchingInv /\ [WatchingNext]_watchingVars => WatchingInv'
<1> SUFFICES ASSUME WatchingInv, [WatchingNext]_watchingVars PROVE WatchingInv'
  OBVIOUS
<1>1. CASE Subscribe \/ Unsubscribe \/ ReadBegins \/ ReadReturns \/ ReadFails \/ NodeStops
  BY <1>1, SubscribeKeeps, UnsubscribeKeeps, ReadBeginsKeeps, ReadReturnsKeeps, ReadFailsKeeps,
     NodeStopsKeeps
<1>2. ASSUME NEW s \in Watchable,
             Up(s) \/ Down(s) \/ Commit(s) \/ Listed(s) \/ Published(s) \/ Closes(s)
      PROVE  WatchingInv'
  BY <1>2, UpKeeps, DownKeeps, CommitKeeps, ListedKeeps, PublishedKeeps, ClosesKeeps
<1>3. CASE UNCHANGED watchingVars
  BY <1>3 DEF watchingVars, WatchingInv, WatchingTypeOK, Numbered, EventsTell, BlindIsDetached,
     UnheardIsUnseen, Attached, ListIsWatched, Watched
<1>4. QED BY <1>1, <1>2, <1>3 DEF WatchingNext

LEMMA WatchesFollowInv == WatchingInv => WatchesFollow
<1> SUFFICES ASSUME WatchingInv PROVE WatchesFollow
  OBVIOUS
<1>1. \A s \in Watchable :
        watch[s] # None /\ base[s] # 0 /\ due[s] = "none" /\ s \notin blind
            => watch[s] = base[s] /\ s \notin unheard
  BY DEF WatchingInv, Attached, UnheardIsUnseen
<1>2. {s \in Watchable : watch[s] # None} = Watched
  BY DEF WatchingInv, WatchingTypeOK, ListIsWatched, Watched
<1>3. QED BY <1>1, <1>2 DEF WatchesFollow, Watched

(* However databases open, close and are replaced, and nodes are rebuilt, every watch is on    *)
(* the database announced and the store knows of what was committed before                     *)
(* (model.ts:935-939), for any number of strands.                                              *)
LEMMA WatchesFollowAlone == ASSUME WatchingConstants PROVE WatchingSpec => []WatchesFollow
BY WatchingInitInv, WatchingNextInv, WatchesFollowInv, PTL DEF WatchingSpec

-----------------------------------------------------------------------------
(***************************************************************************)
(* Summaries.                                                              *)
(* LeftIsForgotten, for any number of strands and of lists under way.  The *)
(* inductive invariant says that a strand left for good, Gone, is nowhere: *)
(* neither in the cache nor in what a list or another leave read of it.    *)
(***************************************************************************)
Gone == left \ raced

LeftHasEnded ==
    /\ left \subseteq ended /\ open \cap ended = {}
    /\ \A s \in Strands : leaving[s].pc # "no" => s \in ended /\ s \notin left

CacheHasNone == Gone \cap cache = {}

ListsHaveNone ==
    \A c \in Listers : Gone \cap (list[c].rows \cup list[c].seen) = {}

LeavesHaveNone == \A s \in Strands : Gone \cap leaving[s].seen = {}

SinceIsGone ==
    \A c \in Listers : list[c].since \subseteq Gone /\ list[c].since \cap list[c].cached = {}

SummariesInv ==
    SummariesTypeOK /\ LeftHasEnded /\ CacheHasNone /\ ListsHaveNone /\ LeavesHaveNone /\ SinceIsGone

-----------------------------------------------------------------------------
(* A step that leaves what has been left as it was, of a list or of none. *)

LEMMA ListStepKeeps ==
    ASSUME SummariesInv, NEW c \in Listers, NEW l, list' = [list EXCEPT ![c] = l],
           l \in [pc : {"idle", "cache", "rows", "reads", "saves"},
                  found : SUBSET Strands, cached : SUBSET Strands,
                  rows : SUBSET Strands, seen : SUBSET Strands, since : SUBSET Strands],
           Gone \cap (l.rows \cup l.seen) = {},
           l.since \subseteq Gone, l.since \cap l.cached = {},
           cache' \subseteq Strands, Gone \cap cache' = {},
           UNCHANGED <<open, ended, leaving, left, raced>>
    PROVE  SummariesInv'
<1>1. list'[c] = l /\ \A d \in Listers \ {c} : list'[d] = list[d]
  BY DEF SummariesInv, SummariesTypeOK
<1>2. Gone' = Gone
  BY DEF Gone
<1>3. SummariesTypeOK'
  BY DEF SummariesInv, SummariesTypeOK
<1>4. LeftHasEnded' /\ CacheHasNone'
  BY <1>2 DEF SummariesInv, LeftHasEnded, CacheHasNone
<1>5. ListsHaveNone' /\ LeavesHaveNone' /\ SinceIsGone'
  BY <1>1, <1>2 DEF SummariesInv, ListsHaveNone, LeavesHaveNone, SinceIsGone
<1>6. QED BY <1>3, <1>4, <1>5 DEF SummariesInv

LEMMA ListTypes ==
    ASSUME SummariesInv, NEW c \in Listers
    PROVE  /\ list[c] \in [pc : {"idle", "cache", "rows", "reads", "saves"},
                           found : SUBSET Strands, cached : SUBSET Strands,
                           rows : SUBSET Strands, seen : SUBSET Strands, since : SUBSET Strands]
           /\ Gone \subseteq Strands /\ Gone \cap cache = {}
           /\ Gone \cap (list[c].rows \cup list[c].seen) = {}
           /\ list[c].since \subseteq Gone /\ list[c].since \cap list[c].cached = {}
           /\ open \subseteq Strands /\ cache \subseteq Strands /\ Gone \cap open = {}
BY DEF SummariesInv, SummariesTypeOK, CacheHasNone, ListsHaveNone, SinceIsGone, Gone, LeftHasEnded

LEMMA NoListHasNone ==
    ASSUME SummariesInv
    PROVE  /\ NoList \in [pc : {"idle", "cache", "rows", "reads", "saves"},
                          found : SUBSET Strands, cached : SUBSET Strands,
                          rows : SUBSET Strands, seen : SUBSET Strands, since : SUBSET Strands]
           /\ NoList.rows = {} /\ NoList.seen = {} /\ NoList.since = {} /\ NoList.cached = {}
BY DEF NoList

LEMMA ListKeeps ==
    ASSUME SummariesInv, NEW c \in Listers,
           listStrands(c) \/ CacheRead(c) \/ RowsRead(c) \/ Save(c)
    PROVE  SummariesInv'
<1>1. CASE listStrands(c)
  <2> DEFINE l == [NoList EXCEPT !.pc = "cache", !.found = open, !.since = left \ raced]
  <2>1. /\ l \in [pc : {"idle", "cache", "rows", "reads", "saves"},
                  found : SUBSET Strands, cached : SUBSET Strands,
                  rows : SUBSET Strands, seen : SUBSET Strands, since : SUBSET Strands]
        /\ l.rows = {} /\ l.seen = {} /\ l.since = Gone /\ l.cached = {}
    BY ListTypes DEF NoList, Gone
  <2>2. list' = [list EXCEPT ![c] = l] /\ UNCHANGED <<open, ended, cache, leaving, left, raced>>
    BY <1>1 DEF listStrands
  <2> HIDE DEF l
  <2>3. QED BY <2>1, <2>2, ListTypes, ListStepKeeps
<1>2. CASE CacheRead(c)
  <2> DEFINE l == [list[c] EXCEPT !.pc = "rows", !.cached = cache, !.rows = list[c].found \cap open]
  <2>1. /\ l \in [pc : {"idle", "cache", "rows", "reads", "saves"},
                  found : SUBSET Strands, cached : SUBSET Strands,
                  rows : SUBSET Strands, seen : SUBSET Strands, since : SUBSET Strands]
        /\ l.rows \subseteq open /\ l.seen = list[c].seen /\ l.since = list[c].since /\ l.cached = cache
    BY ListTypes
  <2>2. list' = [list EXCEPT ![c] = l] /\ UNCHANGED <<open, ended, cache, leaving, left, raced>>
    BY <1>2, ListTypes DEF CacheRead, SummariesInv, SummariesTypeOK
  <2> HIDE DEF l
  <2>3. Gone \cap (l.rows \cup l.seen) = {} /\ l.since \subseteq Gone /\ l.since \cap l.cached = {}
    BY <2>1, ListTypes
  <2>4. QED BY <2>1, <2>2, <2>3, ListTypes, ListStepKeeps
<1>3. CASE RowsRead(c)
  <2>1. /\ UNCHANGED <<open, ended, cache, leaving, left, raced>>
        /\ \/ list' = [list EXCEPT ![c] = NoList]
           \/ list' = [list EXCEPT ![c] = [list[c] EXCEPT !.pc = "saves", !.seen = cache]]
    BY <1>3 DEF RowsRead, SummariesInv, SummariesTypeOK
  <2>2. CASE list' = [list EXCEPT ![c] = NoList]
    <3>1. cache' \subseteq Strands /\ Gone \cap cache' = {}
      BY <2>1, ListTypes
    <3>2. /\ Gone \cap (NoList.rows \cup NoList.seen) = {}
          /\ NoList.since \subseteq Gone /\ NoList.since \cap NoList.cached = {}
      BY NoListHasNone
    <3>3. QED BY <2>1, <2>2, <3>1, <3>2, NoListHasNone, ListStepKeeps
  <2>3. CASE list' = [list EXCEPT ![c] = [list[c] EXCEPT !.pc = "saves", !.seen = cache]]
    <3> DEFINE l == [list[c] EXCEPT !.pc = "saves", !.seen = cache]
    <3>1. /\ l \in [pc : {"idle", "cache", "rows", "reads", "saves"},
                    found : SUBSET Strands, cached : SUBSET Strands,
                    rows : SUBSET Strands, seen : SUBSET Strands, since : SUBSET Strands]
          /\ l.rows = list[c].rows /\ l.seen = cache /\ l.since = list[c].since
          /\ l.cached = list[c].cached
      BY ListTypes
    <3>2. list' = [list EXCEPT ![c] = l]
      BY <2>3
    <3> HIDE DEF l
    <3>3. Gone \cap (l.rows \cup l.seen) = {} /\ l.since \subseteq Gone /\ l.since \cap l.cached = {}
      BY <3>1, ListTypes
    <3>4. QED BY <2>1, <3>1, <3>2, <3>3, ListTypes, ListStepKeeps
  <2>4. QED BY <2>1, <2>2, <2>3
<1>4. CASE Save(c)
  <2>1. /\ cache' \in {cache, list[c].seen \cup list[c].rows} /\ list' = [list EXCEPT ![c] = NoList]
        /\ UNCHANGED <<open, ended, leaving, left, raced>>
    BY <1>4 DEF Save
  <2>2. cache' \subseteq Strands /\ Gone \cap cache' = {}
    BY <2>1, ListTypes
  <2>3. QED BY <2>1, <2>2, NoListHasNone, ListStepKeeps
<1>5. QED BY <1>1, <1>2, <1>3, <1>4

LEMMA FoundsKeeps ==
    ASSUME SummariesInv, NEW c \in Listers, NEW s \in Strands, Founds(c, s)
    PROVE  SummariesInv'
<1> DEFINE l == [NoList EXCEPT !.pc = "rows", !.rows = {s}, !.since = left \ raced]
<1>1. /\ l \in [pc : {"idle", "cache", "rows", "reads", "saves"},
                found : SUBSET Strands, cached : SUBSET Strands,
                rows : SUBSET Strands, seen : SUBSET Strands, since : SUBSET Strands]
      /\ l.rows = {s} /\ l.seen = {} /\ l.since = Gone /\ l.cached = {}
  BY ListTypes DEF NoList, Gone
<1>2. list' = [list EXCEPT ![c] = l] /\ UNCHANGED <<open, ended, cache, leaving, left, raced>>
  BY DEF Founds
<1>3. s \notin Gone
  BY DEF Founds, SummariesInv, LeftHasEnded, Gone
<1> HIDE DEF l
<1>4. Gone \cap (l.rows \cup l.seen) = {} /\ l.since \subseteq Gone /\ l.since \cap l.cached = {}
  BY <1>1, <1>3
<1>5. cache' \subseteq Strands /\ Gone \cap cache' = {}
  BY <1>2, ListTypes
<1>6. QED BY <1>1, <1>2, <1>4, <1>5, ListStepKeeps

(* Leaving begins: the strand is not open any more, and never will be. *)
LEMMA LeaveKeeps ==
    ASSUME SummariesInv, NEW s \in Strands, leave(s) PROVE SummariesInv'
<1>1. /\ s \in open /\ open' = open \ {s} /\ ended' = ended \cup {s}
      /\ leaving' = [leaving EXCEPT ![s].pc = "reads"]
      /\ UNCHANGED <<cache, list, left, raced>>
  BY DEF leave
<1>2. /\ leaving'[s].pc = "reads" /\ leaving'[s].seen = leaving[s].seen
      /\ \A t \in Strands \ {s} : leaving'[t] = leaving[t]
  BY <1>1 DEF SummariesInv, SummariesTypeOK
<1>3. SummariesTypeOK'
  BY <1>1 DEF SummariesInv, SummariesTypeOK
<1>4. LeftHasEnded'
  BY <1>1, <1>2 DEF SummariesInv, LeftHasEnded
<1>5. CacheHasNone' /\ ListsHaveNone' /\ SinceIsGone'
  BY <1>1 DEF SummariesInv, CacheHasNone, ListsHaveNone, SinceIsGone, Gone
<1>6. LeavesHaveNone'
  BY <1>1, <1>2 DEF SummariesInv, LeavesHaveNone, Gone
<1>7. QED BY <1>3, <1>4, <1>5, <1>6 DEF SummariesInv

(* A leave returns with its strand out of the cache: unless it raced, nobody has it. *)
LEMMA LeftKeeps ==
    ASSUME SummariesInv, NEW s \in Strands, leaving[s].pc # "no", Left(s),
           cache' \subseteq Strands, cache' \cap (Gone \cup {s}) = {},
           UNCHANGED <<open, ended, list>>
    PROVE  SummariesInv'
<1>1. /\ leaving' = [leaving EXCEPT ![s] = [pc |-> "no", seen |-> {}]] /\ left' = left \cup {s}
      /\ raced' \in {raced, raced \cup {s}}
      /\ s \notin raced' => /\ \A c \in Listers : s \notin list[c].rows \cup list[c].seen
                            /\ \A u \in Strands \ {s} : s \notin leaving[u].seen
  BY DEF Left
<1>2. /\ leaving'[s] = [pc |-> "no", seen |-> {}]
      /\ \A t \in Strands \ {s} : leaving'[t] = leaving[t]
  BY <1>1 DEF SummariesInv, SummariesTypeOK
<1>3. s \in ended /\ s \notin left
  BY DEF SummariesInv, LeftHasEnded
<1>4. Gone \subseteq Gone' /\ Gone' \subseteq Gone \cup {s} /\ (s \in Gone' => s \notin raced')
  BY <1>1, <1>3 DEF Gone
<1>5. SummariesTypeOK'
  BY <1>1 DEF SummariesInv, SummariesTypeOK
<1>6. LeftHasEnded'
  BY <1>1, <1>2, <1>3 DEF SummariesInv, LeftHasEnded
<1>7. CacheHasNone'
  BY <1>4 DEF SummariesInv, CacheHasNone
<1>8. ListsHaveNone' /\ SinceIsGone'
  BY <1>1, <1>4 DEF SummariesInv, ListsHaveNone, SinceIsGone
<1>9. LeavesHaveNone'
  BY <1>1, <1>2, <1>4 DEF SummariesInv, LeavesHaveNone
<1>10. QED BY <1>5, <1>6, <1>7, <1>8, <1>9 DEF SummariesInv

LEMMA ForgetKeeps ==
    ASSUME SummariesInv, NEW s \in Strands,
           ForgetReads(s) \/ ForgetSaves(s) \/ ForgetNotSaved(s)
    PROVE  SummariesInv'
<1>1. CASE ForgetReads(s) /\ s \in cache
  <2>1. /\ leaving[s].pc = "reads" /\ leaving' = [leaving EXCEPT ![s] = [pc |-> "saves", seen |-> cache]]
        /\ UNCHANGED <<open, ended, cache, list, left, raced>>
    BY <1>1 DEF ForgetReads
  <2>2. /\ leaving'[s] = [pc |-> "saves", seen |-> cache]
        /\ \A t \in Strands \ {s} : leaving'[t] = leaving[t]
    BY <2>1 DEF SummariesInv, SummariesTypeOK
  <2>3. SummariesTypeOK' /\ CacheHasNone' /\ ListsHaveNone' /\ SinceIsGone'
    BY <2>1 DEF SummariesInv, SummariesTypeOK, CacheHasNone, ListsHaveNone, SinceIsGone, Gone
  <2>4. LeftHasEnded' /\ LeavesHaveNone'
    BY <2>1, <2>2 DEF SummariesInv, LeftHasEnded, LeavesHaveNone, CacheHasNone, Gone
  <2>5. QED BY <2>3, <2>4 DEF SummariesInv
<1>2. CASE ForgetReads(s) /\ s \notin cache
  <2>1. /\ leaving[s].pc # "no" /\ Left(s) /\ UNCHANGED <<open, ended, list, cache>>
    BY <1>2 DEF ForgetReads
  <2>2. cache' \subseteq Strands /\ cache' \cap (Gone \cup {s}) = {}
    BY <1>2, <2>1 DEF SummariesInv, SummariesTypeOK, CacheHasNone
  <2>3. QED BY <2>1, <2>2, LeftKeeps
<1>3. CASE ForgetSaves(s)
  <2>1. /\ leaving[s].pc # "no" /\ Left(s) /\ UNCHANGED <<open, ended, list>>
        /\ cache' = leaving[s].seen \ {s}
    BY <1>3 DEF ForgetSaves
  <2>2. cache' \subseteq Strands /\ cache' \cap (Gone \cup {s}) = {}
    BY <2>1 DEF SummariesInv, SummariesTypeOK, LeavesHaveNone
  <2>3. QED BY <2>1, <2>2, LeftKeeps
<1>4. CASE ForgetNotSaved(s)
  <2>1. /\ leaving[s].pc = "saves"
        /\ leaving' = [leaving EXCEPT ![s] = [pc |-> "no", seen |-> {}]]
        /\ left' = left \cup {s} /\ raced' = raced \cup {s}
        /\ UNCHANGED <<open, ended, cache, list>>
    BY <1>4 DEF ForgetNotSaved
  <2>2. /\ leaving'[s] = [pc |-> "no", seen |-> {}]
        /\ \A t \in Strands \ {s} : leaving'[t] = leaving[t]
    BY <2>1 DEF SummariesInv, SummariesTypeOK
  <2>3. s \in ended /\ s \notin left
    BY <2>1 DEF SummariesInv, LeftHasEnded
  <2>4. Gone' = Gone
    BY <2>1, <2>3 DEF Gone
  <2>5. SummariesTypeOK' /\ CacheHasNone' /\ ListsHaveNone' /\ SinceIsGone'
    BY <2>1, <2>4 DEF SummariesInv, SummariesTypeOK, CacheHasNone, ListsHaveNone, SinceIsGone
  <2>6. LeftHasEnded' /\ LeavesHaveNone'
    BY <2>1, <2>2, <2>3, <2>4 DEF SummariesInv, LeftHasEnded, LeavesHaveNone
  <2>7. QED BY <2>5, <2>6 DEF SummariesInv
<1>5. QED BY <1>1, <1>2, <1>3, <1>4

LEMMA OpensKeeps ==
    ASSUME SummariesInv, NEW s \in Strands, Opens(s) PROVE SummariesInv'
BY DEF Opens, SummariesInv, SummariesTypeOK, LeftHasEnded, CacheHasNone, ListsHaveNone,
   LeavesHaveNone, SinceIsGone, Gone

LEMMA CrashKeeps ==
    ASSUME SummariesInv, Crash PROVE SummariesInv'
<1>1. /\ open' = {} /\ list' = [c \in Listers |-> NoList]
      /\ leaving' = [s \in Strands |-> [pc |-> "no", seen |-> {}]]
      /\ UNCHANGED <<ended, cache, left, raced>>
  BY DEF Crash
<1>2. SummariesTypeOK'
  BY <1>1, NoListHasNone DEF SummariesInv, SummariesTypeOK
<1>3. ListsHaveNone' /\ SinceIsGone'
  BY <1>1, NoListHasNone DEF ListsHaveNone, SinceIsGone
<1>4. LeftHasEnded' /\ CacheHasNone' /\ LeavesHaveNone'
  BY <1>1 DEF SummariesInv, LeftHasEnded, CacheHasNone, LeavesHaveNone, Gone
<1>5. QED BY <1>2, <1>3, <1>4 DEF SummariesInv

-----------------------------------------------------------------------------

LEMMA SummariesInitInv == SummariesInit => SummariesInv
<1> SUFFICES ASSUME SummariesInit PROVE SummariesInv
  OBVIOUS
<1>1. SummariesTypeOK
  <2>1. list \in [Listers -> [pc : {"idle", "cache", "rows", "reads", "saves"},
                    found : SUBSET Strands, cached : SUBSET Strands,
                    rows : SUBSET Strands, seen : SUBSET Strands, since : SUBSET Strands]]
    BY DEF SummariesInit, NoList
  <2>2. leaving \in [Strands -> [pc : {"no", "reads", "saves"}, seen : SUBSET Strands]]
    BY DEF SummariesInit
  <2>3. QED BY <2>1, <2>2 DEF SummariesInit, SummariesTypeOK
<1>2. LeftHasEnded /\ CacheHasNone /\ ListsHaveNone /\ LeavesHaveNone /\ SinceIsGone
  BY DEF SummariesInit, NoList, LeftHasEnded, CacheHasNone, ListsHaveNone, LeavesHaveNone,
     SinceIsGone, Gone
<1>3. QED BY <1>1, <1>2 DEF SummariesInv

LEMMA SummariesNextInv == SummariesInv /\ [SummariesNext]_summaryVars => SummariesInv'
<1> SUFFICES ASSUME SummariesInv, [SummariesNext]_summaryVars PROVE SummariesInv'
  OBVIOUS
<1>1. CASE Crash
  BY <1>1, CrashKeeps
<1>2. ASSUME NEW c \in Listers, listStrands(c) \/ CacheRead(c) \/ RowsRead(c) \/ Save(c)
      PROVE  SummariesInv'
  BY <1>2, ListKeeps
<1>3. ASSUME NEW c \in Listers, NEW s \in Strands, Founds(c, s) PROVE SummariesInv'
  BY <1>3, FoundsKeeps
<1>4. ASSUME NEW s \in Strands,
             leave(s) \/ ForgetReads(s) \/ ForgetSaves(s) \/ ForgetNotSaved(s) \/ Opens(s)
      PROVE  SummariesInv'
  BY <1>4, LeaveKeeps, ForgetKeeps, OpensKeeps
<1>5. CASE UNCHANGED summaryVars
  BY <1>5 DEF summaryVars, SummariesInv, SummariesTypeOK, LeftHasEnded, CacheHasNone,
     ListsHaveNone, LeavesHaveNone, SinceIsGone, Gone
<1>6. QED BY <1>1, <1>2, <1>3, <1>4, <1>5 DEF SummariesNext

(* A strand left on purpose does not come back as a connecting row (local-state.ts:107), with  *)
(* any number of lists, foundings and leaves under way, unless one of them held it then.       *)
LEMMA LeftForgottenAlone == SummariesSpec => []LeftIsForgotten
<1>1. SummariesInv => LeftIsForgotten
  BY DEF SummariesInv, SummariesTypeOK, CacheHasNone, ListsHaveNone, SinceIsGone, Gone,
     LeftIsForgotten
<1>2. QED BY <1>1, SummariesInitInv, SummariesNextInv, PTL DEF SummariesSpec

-----------------------------------------------------------------------------
(***************************************************************************)
(* Claiming.                                                               *)
(* ClaimIsShown, for any codes and any answers.  The inductive invariant   *)
(* adds that one way to begin a claim from the open screen is open at a    *)
(* time (its paste dialog, the scanner over it, or one dialog that offers  *)
(* to claim), and none while a claim of that screen is under way.          *)
(***************************************************************************)
DialogSet == [kind : {"confirm", "retry", "failed", "added"}, code : Codes, here : BOOLEAN]
ClaimSet == [code : Codes, here : BOOLEAN]

ClaimTypes ==
    /\ view \in {"gone", "manager", "scanner"} /\ pasting \in BOOLEAN
    /\ adding \in Codes \cup {None} /\ dialogs \in SUBSET DialogSet
    /\ claiming \in BOOLEAN /\ claims \in SUBSET ClaimSet
    /\ stuck \in BOOLEAN

Offering(d) == d \in dialogs /\ d.kind \in {"confirm", "retry"} /\ d.here

OneWayIn ==
    /\ pasting => view = "manager"
    /\ \A d \in DialogSet : Offering(d) => view = "manager" /\ ~pasting
    /\ \A d, e \in DialogSet : Offering(d) /\ Offering(e) => d = e
    /\ \A x \in claims : x.here => view = "manager" /\ ~pasting /\ \A d \in DialogSet : ~Offering(d)

ClaimInv == ClaimTypes /\ OneWayIn /\ Manager!ClaimIsShown

LEMMA ClaimInitInv == Manager!ClaimingConstants /\ Manager!ClaimingInit => ClaimInv
BY DEF Manager!ClaimingConstants, Manager!ClaimingInit, ClaimInv, ClaimTypes, OneWayIn, Offering, Manager!ClaimIsShown

(* Steps of the screen, its dialogs and the machines that begin and end no claim. *)
LEMMA ViewKeeps ==
    ASSUME Manager!ClaimingConstants, ClaimInv,
           \/ Manager!Device \/ Manager!Open \/ Manager!ScanCancelled \/ UNCHANGED Manager!claimingVars
           \/ \E scans \in BOOLEAN : Manager!AddMachine(scans)
    PROVE  ClaimInv'
<1>1. UNCHANGED <<adding, dialogs, claiming, claims, members, stuck>>
  BY DEF Manager!Device, Manager!Open, Manager!ScanCancelled, Manager!claimingVars, Manager!AddMachine,
         Manager!screenVars
<1>2. Manager!ClaimIsShown'
  BY <1>1 DEF ClaimInv, Manager!ClaimIsShown
<1>3. \/ UNCHANGED <<view, pasting>>
      \/ view' = "manager" /\ pasting' = pasting
      \/ /\ dialogs = {} /\ (adding = None) /\ view = "manager"
         /\ (view' = "scanner" /\ pasting' = FALSE) \/ (view' = "manager" /\ pasting' = TRUE)
  BY DEF Manager!Device, Manager!Open, Manager!ScanCancelled, Manager!claimingVars, Manager!AddMachine,
         Manager!screenVars, Manager!InFront
<1>4. ClaimTypes'
  BY <1>1, <1>3 DEF ClaimInv, ClaimTypes
<1>5. OneWayIn'
  <2>1. CASE UNCHANGED <<view, pasting>> \/ (view' = "manager" /\ pasting' = pasting)
    BY <1>1, <2>1 DEF ClaimInv, OneWayIn, Offering
  <2>2. CASE /\ dialogs = {} /\ (adding = None) /\ view = "manager"
             /\ (view' = "scanner" /\ pasting' = FALSE) \/ (view' = "manager" /\ pasting' = TRUE)
    <3>1. \A x \in claims : ~x.here
      BY <2>2 DEF ClaimInv, ClaimTypes, ClaimSet, Manager!ClaimIsShown, Manager!ClaimingConstants
    <3> QED BY <1>1, <2>2, <3>1 DEF OneWayIn, Offering
  <2> QED BY <1>3, <2>1, <2>2
<1> QED BY <1>2, <1>4, <1>5 DEF ClaimInv

(* A dialog to confirm opens over the screen, or one closes. *)
LEMMA DialogKeeps ==
    ASSUME Manager!ClaimingConstants, ClaimInv,
           \/ \E c \in Codes : Manager!Scan(c)
           \/ \E c \in Codes \cup {None} : Manager!Pasted(c)
           \/ \E d \in dialogs : Manager!Dismiss(d)
           \/ \E c \in late, accepted \in BOOLEAN : Manager!LateEnds(c, accepted)
    PROVE  ClaimInv'
<1>1. UNCHANGED <<adding, claiming, claims, stuck>> /\ members \subseteq members'
  BY DEF Manager!Scan, Manager!Pasted, Manager!Dismiss, Manager!LateEnds, Manager!screenVars
<1>2. \/ dialogs' \subseteq dialogs /\ UNCHANGED view /\ (pasting' => pasting)
      \/ /\ dialogs = {} /\ (view # "manager" \/ pasting) /\ view' = "manager" /\ ~pasting'
         /\ \E c \in Codes : dialogs' \subseteq {[kind |-> "confirm", code |-> c, here |-> TRUE]}
  <2>1. ASSUME NEW c \in Codes, Manager!Scan(c)
        PROVE  /\ dialogs = {} /\ view # "manager" /\ view' = "manager" /\ pasting' = pasting
               /\ dialogs' \subseteq {[kind |-> "confirm", code |-> c, here |-> TRUE]}
    BY <2>1 DEF Manager!Scan, Manager!Dialog
  <2>2. ~pasting \/ view = "manager"
    BY DEF ClaimInv, OneWayIn
  <2>3. ASSUME NEW c \in Codes \cup {None}, Manager!Pasted(c)
        PROVE  /\ dialogs = {} /\ pasting /\ ~pasting' /\ view' = view
               /\ dialogs' = {} \/ (c \in Codes /\ dialogs' = {[kind |-> "confirm", code |-> c, here |-> TRUE]})
    BY <2>3 DEF Manager!Pasted, Manager!Dialog
  <2>4. ASSUME NEW d \in dialogs, Manager!Dismiss(d) PROVE dialogs' \subseteq dialogs /\ UNCHANGED <<view, pasting>>
    BY <2>4 DEF Manager!Dismiss, Manager!screenVars
  <2>5. ASSUME NEW c \in late, NEW accepted \in BOOLEAN, Manager!LateEnds(c, accepted)
        PROVE  UNCHANGED <<dialogs, view, pasting>>
    BY <2>5 DEF Manager!LateEnds, Manager!screenVars
  <2> QED BY <2>1, <2>2, <2>3, <2>4, <2>5
<1>3. pasting' \in BOOLEAN /\ view' \in {"gone", "manager", "scanner"}
  BY DEF ClaimInv, ClaimTypes, Manager!Scan, Manager!Pasted, Manager!Dismiss, Manager!LateEnds, Manager!screenVars
<1>4. CASE dialogs' \subseteq dialogs /\ UNCHANGED view /\ (pasting' => pasting)
  BY <1>1, <1>3, <1>4 DEF ClaimInv, ClaimTypes, OneWayIn, Offering, Manager!ClaimIsShown
<1>5. CASE /\ dialogs = {} /\ (view # "manager" \/ pasting) /\ view' = "manager" /\ ~pasting'
           /\ \E c \in Codes : dialogs' \subseteq {[kind |-> "confirm", code |-> c, here |-> TRUE]}
  <2>1. PICK c \in Codes : dialogs' \subseteq {[kind |-> "confirm", code |-> c, here |-> TRUE]}
    BY <1>5
  <2>2. [kind |-> "confirm", code |-> c, here |-> TRUE] \in DialogSet
    BY DEF DialogSet
  <2>3. \A x \in claims : ~x.here
    BY <1>5 DEF ClaimInv, ClaimTypes, ClaimSet, OneWayIn
  <2>4. ClaimTypes'
    BY <1>1, <1>3, <2>1, <2>2 DEF ClaimInv, ClaimTypes
  <2>5. OneWayIn'
    BY <1>1, <1>5, <2>1, <2>3 DEF OneWayIn, Offering
  <2>6. Manager!ClaimIsShown'
    <3>1. \A d \in dialogs' : d.kind = "confirm"
      BY <2>1
    <3> QED BY <1>1, <3>1 DEF ClaimInv, Manager!ClaimIsShown
  <2> QED BY <2>4, <2>5, <2>6 DEF ClaimInv
<1> QED BY <1>2, <1>4, <1>5

LEMMA ScreenLeaveKeeps == ASSUME Manager!ClaimingConstants, ClaimInv, Manager!Leave PROVE ClaimInv'
<1>1. /\ dialogs = {} /\ ~pasting /\ view' = "gone" /\ adding' = None /\ stuck' = FALSE
      /\ claims' = {[x EXCEPT !.here = FALSE] : x \in claims}
      /\ UNCHANGED <<pasting, dialogs, claiming, members>>
  BY DEF Manager!Leave, Manager!InFront
<1>2. \A x \in claims : /\ [x EXCEPT !.here = FALSE] \in ClaimSet
                        /\ [x EXCEPT !.here = FALSE].here = FALSE /\ x \in ClaimSet
  BY DEF ClaimInv, ClaimTypes, ClaimSet
<1>3. claims' \in SUBSET ClaimSet /\ \A x \in claims' : ~x.here
  BY <1>1, <1>2
<1>4. (claims' # {} <=> claims # {}) /\ \A x, y \in claims' : x = y
  BY <1>1 DEF ClaimInv, Manager!ClaimIsShown
<1>5. ClaimTypes' /\ OneWayIn'
  BY <1>1, <1>3 DEF ClaimInv, ClaimTypes, OneWayIn, Offering
<1>6. Manager!ClaimIsShown'
  BY <1>1, <1>3, <1>4 DEF ClaimInv, Manager!ClaimIsShown
<1> QED BY <1>5, <1>6 DEF ClaimInv

LEMMA ConfirmKeeps ==
    ASSUME Manager!ClaimingConstants, ClaimInv, NEW d \in dialogs,
           Manager!ConfirmFails(d) \/ Manager!ConfirmThrows(d) \/ Manager!Confirm(d)
    PROVE  ClaimInv'
<1> USE DEF ClaimInv, ClaimTypes
<1>1. d \in DialogSet /\ d.code \in Codes /\ d.here \in BOOLEAN /\ d.kind \in {"confirm", "retry"}
      /\ (d.here => Offering(d) /\ view = "manager" /\ ~pasting /\ \A e \in DialogSet : Offering(e) => e = d)
      /\ (d.here => \A x \in claims : ~x.here)
      /\ UNCHANGED <<view, pasting, members>>
  <2>1. d \in DialogSet /\ d.kind \in {"confirm", "retry"}
    BY DEF Manager!ConfirmFails, Manager!ConfirmThrows, Manager!Confirm, Manager!Claims
  <2>2. d.code \in Codes /\ d.here \in BOOLEAN
    BY <2>1 DEF DialogSet
  <2>3. d.here => Offering(d)
    BY <2>1 DEF Offering
  <2>4. UNCHANGED <<view, pasting, members>>
    BY DEF Manager!ConfirmFails, Manager!ConfirmThrows, Manager!Confirm, Manager!screenVars
  <2> QED BY <2>1, <2>2, <2>3, <2>4 DEF OneWayIn
<1>2. CASE Manager!ConfirmFails(d)
  <2> DEFINE e == [kind |-> "retry", code |-> d.code, here |-> d.here]
  <2>1. /\ dialogs' = (dialogs \ {d}) \cup {e} /\ adding' = (IF d.here THEN None ELSE adding)
        /\ UNCHANGED <<claiming, claims, stuck>>
    BY <1>2 DEF Manager!ConfirmFails, Manager!Dialog
  <2>2. e \in DialogSet /\ e.kind = "retry" /\ e.here = d.here
    BY <1>1 DEF DialogSet
  <2> HIDE DEF e
  <2>3. \A f \in DialogSet : Offering(f)' => Offering(f) \/ (f = e /\ d.here)
    BY <2>1, <2>2 DEF Offering
  <2>4. d.here => \A f \in DialogSet : Offering(f)' => f = e
    BY <1>1, <2>1, <2>2, <2>3 DEF Offering
  <2>5. OneWayIn'
    <3>1. CASE d.here
      BY <1>1, <2>1, <2>4, <3>1 DEF OneWayIn
    <3>2. CASE ~d.here
      BY <1>1, <2>1, <2>3, <3>2 DEF OneWayIn
    <3> QED BY <3>1, <3>2
  <2>6. Manager!ClaimIsShown'
    BY <1>1, <2>1, <2>2 DEF Manager!ClaimIsShown
  <2> QED BY <1>1, <2>1, <2>2, <2>5, <2>6
<1>3. CASE Manager!ConfirmThrows(d)
  <2>1. /\ dialogs' = dialogs \ {d} /\ adding' = (IF d.here THEN d.code ELSE adding) /\ ~claiming
        /\ stuck' = (stuck \/ d.here) /\ UNCHANGED <<claiming, claims>>
    BY <1>3 DEF Manager!ConfirmThrows
  <2>2. claims = {} /\ stuck' \in BOOLEAN /\ (stuck => stuck') /\ (d.here => stuck')
    BY <1>1, <2>1 DEF Manager!ClaimIsShown
  <2>3. OneWayIn'
    BY <1>1, <2>1, <2>2 DEF OneWayIn, Offering
  <2>4. Manager!ClaimIsShown'
    BY <1>1, <2>1, <2>2 DEF Manager!ClaimIsShown
  <2> QED BY <1>1, <2>1, <2>2, <2>3, <2>4
<1>4. CASE Manager!Confirm(d)
  <2> DEFINE x == [code |-> d.code, here |-> d.here]
  <2>1. /\ dialogs' = dialogs \ {d} /\ adding' = (IF d.here THEN d.code ELSE adding) /\ ~claiming
        /\ claiming' = TRUE /\ claims' = claims \cup {x} /\ UNCHANGED stuck
    BY <1>4 DEF Manager!Confirm, Manager!Claim
  <2>2. claims = {}
    BY <2>1 DEF Manager!ClaimIsShown
  <2>3. x \in ClaimSet /\ x.code = d.code /\ x.here = d.here
    BY <1>1 DEF ClaimSet
  <2>4. d.here => x = [code |-> d.code, here |-> TRUE]
    BY <1>1
  <2> HIDE DEF x
  <2>5. OneWayIn'
    <3>1. CASE d.here
      BY <1>1, <2>1, <2>2, <3>1 DEF OneWayIn, Offering
    <3>2. CASE ~d.here
      BY <1>1, <2>1, <2>2, <2>3, <3>2 DEF OneWayIn, Offering
    <3> QED BY <3>1, <3>2
  <2>6. Manager!ClaimIsShown'
    <3>1. CASE d.here
      BY <1>1, <2>1, <2>2, <2>3, <2>4, <3>1 DEF Manager!ClaimIsShown, Manager!Claim
    <3>2. CASE ~d.here
      BY <1>1, <2>1, <2>2, <2>3, <3>2 DEF Manager!ClaimIsShown, Manager!Claim
    <3> QED BY <3>1, <3>2
  <2> QED BY <1>1, <2>1, <2>2, <2>3, <2>5, <2>6
<1> QED BY <1>2, <1>3, <1>4

LEMMA AnswersKeep ==
    ASSUME Manager!ClaimingConstants, ClaimInv, NEW x \in claims,
           \/ Manager!ClaimAccepted(x) \/ Manager!ClaimTimesOut(x)
           \/ \E kind \in {"failed", "retry"} : Manager!ClaimFails(x, kind)
    PROVE  ClaimInv'
<1> USE DEF ClaimInv, ClaimTypes
<1>1. x \in ClaimSet /\ x.code \in Codes /\ x.here \in BOOLEAN /\ claims = {x} /\ claiming
      /\ (x.here => view = "manager" /\ ~pasting /\ adding = x.code /\ \A d \in DialogSet : ~Offering(d))
  BY DEF ClaimSet, OneWayIn, Manager!ClaimIsShown
<1>2. PICK kind \in {"added", "failed", "retry"} :
        /\ claims' = claims \ {x} /\ claiming' = FALSE
        /\ adding' = IF x.here THEN None ELSE adding
        /\ dialogs' = dialogs \cup {[kind |-> kind, code |-> x.code, here |-> x.here]}
        /\ members \subseteq members' /\ (kind = "added" => x.code \in members')
        /\ UNCHANGED <<view, pasting, stuck>>
  BY DEF Manager!ClaimAccepted, Manager!ClaimTimesOut, Manager!ClaimFails, Manager!Answer, Manager!Dialog,
         Manager!screenVars
<1> DEFINE e == [kind |-> kind, code |-> x.code, here |-> x.here]
<1>3. e \in DialogSet /\ e.kind = kind /\ e.code = x.code /\ e.here = x.here /\ dialogs' = dialogs \cup {e}
  BY <1>1, <1>2 DEF DialogSet
<1> HIDE DEF e
<1>4. claims' = {}
  BY <1>1, <1>2
<1>5. OneWayIn'
  <2>1. \A d \in DialogSet : Offering(d)' => Offering(d) \/ (d = e /\ x.here)
    BY <1>3 DEF Offering
  <2> QED BY <1>1, <1>2, <1>4, <2>1 DEF OneWayIn
<1>6. adding' # None /\ ~stuck' => FALSE
  BY <1>1, <1>2 DEF Manager!ClaimIsShown, Manager!Claim
<1>7. Manager!ClaimIsShown'
  BY <1>2, <1>3, <1>4, <1>6 DEF Manager!ClaimIsShown
<1> QED BY <1>1, <1>2, <1>3, <1>4, <1>5, <1>7

LEMMA ClaimingStep ==
    Manager!ClaimingConstants /\ ClaimInv /\ [Manager!ClaimingNext]_(Manager!claimingVars) => ClaimInv'
BY ViewKeeps, DialogKeeps, ScreenLeaveKeeps, ConfirmKeeps, AnswersKeep, Zenon DEF Manager!ClaimingNext

-----------------------------------------------------------------------------
(***************************************************************************)
(* Searching.                                                              *)
(* AnswerIsWhole, for any finite set of strands and any typing.  The       *)
(* inductive invariant says that the search shown as running is the one    *)
(* sweep not abandoned, and counts what that sweep did: a strand is left,  *)
(* being read, found or skipped, and in one of these only; and what it     *)
(* went through is what the screen was told and what it has yet to tell.   *)
(***************************************************************************)
SweepSet == [q : Nat, left : SUBSET KnownStrands, at : KnownStrands \cup {None}, begun : BOOLEAN,
             searched : Nat, skipped : Nat, aborted : BOOLEAN]

SearchTypes ==
    /\ query \in Nat /\ typed \in Nat /\ sweeps \in SUBSET SweepSet /\ running \in BOOLEAN /\ ran \in Nat
    /\ hits \in SUBSET (Nat \X KnownStrands) /\ IsFiniteSet(hits)
    /\ progress \in [searched : Nat, skipped : Nat] \cup {None} /\ unsaid \in SUBSET KnownStrands

Doing(w) == IF w.at = None THEN 0 ELSE 1

(* What a sweep that was not abandoned has done, by what is shown. *)
Counted(w, rows) ==
    /\ Cardinality(w.left) + w.searched = Cardinality(KnownStrands)
    /\ Cardinality(rows) + w.skipped + Doing(w) = w.searched
    /\ \A h \in rows : h[2] \notin w.left /\ h[2] # w.at
    /\ w.at \notin w.left

Summed(told) == IF told = None THEN 0 ELSE told.searched

Told(w, told, closed) ==
    /\ Summed(told) + Cardinality(closed) + Doing(w) = w.searched
    /\ \A s \in closed : s \notin w.left

LiveSweep(w, rows, told, closed) == w.q = ran /\ Counted(w, rows) /\ Told(w, told, closed)

SearchInv ==
    /\ SearchTypes
    /\ \A w \in sweeps : ~w.aborted => running
    /\ running => \E w \in sweeps : ~w.aborted
    /\ \A v, w \in sweeps : ~v.aborted /\ ~w.aborted => v = w
    /\ \A w \in sweeps : ~w.aborted => LiveSweep(w, hits, progress, unsaid)
    /\ Search!AnswerIsWhole

LEMMA KnownFinite ==
    ASSUME Search!SearchConstants
    PROVE  /\ IsFiniteSet(KnownStrands) /\ Cardinality(KnownStrands) \in Nat /\ None \notin KnownStrands
           /\ \A S \in SUBSET KnownStrands : IsFiniteSet(S) /\ Cardinality(S) \in Nat
<1>1. IsFiniteSet(KnownStrands) /\ None \notin KnownStrands
  BY DEF Search!SearchConstants, Search!IsFiniteSet, IsFiniteSet
<1> QED BY <1>1, FS_Subset, FS_CardinalityType

LEMMA SearchInitInv == Search!SearchConstants /\ Search!SearchInit => SearchInv
<1> SUFFICES ASSUME Search!SearchConstants, Search!SearchInit PROVE SearchInv
  OBVIOUS
<1>1. IsFiniteSet({})
  BY FS_EmptySet
<1>2. SearchTypes /\ sweeps = {} /\ hits = {} /\ progress = None /\ ~running
  BY <1>1 DEF Search!SearchInit, SearchTypes
<1>3. ran = 0
  BY DEF Search!SearchInit
<1> QED BY <1>2, <1>3 DEF SearchInv, Search!AnswerIsWhole

(* A text is typed, a strand opens or closes, the nicknames were read. *)
LEMMA TypingKeeps ==
    ASSUME Search!SearchConstants, SearchInv,
           \/ \E clears \in BOOLEAN : Search!SearchTyped(clears)
           \/ \E s \in KnownStrands : Search!OpensOrCloses(s)
           \/ UNCHANGED Search!searchVars
    PROVE  SearchInv'
<1>1. UNCHANGED <<sweeps, hits, progress, running, ran, unsaid>> /\ query' \in Nat /\ typed' \in Nat
  BY DEF Search!SearchTyped, Search!OpensOrCloses, Search!searchVars, SearchInv, SearchTypes
<1>2. SearchTypes'
  BY <1>1 DEF SearchInv, SearchTypes
<1>3. Search!AnswerIsWhole'
  BY <1>1 DEF SearchInv, Search!AnswerIsWhole, Search!Said
<1> QED BY <1>1, <1>2, <1>3 DEF SearchInv, LiveSweep

LEMMA RunKeeps == ASSUME Search!SearchConstants, SearchInv, Search!run PROVE SearchInv'
<1> DEFINE new == [q |-> query, left |-> KnownStrands, at |-> None, begun |-> FALSE,
                   searched |-> 0, skipped |-> 0, aborted |-> FALSE]
           old == {[w EXCEPT !.aborted = TRUE] : w \in sweeps}
<1>1. /\ hits' = {} /\ progress' = None /\ ran' = query /\ running' = (query # 0) /\ UNCHANGED <<query, typed>>
      /\ unsaid' = {}
      /\ sweeps' = old \cup (IF query = 0 THEN {} ELSE {new})
  BY DEF Search!run, Search!Aborted
<1>2. \A x \in old : x \in SweepSet /\ x.aborted
  <2>1. \A w \in sweeps : [w EXCEPT !.aborted = TRUE] \in SweepSet /\ [w EXCEPT !.aborted = TRUE].aborted
    BY DEF SearchInv, SearchTypes, SweepSet
  <2> QED BY <2>1
<1>3. /\ new \in SweepSet /\ ~new.aborted /\ new.q = query /\ new.left = KnownStrands /\ new.at = None
      /\ new.searched = 0 /\ new.skipped = 0
  BY DEF SearchInv, SearchTypes, SweepSet
<1> HIDE DEF new, old
<1>4. IsFiniteSet({}) /\ Cardinality({}) = 0
  BY FS_EmptySet
<1>5. SearchTypes'
  <2>1. sweeps' \in SUBSET SweepSet
    BY <1>1, <1>2, <1>3
  <2> QED BY <1>1, <1>4, <2>1 DEF SearchInv, SearchTypes
<1>6. \A x \in sweeps' : ~x.aborted => x = new /\ query # 0
  BY <1>1, <1>2
<1>7. Counted(new, {}) /\ Told(new, None, {})
  BY <1>3, <1>4, KnownFinite DEF Counted, Doing, Told, Summed
<1>8. \A x \in sweeps' : ~x.aborted => LiveSweep(x, hits, progress, unsaid)'
  <2>1. ASSUME NEW x \in sweeps', ~x.aborted PROVE x.q = ran' /\ Counted(x, hits') /\ Told(x, progress', unsaid')
    BY <1>1, <1>3, <1>6, <1>7, <2>1
  <2> QED BY <2>1 DEF LiveSweep, Counted, Told, Doing, Summed
<1>9. Search!AnswerIsWhole'
  BY <1>1 DEF Search!AnswerIsWhole
<1>10. /\ \A w \in sweeps' : ~w.aborted => running'
       /\ running' => \E w \in sweeps' : ~w.aborted
       /\ \A v, w \in sweeps' : ~v.aborted /\ ~w.aborted => v = w
  BY <1>1, <1>3, <1>6
<1> QED BY <1>5, <1>8, <1>9, <1>10 DEF SearchInv

(* An abandoned sweep goes on, or ends: nothing is shown of it. *)
LEMMA AbandonedKeeps ==
    ASSUME Search!SearchConstants, SearchInv, NEW w \in sweeps, w.aborted, NEW x \in SweepSet, x.aborted,
           sweeps' \in {sweeps \ {w}, (sweeps \ {w}) \cup {x}},
           UNCHANGED <<query, typed, hits, progress, running, ran, unsaid>>
    PROVE  SearchInv'
<1>1. SearchTypes'
  BY DEF SearchInv, SearchTypes
<1>2. \A v : (v \in sweeps' /\ ~v.aborted) <=> (v \in sweeps /\ ~v.aborted)
  OBVIOUS
<1>3. Search!AnswerIsWhole'
  BY DEF SearchInv, Search!AnswerIsWhole, Search!Said
<1>4. \A v \in sweeps' : ~v.aborted => LiveSweep(v, hits, progress, unsaid)'
  BY <1>2 DEF SearchInv, LiveSweep, Counted, Told, Doing, Summed
<1> QED BY <1>1, <1>2, <1>3, <1>4 DEF SearchInv

(* The sweep that runs takes a step. *)
LEMMA SweepKeeps ==
    ASSUME Search!SearchConstants, SearchInv, NEW w \in sweeps, ~w.aborted, NEW x \in SweepSet, ~x.aborted,
           x.q = w.q, sweeps' = (sweeps \ {w}) \cup {x}, UNCHANGED <<query, typed, running, ran>>,
           hits' \in SUBSET (Nat \X KnownStrands), IsFiniteSet(hits'), \A h \in hits' : h \in hits \/ h[1] = w.q,
           progress' \in [searched : Nat, skipped : Nat] \cup {None}, unsaid' \in SUBSET KnownStrands,
           progress' # None => Cardinality(hits') + progress'.skipped = progress'.searched,
           Counted(x, hits'), Told(x, progress', unsaid')
    PROVE  SearchInv'
<1>1. SearchTypes'
  BY DEF SearchInv, SearchTypes
<1>2. running /\ w.q = ran
  BY DEF SearchInv, LiveSweep
<1>3. \A v \in sweeps' : ~v.aborted => v = x
  BY DEF SearchInv
<1>4. Search!AnswerIsWhole'
  <2>1. \A S : Search!Cardinality(S) = Cardinality(S)
    BY DEF Search!Cardinality, Cardinality
  <2> QED BY <1>2, <2>1 DEF SearchInv, Search!AnswerIsWhole
<1>5. \A v \in sweeps' : ~v.aborted => LiveSweep(v, hits, progress, unsaid)'
  <2>1. x.q = ran' /\ Counted(x, hits') /\ Told(x, progress', unsaid')
    BY <1>2
  <2> QED BY <1>3, <2>1 DEF LiveSweep, Counted, Told, Doing, Summed
<1> QED BY <1>1, <1>2, <1>3, <1>4, <1>5 DEF SearchInv

LEMMA BegunKeeps ==
    ASSUME Search!SearchConstants, SearchInv, NEW w \in sweeps, Search!Begun(w) PROVE SearchInv'
<1> DEFINE x == [w EXCEPT !.begun = TRUE]
<1>1. /\ sweeps' = (sweeps \ {w}) \cup {x} /\ UNCHANGED <<query, typed, hits, progress, running, ran, unsaid>>
  BY DEF Search!Begun, Search!Becomes
<1>2. /\ x \in SweepSet /\ x.q = w.q /\ x.left = w.left /\ x.at = w.at /\ x.searched = w.searched
      /\ x.skipped = w.skipped /\ x.aborted = w.aborted
  BY DEF SearchInv, SearchTypes, SweepSet
<1> HIDE DEF x
<1>3. CASE w.aborted
  BY <1>1, <1>2, <1>3, AbandonedKeeps
<1>4. CASE ~w.aborted
  <2>1. Counted(x, hits') /\ Told(x, progress', unsaid')
    BY <1>1, <1>2, <1>4 DEF SearchInv, LiveSweep, Counted, Told, Doing, Summed
  <2>2. /\ hits' \in SUBSET (Nat \X KnownStrands) /\ IsFiniteSet(hits')
        /\ progress' \in [searched : Nat, skipped : Nat] \cup {None} /\ unsaid' \in SUBSET KnownStrands
    BY <1>1 DEF SearchInv, SearchTypes
  <2>3. progress' # None => Cardinality(hits') + progress'.skipped = progress'.searched
    <3>1. Search!Cardinality(hits) = Cardinality(hits)
      BY DEF Search!Cardinality, Cardinality
    <3> QED BY <1>1, <3>1 DEF SearchInv, Search!AnswerIsWhole
  <2> QED BY <1>1, <1>2, <1>4, <2>1, <2>2, <2>3, SweepKeeps
<1> QED BY <1>3, <1>4

LEMMA EndsKeeps ==
    ASSUME Search!SearchConstants, SearchInv, NEW w \in sweeps, Search!SweepEnds(w) PROVE SearchInv'
<1>1. /\ w.at = None /\ (w.aborted \/ w.left = {}) /\ sweeps' = sweeps \ {w}
      /\ running' = (running /\ w.aborted) /\ UNCHANGED <<query, typed, hits, progress, ran, unsaid>>
  BY DEF Search!SweepEnds
<1>2. CASE w.aborted
  <2>1. running' = running /\ w \in SweepSet
    BY <1>1, <1>2 DEF SearchInv, SearchTypes
  <2> QED BY <1>1, <1>2, <2>1, AbandonedKeeps
<1>3. CASE ~w.aborted
  <2>1. ~running' /\ running' \in BOOLEAN
    BY <1>1, <1>3
  <2>2. \A v \in sweeps' : v.aborted
    BY <1>1, <1>3 DEF SearchInv
  <2>3. SearchTypes'
    BY <1>1, <2>1 DEF SearchInv, SearchTypes
  <2>4. Search!AnswerIsWhole'
    <3>1. Counted(w, hits) /\ Told(w, progress, unsaid)
      BY <1>3 DEF SearchInv, LiveSweep
    <3>2. Cardinality(w.left) = 0
      BY <1>1, <1>3, FS_EmptySet
    <3>3. /\ w.searched \in Nat /\ Cardinality(KnownStrands) \in Nat /\ Cardinality(unsaid) \in Nat
          /\ Summed(progress) \in Nat
      BY KnownFinite DEF SearchInv, SearchTypes, SweepSet, Summed
    <3>4. w.searched = Cardinality(KnownStrands)
      BY <3>1, <3>2, <3>3 DEF Counted
    <3>5. Summed(progress) + Cardinality(unsaid) = Cardinality(KnownStrands)
      BY <1>1, <3>1, <3>3, <3>4 DEF Told, Doing
    <3>6. \A S : Search!Cardinality(S) = Cardinality(S)
      BY DEF Search!Cardinality, Cardinality
    <3> QED BY <1>1, <3>5, <3>6 DEF SearchInv, Search!AnswerIsWhole, Search!Said, Summed
  <2> QED BY <2>1, <2>2, <2>3, <2>4 DEF SearchInv
<1> QED BY <1>2, <1>3

(* The next strand: read when it has a database, skipped when it has not. *)
LEMMA VisitKeeps ==
    ASSUME Search!SearchConstants, SearchInv, NEW w \in sweeps, NEW s \in KnownStrands, Search!Visit(w, s)
    PROVE  SearchInv'
<1>1. ~w.aborted /\ w.at = None /\ s \in w.left /\ UNCHANGED <<query, typed, running, ran>> /\ w \in SweepSet
  BY DEF Search!Visit, Search!Continues, SearchInv, SearchTypes
<1> DEFINE y == [w EXCEPT !.left = @ \ {s}, !.searched = @ + 1]
<1>2. /\ y \in SweepSet /\ y.left = w.left \ {s} /\ y.searched = w.searched + 1 /\ y.q = w.q /\ y.at = None
      /\ y.skipped = w.skipped /\ ~y.aborted
  <2>1. w.searched + 1 \in Nat /\ w.left \ {s} \in SUBSET KnownStrands
    BY <1>1 DEF SweepSet
  <2>2. y \in SweepSet
    BY <1>1, <2>1 DEF SweepSet
  <2>3. y.left = w.left \ {s} /\ y.searched = w.searched + 1
    BY <1>1 DEF SweepSet
  <2>4. y.q = w.q /\ y.at = w.at /\ y.skipped = w.skipped /\ y.aborted = w.aborted
    BY <1>1 DEF SweepSet
  <2> QED BY <1>1, <2>2, <2>3, <2>4
<1>3. /\ UNCHANGED <<hits, progress>>
      /\ \/ sweeps' = (sweeps \ {w}) \cup {[y EXCEPT !.at = s]} /\ unsaid' = unsaid
         \/ sweeps' = (sweeps \ {w}) \cup {[y EXCEPT !.skipped = @ + 1]} /\ unsaid' = unsaid \cup {s}
  BY <1>1 DEF Search!Visit, Search!Becomes
<1> HIDE DEF y
<1>4. PICK x \in SweepSet :
        /\ sweeps' = (sweeps \ {w}) \cup {x}
        /\ x.left = w.left \ {s} /\ x.searched = w.searched + 1 /\ x.q = w.q /\ ~x.aborted
        /\ \/ x.at = s /\ x.skipped = w.skipped /\ unsaid' = unsaid
           \/ x.at = None /\ x.skipped = w.skipped + 1 /\ unsaid' = unsaid \cup {s}
  <2>1. CASE sweeps' = (sweeps \ {w}) \cup {[y EXCEPT !.at = s]} /\ unsaid' = unsaid
    <3> DEFINE x == [y EXCEPT !.at = s]
    <3>1. /\ x \in SweepSet /\ x.left = y.left /\ x.searched = y.searched /\ x.q = y.q /\ x.aborted = y.aborted
          /\ x.at = s /\ x.skipped = y.skipped
      BY <1>2 DEF SweepSet
    <3>2. sweeps' = (sweeps \ {w}) \cup {x}
      BY <2>1
    <3> HIDE DEF x
    <3> QED BY <1>2, <2>1, <3>1, <3>2
  <2>2. CASE sweeps' = (sweeps \ {w}) \cup {[y EXCEPT !.skipped = @ + 1]} /\ unsaid' = unsaid \cup {s}
    <3> DEFINE x == [y EXCEPT !.skipped = @ + 1]
    <3>1. /\ x \in SweepSet /\ x.left = y.left /\ x.searched = y.searched /\ x.q = y.q /\ x.aborted = y.aborted
          /\ x.at = y.at /\ x.skipped = y.skipped + 1
      BY <1>2 DEF SweepSet
    <3>2. sweeps' = (sweeps \ {w}) \cup {x}
      BY <2>2
    <3> HIDE DEF x
    <3> QED BY <1>2, <2>2, <3>1, <3>2
  <2> QED BY <1>3, <2>1, <2>2
<1>5. Counted(w, hits) /\ hits \in SUBSET (Nat \X KnownStrands) /\ IsFiniteSet(hits)
  BY <1>1 DEF SearchInv, SearchTypes, LiveSweep
<1>6. w.left \in SUBSET KnownStrands /\ w.searched \in Nat /\ w.skipped \in Nat /\ Cardinality(hits) \in Nat
  BY <1>1, <1>5, FS_CardinalityType DEF SweepSet
<1>7. Cardinality(x.left) = Cardinality(w.left) - 1 /\ Cardinality(w.left) \in Nat /\ Cardinality(x.left) \in Nat
  BY <1>1, <1>4, <1>6, KnownFinite, FS_RemoveElement
<1>8. s # None
  BY KnownFinite
<1>9. Cardinality(x.left) + x.searched = Cardinality(KnownStrands)
  BY <1>4, <1>5, <1>6, <1>7, KnownFinite DEF Counted
<1>10. Cardinality(hits) + x.skipped + Doing(x) = x.searched
  BY <1>1, <1>4, <1>5, <1>6, <1>8 DEF Counted, Doing
<1>11. (\A h \in hits : h[2] \notin x.left /\ h[2] # x.at) /\ x.at \notin x.left
  <2>1. \A h \in hits : h[2] \notin w.left /\ h[2] \in KnownStrands
    BY <1>5 DEF Counted
  <2>2. x.at \in {s, None} /\ None \notin KnownStrands
    BY <1>4, KnownFinite
  <2> QED BY <1>1, <1>4, <1>6, <2>1, <2>2
<1>12. Told(w, progress, unsaid) /\ unsaid \in SUBSET KnownStrands /\ Summed(progress) \in Nat
       /\ progress \in [searched : Nat, skipped : Nat] \cup {None}
  BY <1>1 DEF SearchInv, SearchTypes, LiveSweep, Summed
<1>13. Told(x, progress, unsaid')
  <2>1. IsFiniteSet(unsaid) /\ Cardinality(unsaid) \in Nat /\ s \notin unsaid
    BY <1>1, <1>12, KnownFinite DEF Told
  <2>2. Cardinality(unsaid \cup {s}) = Cardinality(unsaid) + 1
    BY <2>1, FS_AddElement
  <2>3. Summed(progress) + Cardinality(unsaid) = w.searched
    BY <1>1, <1>6, <1>12, <2>1 DEF Told, Doing
  <2>4. Summed(progress) + Cardinality(unsaid') + Doing(x) = x.searched
    <3>1. CASE x.at = s /\ unsaid' = unsaid
      BY <1>4, <1>6, <1>8, <1>12, <2>1, <2>3, <3>1 DEF Doing
    <3>2. CASE x.at = None /\ unsaid' = unsaid \cup {s}
      BY <1>4, <1>6, <1>12, <2>1, <2>2, <2>3, <3>2 DEF Doing
    <3> QED BY <1>4, <3>1, <3>2
  <2>5. \A u \in unsaid' : u \notin x.left
    BY <1>4, <1>12 DEF Told
  <2> QED BY <2>4, <2>5 DEF Told
<1>14. progress # None => Cardinality(hits) + progress.skipped = progress.searched
  <2>1. Search!Cardinality(hits) = Cardinality(hits)
    BY DEF Search!Cardinality, Cardinality
  <2> QED BY <2>1 DEF SearchInv, Search!AnswerIsWhole
<1>15. Counted(x, hits)
  BY <1>9, <1>10, <1>11 DEF Counted
<1>16. /\ hits' = hits /\ progress' = progress /\ unsaid' \in SUBSET KnownStrands
  BY <1>3, <1>4, <1>12
<1> QED BY <1>1, <1>4, <1>5, <1>12, <1>13, <1>14, <1>15, <1>16, SweepKeeps

LEMMA ReadKeeps ==
    ASSUME Search!SearchConstants, SearchInv, NEW w \in sweeps, NEW fails \in BOOLEAN, Search!MessagesRead(w, fails)
    PROVE  SearchInv'
<1> DEFINE x == [w EXCEPT !.at = None, !.skipped = IF fails THEN @ + 1 ELSE @]
           found == IF fails THEN {} ELSE {<<w.q, w.at>>}
<1>1. w.at # None /\ UNCHANGED <<query, typed, running, ran>> /\ w \in SweepSet /\ Search!Batch(w, x, found)
  BY DEF Search!MessagesRead, SearchInv, SearchTypes
<1>2. /\ x \in SweepSet /\ x.left = w.left /\ x.searched = w.searched /\ x.q = w.q /\ x.aborted = w.aborted
      /\ x.at = None /\ x.skipped = w.skipped + (IF fails THEN 1 ELSE 0)
  <2> DEFINE n == IF fails THEN w.skipped + 1 ELSE w.skipped
  <2>1. n \in Nat /\ n = w.skipped + (IF fails THEN 1 ELSE 0)
    BY <1>1 DEF SweepSet
  <2>2. x = [w EXCEPT !.at = None, !.skipped = n]
    OBVIOUS
  <2> HIDE DEF n, x
  <2>3. x \in SweepSet
    BY <1>1, <2>1, <2>2 DEF SweepSet
  <2>4. /\ x.left = w.left /\ x.searched = w.searched /\ x.q = w.q /\ x.aborted = w.aborted
        /\ x.at = None /\ x.skipped = n
    BY <1>1, <2>2 DEF SweepSet
  <2> QED BY <2>1, <2>3, <2>4
<1> HIDE DEF x
<1>3. CASE w.aborted
  BY <1>1, <1>2, <1>3, AbandonedKeeps DEF Search!Batch
<1>4. CASE ~w.aborted
  <2>1. /\ sweeps' = (sweeps \ {w}) \cup {x} /\ hits' = hits \cup found
        /\ progress' = [searched |-> x.searched, skipped |-> x.skipped] /\ unsaid' = {}
    BY <1>1, <1>4 DEF Search!Batch, Search!Becomes
  <2>2. Counted(w, hits) /\ hits \in SUBSET (Nat \X KnownStrands) /\ IsFiniteSet(hits)
    BY <1>4 DEF SearchInv, SearchTypes, LiveSweep
  <2>3. w.at \in KnownStrands /\ w.q \in Nat /\ w.searched \in Nat /\ w.skipped \in Nat /\ Cardinality(hits) \in Nat
        /\ w.left \in SUBSET KnownStrands
    BY <1>1, <2>2, FS_CardinalityType DEF SweepSet
  <2>4. Cardinality(hits) + w.skipped + 1 = w.searched
    BY <1>1, <2>2 DEF Counted, Doing
  <2>5. /\ hits' \in SUBSET (Nat \X KnownStrands) /\ IsFiniteSet(hits')
        /\ Cardinality(hits') + x.skipped = x.searched
        /\ \A h \in hits' : h \in hits \/ (h[1] = w.q /\ h[2] = w.at)
    <3>1. CASE fails
      <4>1. hits' = hits
        BY <2>1, <3>1
      <4> QED BY <1>2, <2>2, <2>3, <2>4, <3>1, <4>1
    <3>2. CASE ~fails
      <4>1. hits' = hits \cup {<<w.q, w.at>>} /\ <<w.q, w.at>> \in Nat \X KnownStrands
        BY <2>1, <2>3, <3>2
      <4>2. <<w.q, w.at>> \notin hits
        <5>1. \A h \in hits : h[2] # w.at
          BY <2>2 DEF Counted
        <5> QED BY <5>1
      <4>3. IsFiniteSet(hits') /\ Cardinality(hits') = Cardinality(hits) + 1
        BY <2>2, <4>1, <4>2, FS_AddElement
      <4>4. Cardinality(hits') + x.skipped = x.searched
        BY <1>2, <2>3, <2>4, <3>2, <4>3
      <4>5. \A h \in hits' : h \in hits \/ (h[1] = w.q /\ h[2] = w.at)
        BY <4>1
      <4> QED BY <2>2, <4>1, <4>3, <4>4, <4>5
    <3> QED BY <3>1, <3>2
  <2>6. \A h \in hits' : h[2] \notin x.left /\ h[2] # x.at
    <3>1. \A h \in hits' : h[2] \in KnownStrands /\ h[2] \notin w.left
      BY <2>2, <2>5 DEF Counted
    <3> QED BY <1>2, <3>1, KnownFinite
  <2>7. x.at \notin x.left /\ Cardinality(x.left) + x.searched = Cardinality(KnownStrands)
    BY <1>2, <2>2, <2>3, KnownFinite DEF Counted
  <2>8. Cardinality(hits') + x.skipped + Doing(x) = x.searched
    <3>1. Doing(x) = 0 /\ Cardinality(hits') \in Nat /\ x.skipped \in Nat
      BY <1>2, <2>5, FS_CardinalityType DEF Doing, SweepSet
    <3> QED BY <2>5, <3>1
  <2>9. /\ progress' \in [searched : Nat, skipped : Nat] \cup {None} /\ unsaid' \in SUBSET KnownStrands
        /\ progress'.searched = x.searched /\ progress'.skipped = x.skipped /\ x.searched \in Nat
    BY <1>2, <2>1 DEF SweepSet
  <2>10. progress' # None
    BY <1>2, <2>1 DEF Search!SearchConstants, SweepSet
  <2>11. Counted(x, hits') /\ Told(x, progress', unsaid')
    <3>1. Summed(progress') + Cardinality({}) + Doing(x) = x.searched
      BY <1>2, <2>9, <2>10, FS_EmptySet DEF Summed, Doing
    <3> QED BY <2>1, <2>6, <2>7, <2>8, <3>1 DEF Counted, Told
  <2> HIDE DEF found
  <2> QED BY <1>1, <1>2, <1>4, <2>1, <2>5, <2>9, <2>11, SweepKeeps
<1> QED BY <1>3, <1>4

LEMMA SearchStep ==
    Search!SearchConstants /\ SearchInv /\ [Search!SearchNext]_(Search!searchVars) => SearchInv'
BY TypingKeeps, RunKeeps, BegunKeeps, EndsKeeps, VisitKeeps, ReadKeeps, Zenon DEF Search!SearchNext

-----------------------------------------------------------------------------
(***************************************************************************)
(* InviteScreen, the screen.                                               *)
(* ScreenIsConsistent, for any number of choices and conversations.  The   *)
(* inductive invariant says where the conversation noted, and the one an   *)
(* invitation under way leads into, come from: the route, or the one       *)
(* conversation founded here, which has the kind shown.                    *)
(***************************************************************************)
MadeLeads == {m.lead : m \in made}

ScreenTypes ==
    /\ openedFor \in {"new", "existing", "listed"} /\ routeKind \in {"private", "public"}
    /\ visibility \in {"private", "public"}
    /\ terms \in [kind : {"private", "public"}, choice : 0 .. MaxChoices]
    /\ touched \in 0 .. MaxChoices /\ foundedStrandId \in Nat \cup {None}
    /\ creating = None \/ creating \in [strand : Nat \cup {None}, kind : {"private", "public"}]
    /\ made \subseteq [lead : Nat, kind : {"private", "public"}]
    /\ unreachable \in BOOLEAN /\ lookups \subseteq {"state", "row"}
    /\ invitation \in {"none", "found", "made"}
    /\ reset \in BOOLEAN /\ early \in BOOLEAN /\ switched \in BOOLEAN

(* What is noted, and what is asked for, is the route or was made. *)
LeadsAreMade ==
    /\ foundedStrandId \in {None, 0} \cup MadeLeads
    /\ creating # None => creating.strand \in {None, 0} \cup MadeLeads
    /\ "row" \in lookups => openedFor = "listed"

(* Only the first invitation founds, and of the kind shown. *)
OneIsFounded ==
    /\ foundedStrandId = None /\ openedFor = "new" => made = {}
    /\ creating # None /\ creating.strand = None => made = {} /\ openedFor = "new"
    /\ creating # None /\ creating.strand = None /\ ~switched => creating.kind = visibility

(* All go where the screen leads. *)
AllLeadHere ==
    /\ \A m \in made : m.lead = Generator!strandId
    /\ creating # None /\ creating.strand # None => creating.strand = Generator!strandId
    /\ creating # None /\ creating.strand = None => Generator!strandId = None

LatestIsShown == invitation = "found" /\ ~early => made = {}

KindIsShown == ~switched => \A m \in made : m.lead = foundedStrandId /\ m.lead # 0 => visibility = m.kind

ScreenInv ==
    /\ ScreenTypes /\ LeadsAreMade /\ OneIsFounded /\ AllLeadHere /\ LatestIsShown /\ KindIsShown
    /\ touched > 0 /\ ~reset => terms.choice = touched

LEMMA ScreenInitInv == Generator!InviteScreenConstants /\ Generator!InviteScreenInit => ScreenInv
<1> SUFFICES ASSUME Generator!InviteScreenConstants, Generator!InviteScreenInit PROVE ScreenInv
  OBVIOUS
<1>1. ScreenTypes
  <2>1. MaxChoices \in Nat /\ terms = [kind |-> "private", choice |-> 0] /\ touched = 0
    BY DEF Generator!InviteScreenConstants, Generator!InviteScreenInit, Generator!Default
  <2>2. terms \in [kind : {"private", "public"}, choice : 0 .. MaxChoices] /\ touched \in 0 .. MaxChoices
    BY <2>1
  <2>3. lookups \subseteq {"state", "row"} /\ invitation = "none" /\ unreachable \in BOOLEAN /\ reset \in BOOLEAN /\ early \in BOOLEAN
        /\ switched \in BOOLEAN
    BY DEF Generator!InviteScreenInit
  <2> QED BY <2>2, <2>3 DEF Generator!InviteScreenInit, ScreenTypes, Generator!InviteKinds
<1>2. LeadsAreMade /\ OneIsFounded /\ AllLeadHere /\ LatestIsShown /\ KindIsShown
  BY DEF Generator!InviteScreenInit, LeadsAreMade, OneIsFounded, AllLeadHere, LatestIsShown, KindIsShown
<1> QED BY <1>1, <1>2 DEF Generator!InviteScreenInit, ScreenInv

LEMMA TermsKeep ==
    ASSUME Generator!InviteScreenConstants, ScreenInv,
           (\E k \in {"private", "public"} : Generator!setVisibility(k)) \/ Generator!setTerms
               \/ (\E fails \in BOOLEAN : Generator!StateRead(fails))
    PROVE  ScreenInv'
<1> USE DEF Generator!InviteScreenConstants, ScreenInv, ScreenTypes
<1>1. ASSUME NEW k \in {"private", "public"}, Generator!setVisibility(k) PROVE ScreenInv'
  <2>1. /\ openedFor = "new" /\ foundedStrandId = None /\ visibility' = k /\ touched' = touched
        /\ switched' = (switched \/ creating # None)
        /\ UNCHANGED <<openedFor, routeKind, foundedStrandId, lookups, invitation, creating, made, unreachable, reset, early>>
        /\ terms' = IF touched > 0 THEN terms ELSE [kind |-> k, choice |-> 0]
    BY <1>1 DEF Generator!setVisibility, Generator!openedVars, Generator!madeVars, Generator!Default
  <2>2. ScreenTypes'
    <3>1. terms' \in [kind : {"private", "public"}, choice : 0 .. MaxChoices]
      BY <2>1
    <3> QED BY <2>1, <3>1
  <2>3. touched' > 0 /\ ~reset' => terms'.choice = touched'
    BY <2>1
  <2>4. LeadsAreMade'
    BY <2>1 DEF LeadsAreMade, MadeLeads
  <2>5. OneIsFounded' /\ AllLeadHere' /\ LatestIsShown' /\ KindIsShown'
    BY <2>1 DEF OneIsFounded, AllLeadHere, LatestIsShown, KindIsShown, Generator!strandId
  <2> QED BY <2>2, <2>3, <2>4, <2>5
<1>2. CASE Generator!setTerms
  <2>1. /\ touched < MaxChoices /\ touched' = touched + 1 /\ terms' = [terms EXCEPT !.choice = touched']
        /\ UNCHANGED <<openedFor, routeKind, visibility, foundedStrandId, lookups, invitation, creating, made, unreachable,
                       reset, early, switched>>
    BY <1>2 DEF Generator!setTerms, Generator!openedVars, Generator!madeVars
  <2>2. touched' \in 0 .. MaxChoices
    BY <2>1
  <2>3. terms' \in [kind : {"private", "public"}, choice : 0 .. MaxChoices] /\ terms'.choice = touched'
    BY <2>1, <2>2
  <2>4. LeadsAreMade' /\ OneIsFounded' /\ AllLeadHere' /\ LatestIsShown' /\ KindIsShown'
    BY <2>1 DEF LeadsAreMade, MadeLeads, OneIsFounded, AllLeadHere, LatestIsShown, KindIsShown, Generator!strandId
  <2>5. ScreenTypes'
    BY <2>1, <2>2, <2>3
  <2> QED BY <2>3, <2>4, <2>5
<1>3. ASSUME NEW fails \in BOOLEAN, Generator!StateRead(fails) PROVE ScreenInv'
  <2>1. /\ lookups' \subseteq lookups
        /\ UNCHANGED <<openedFor, routeKind, visibility, touched, foundedStrandId, invitation, creating, made, unreachable,
                       early, switched>>
    BY <1>3 DEF Generator!StateRead, Generator!openedVars, Generator!madeVars
  <2>2. \/ UNCHANGED <<terms, reset>>
        \/ terms' = [kind |-> routeKind, choice |-> 0] /\ reset' = (reset \/ touched > 0)
    BY <1>3 DEF Generator!StateRead, Generator!Default
  <2>3. ScreenTypes' /\ (touched' > 0 /\ ~reset' => terms'.choice = touched')
    <3>1. CASE UNCHANGED <<terms, reset>>
      BY <2>1, <3>1
    <3>2. CASE terms' = [kind |-> routeKind, choice |-> 0] /\ reset' = (reset \/ touched > 0)
      <4>1. reset' \in BOOLEAN /\ (touched > 0 => reset')
        BY <3>2
      <4> QED BY <2>1, <3>2, <4>1
    <3> QED BY <2>2, <3>1, <3>2
  <2>4. LeadsAreMade' /\ OneIsFounded' /\ AllLeadHere' /\ LatestIsShown' /\ KindIsShown'
    BY <2>1 DEF LeadsAreMade, MadeLeads, OneIsFounded, AllLeadHere, LatestIsShown, KindIsShown, Generator!strandId
  <2> QED BY <2>3, <2>4
<1> QED BY <1>1, <1>2, <1>3

LEMMA RowFoundKeeps ==
    ASSUME Generator!InviteScreenConstants, ScreenInv, NEW found \in BOOLEAN, Generator!RowFound(found)
    PROVE  ScreenInv'
<1> USE DEF Generator!InviteScreenConstants, ScreenInv, ScreenTypes
<1>1. /\ openedFor = "listed" /\ lookups' \subseteq lookups
      /\ foundedStrandId' = foundedStrandId \/ foundedStrandId' = 0
      /\ \/ invitation' = invitation /\ early' = early
         \/ invitation' = "found" /\ (early' <=> early \/ made # {})
      /\ UNCHANGED <<openedFor, routeKind, visibility, terms, touched, creating, made, unreachable, reset, switched>>
  BY DEF Generator!RowFound, Generator!openedVars, Generator!Route, LeadsAreMade
<1>2. early' \in BOOLEAN
  BY DEF Generator!RowFound
<1>3. ScreenTypes' /\ LeadsAreMade' /\ OneIsFounded'
  BY <1>1, <1>2 DEF LeadsAreMade, MadeLeads, OneIsFounded
<1>4. AllLeadHere' /\ LatestIsShown'
  BY <1>1 DEF AllLeadHere, LatestIsShown, Generator!strandId
<1>5. KindIsShown'
  BY <1>1 DEF KindIsShown
<1> QED BY <1>1, <1>3, <1>4, <1>5

LEMMA GenerateKeeps == ASSUME Generator!InviteScreenConstants, ScreenInv, Generator!generate PROVE ScreenInv'
<1> USE DEF Generator!InviteScreenConstants, ScreenInv, ScreenTypes
<1>1. /\ creating = None /\ creating' = [strand |-> Generator!strandId, kind |-> visibility]
      /\ UNCHANGED <<openedFor, routeKind, visibility, terms, touched, lookups, foundedStrandId, invitation, made,
                     unreachable, reset, early, switched>>
  BY DEF Generator!generate, Generator!CanGenerate, Generator!openedVars
<1>2. Generator!strandId \in {0, foundedStrandId}
      /\ (Generator!strandId = None => foundedStrandId = None /\ openedFor = "new")
  BY DEF Generator!strandId, Generator!Route
<1>3. ScreenTypes'
  BY <1>1, <1>2
<1>4. LeadsAreMade' /\ OneIsFounded'
  BY <1>1, <1>2 DEF LeadsAreMade, MadeLeads, OneIsFounded
<1>5. AllLeadHere' /\ LatestIsShown' /\ KindIsShown'
  BY <1>1 DEF AllLeadHere, LatestIsShown, KindIsShown, Generator!strandId
<1> QED BY <1>1, <1>3, <1>4, <1>5

(* The conversation of an invitation made: founded for the first, otherwise the one it was asked *)
(* for.                                                                                          *)
LEMMA LeadIs ==
    ASSUME Generator!InviteScreenConstants, ScreenInv, creating # None
    PROVE  /\ Generator!Lead \in [lead : Nat, kind : {"private", "public"}]
           /\ creating.strand = None => Generator!Lead = [lead |-> 1, kind |-> creating.kind]
           /\ creating.strand # None => Generator!Lead.lead = creating.strand
           /\ creating.strand \notin {None, 0} => Generator!Lead \in made
<1> USE DEF Generator!InviteScreenConstants, ScreenInv, ScreenTypes
<1>1. CASE creating.strand = None
  <2>1. Generator!Used \ {Generator!Route} = {}
    BY <1>1 DEF OneIsFounded, Generator!Used
  <2>2. Generator!Cardinality({}) = 0
    BY FS_EmptySet DEF Generator!Cardinality, Cardinality
  <2>3. Generator!Lead = [lead |-> 1, kind |-> creating.kind]
    BY <1>1, <2>1, <2>2 DEF Generator!Lead
  <2> QED BY <1>1, <2>3
<1>2. CASE creating.strand = 0
  BY <1>2 DEF Generator!Lead, Generator!Route
<1>3. CASE creating.strand \notin {None, 0}
  <2>1. PICK m \in made : m.lead = creating.strand
    BY <1>3 DEF LeadsAreMade, MadeLeads
  <2>2. Generator!Lead = CHOOSE n \in made : n.lead = creating.strand
    BY <1>3 DEF Generator!Lead, Generator!Route
  <2>3. Generator!Lead \in made /\ Generator!Lead.lead = creating.strand
    BY <2>1, <2>2
  <2> QED BY <1>3, <2>3
<1> QED BY <1>1, <1>2, <1>3

LEMMA MadeKeeps == ASSUME Generator!InviteScreenConstants, ScreenInv, Generator!Made PROVE ScreenInv'
<1> USE DEF Generator!InviteScreenConstants, ScreenInv, ScreenTypes
<1> DEFINE lead == Generator!Lead
<1>1. /\ creating # None /\ creating' = None /\ made' = made \cup {lead} /\ invitation' = "made"
      /\ foundedStrandId' = IF creating.strand = None THEN lead.lead ELSE foundedStrandId
      /\ UNCHANGED <<openedFor, routeKind, visibility, terms, touched, lookups, unreachable, reset, early, switched>>
  BY DEF Generator!Made, Generator!openedVars
<1>2. lead \in [lead : Nat, kind : {"private", "public"}]
      /\ (creating.strand = None => lead = [lead |-> 1, kind |-> creating.kind])
      /\ (creating.strand # None => lead.lead = creating.strand)
      /\ (creating.strand \notin {None, 0} => lead \in made)
  BY <1>1, LeadIs
<1> HIDE DEF lead
<1>3. ScreenTypes' /\ LeadsAreMade'
  BY <1>1, <1>2 DEF LeadsAreMade, MadeLeads
<1>4. OneIsFounded'
  <2>1. foundedStrandId' = None /\ openedFor = "new" => FALSE
    BY <1>1, <1>2 DEF OneIsFounded, AllLeadHere, Generator!strandId
  <2> QED BY <1>1, <2>1 DEF OneIsFounded
<1>5. AllLeadHere' /\ LatestIsShown'
  <2>1. CASE creating.strand = None
    BY <1>1, <1>2, <2>1 DEF OneIsFounded, AllLeadHere, LatestIsShown, Generator!strandId
  <2>2. CASE creating.strand # None
    BY <1>1, <1>2, <2>2 DEF AllLeadHere, LatestIsShown, Generator!strandId
  <2> QED BY <2>1, <2>2
<1>6. KindIsShown'
  <2>1. CASE creating.strand = None
    BY <1>1, <1>2, <2>1 DEF OneIsFounded, KindIsShown
  <2>2. CASE creating.strand # None
    BY <1>1, <1>2, <2>2 DEF KindIsShown
  <2> QED BY <2>1, <2>2
<1> QED BY <1>1, <1>3, <1>4, <1>5, <1>6

LEMMA NotMadeKeeps ==
    ASSUME Generator!InviteScreenConstants, ScreenInv,
           (\E nowhere \in BOOLEAN : Generator!NotMade(nowhere)) \/ Generator!Reachable
               \/ UNCHANGED Generator!screenVars
    PROVE  ScreenInv'
<1>1. /\ UNCHANGED <<openedFor, routeKind, visibility, terms, touched, lookups, foundedStrandId, made, reset, early,
                     switched>>
      /\ creating' = creating \/ creating' = None
      /\ invitation' = invitation \/ invitation' = "none"
      /\ unreachable' = unreachable \/ unreachable' \in BOOLEAN
  BY DEF Generator!NotMade, Generator!Reachable, Generator!screenVars, Generator!openedVars
<1>2. ScreenTypes'
  BY <1>1 DEF ScreenInv, ScreenTypes
<1>3. LeadsAreMade' /\ OneIsFounded' /\ AllLeadHere' /\ LatestIsShown' /\ KindIsShown'
  BY <1>1 DEF ScreenInv, LeadsAreMade, MadeLeads, OneIsFounded, AllLeadHere, LatestIsShown, KindIsShown, Generator!strandId
<1> QED BY <1>1, <1>2, <1>3 DEF ScreenInv

LEMMA ScreenStep ==
    Generator!InviteScreenConstants /\ ScreenInv /\ [Generator!InviteScreenNext]_(Generator!screenVars) => ScreenInv'
BY TermsKeep, RowFoundKeeps, GenerateKeeps, MadeKeeps, NotMadeKeeps, Zenon
DEF Generator!InviteScreenNext, Generator!InviteKinds

LEMMA ScreenHonest == ScreenInv => Generator!ScreenIsConsistent
BY DEF ScreenInv, ScreenTypes, AllLeadHere, LatestIsShown, KindIsShown, Generator!ScreenIsConsistent, Generator!Route

-----------------------------------------------------------------------------
(***************************************************************************)
(* InviteScreen, the panel.                                                *)
(***************************************************************************)
PanelInv ==
    /\ addresses \in BOOLEAN /\ relay \in BOOLEAN /\ inFront \in BOOLEAN /\ reachAgain \in BOOLEAN
    /\ reachDue \in BOOLEAN /\ relaySlow \in BOOLEAN /\ unanswered \in BOOLEAN /\ seen \in BOOLEAN
    /\ stale \in BOOLEAN
    /\ reachRead = None \/ reachRead \in [reachable : BOOLEAN, since : BOOLEAN]
    /\ reach = None \/ reach \in [reachable : BOOLEAN, relays : BOOLEAN]
    /\ unanswered => result = "nowhere" \/ seen \/ stale
    /\ Generator!Watched /\ addresses => reachDue \/ (reachRead # None /\ (reachRead.reachable \/ reachAgain))
    /\ relaySlow => Generator!relayPending

LEMMA PanelInitInv == Generator!InviteScreenInit => PanelInv
BY DEF Generator!InviteScreenInit, PanelInv, Generator!Watched, Generator!relayPending

LEMMA PanelHonest == PanelInv => Generator!PanelIsHonest
BY DEF PanelInv, Generator!PanelIsHonest, Generator!Panel, Generator!relayPending

LEMMA PanelStep ==
    Generator!InviteScreenConstants /\ PanelInv /\ [Generator!PanelNext]_(Generator!panelVars) => PanelInv'
<1> SUFFICES ASSUME Generator!InviteScreenConstants, PanelInv, [Generator!PanelNext]_(Generator!panelVars)
             PROVE  PanelInv'
  OBVIOUS
<1> USE DEF Generator!historyVars, Generator!Watched
<1>1. \A r, s \in BOOLEAN : [reachable |-> r, since |-> s] # None
                          /\ [reachable |-> r, since |-> s] \in [reachable : BOOLEAN, since : BOOLEAN]
  BY DEF Generator!InviteScreenConstants
<1>2. CASE Generator!AddressesMove \/ Generator!ChooseRelay
  <2>1. /\ reachDue' = Generator!Watched /\ addresses' \in BOOLEAN /\ relay' \in BOOLEAN
        /\ UNCHANGED <<inFront, result, reach, reachRead, reachAgain, relaySlow, unanswered, seen, stale>>
    BY <1>2 DEF PanelInv, Generator!AddressesMove, Generator!ChooseRelay, Generator!Moves
  <2>2. reachDue' \in BOOLEAN /\ (Generator!Watched' => reachDue')
    BY <2>1
  <2> QED BY <2>1, <2>2 DEF PanelInv, Generator!relayPending
<1>3. CASE Generator!Away \/ Generator!RelayIsSlow \/ UNCHANGED Generator!panelVars
             \/ Generator!Ask \/ (\E answer \in {"invitation", "error"} : Generator!Answer(answer))
  <2>1. CASE Generator!Away
    BY <2>1 DEF PanelInv, Generator!Away, Generator!relayPending
  <2>2. CASE Generator!RelayIsSlow
    BY <2>2 DEF PanelInv, Generator!RelayIsSlow, Generator!relayPending
  <2>3. CASE UNCHANGED Generator!panelVars
    BY <2>3 DEF PanelInv, Generator!panelVars, Generator!relayPending
  <2>4. CASE Generator!Ask
    BY <2>4 DEF PanelInv, Generator!Ask, Generator!relayPending
  <2>5. ASSUME NEW answer \in {"invitation", "error"}, Generator!Answer(answer) PROVE PanelInv'
    BY <2>5 DEF PanelInv, Generator!Answer, Generator!relayPending
  <2> QED BY <1>3, <2>1, <2>2, <2>3, <2>4, <2>5
<1>4. ASSUME Generator!Reads, addresses' = addresses
      PROVE  /\ reachRead' = None \/ reachRead' \in [reachable : BOOLEAN, since : BOOLEAN]
             /\ reachAgain' \in BOOLEAN /\ (reachAgain => reachAgain')
             /\ addresses => reachRead' # None /\ (reachRead'.reachable \/ reachAgain')
  <2>1. CASE reachRead # None
    BY <1>4, <2>1 DEF PanelInv, Generator!Reads
  <2>2. CASE reachRead = None
    <3>1. reachRead' = [reachable |-> addresses, since |-> TRUE] /\ reachAgain' = reachAgain
      BY <1>4, <2>2 DEF Generator!Reads, Generator!Get
    <3>2. addresses \in BOOLEAN /\ reachAgain \in BOOLEAN
      BY DEF PanelInv
    <3>3. reachRead' # None /\ reachRead' \in [reachable : BOOLEAN, since : BOOLEAN] /\ reachRead'.reachable = addresses
      BY <1>1, <3>1, <3>2
    <3> QED BY <3>1, <3>2, <3>3
  <2> QED BY <2>1, <2>2
<1>5. CASE Generator!Return
  <2>1. /\ inFront' = TRUE /\ ~inFront
        /\ UNCHANGED <<addresses, relay, result, reach, reachDue, relaySlow, unanswered, seen, stale>>
        /\ (result = "nowhere" /\ Generator!Reads) \/ (result # "nowhere" /\ UNCHANGED <<reachRead, reachAgain>>)
    BY <1>5 DEF Generator!Return
  <2>2. CASE result = "nowhere" /\ Generator!Reads
    BY <1>4, <2>1, <2>2 DEF PanelInv, Generator!relayPending
  <2>3. CASE result # "nowhere" /\ UNCHANGED <<reachRead, reachAgain>>
    BY <2>1, <2>3 DEF PanelInv, Generator!relayPending
  <2> QED BY <2>1, <2>2, <2>3
<1>6. CASE Generator!ReachReads
  <2>1. /\ reachDue' = FALSE /\ Generator!Reads
        /\ UNCHANGED <<addresses, relay, inFront, result, reach, relaySlow, unanswered, seen, stale>>
    BY <1>6 DEF Generator!ReachReads
  <2> QED BY <1>4, <2>1 DEF PanelInv, Generator!relayPending
<1>7. CASE Generator!AskNowhere
  <2>1. /\ ~addresses /\ unanswered' = TRUE /\ seen' = FALSE /\ stale' = (reach # None /\ reach.reachable)
        /\ result' = (IF stale' THEN "nothing" ELSE "nowhere")
        /\ UNCHANGED <<addresses, relay, inFront, reach, reachDue>>
        /\ relaySlow' = (relaySlow /\ Generator!relayPending')
    BY <1>7 DEF Generator!AskNowhere, Generator!Waits
  <2>2. stale' \in BOOLEAN /\ (stale' \/ result' = "nowhere")
    BY <2>1
  <2>3. reachAgain' \in BOOLEAN /\ (reachRead' = None \/ reachRead' \in [reachable : BOOLEAN, since : BOOLEAN])
    <3>1. CASE reachRead = None
      <4>1. reachRead' = [reachable |-> addresses', since |-> TRUE] /\ reachAgain' = reachAgain
        BY <1>7, <3>1 DEF Generator!AskNowhere, Generator!Get
      <4> QED BY <1>1, <2>1, <4>1 DEF PanelInv
    <3>2. CASE reachRead # None
      BY <1>7, <3>2 DEF Generator!AskNowhere, PanelInv
    <3> QED BY <3>1, <3>2
  <2>4. relaySlow' \in BOOLEAN /\ (relaySlow' => Generator!relayPending')
    BY <2>1 DEF PanelInv
  <2> QED BY <2>1, <2>2, <2>3, <2>4 DEF PanelInv
<1>8. CASE Generator!ReachAnswers
  <2>1. /\ reachRead # None /\ UNCHANGED <<addresses, relay, inFront, unanswered>>
        /\ reach' = [reachable |-> reachRead.reachable, relays |-> relay]
        /\ seen' = (seen \/ (reachRead.since /\ reachRead.reachable))
        /\ stale' = (stale \/ (~reachRead.since /\ reachRead.reachable))
        /\ result' = (IF result = "nowhere" /\ reachRead.reachable THEN "nothing" ELSE result)
        /\ reachDue' = (reachDue /\ Generator!Watched')
        /\ reachAgain' = FALSE /\ relaySlow' = (relaySlow /\ Generator!relayPending')
        /\ reachRead' = IF reachAgain /\ Generator!Watched' THEN [reachable |-> addresses', since |-> TRUE] ELSE None
    BY <1>8 DEF Generator!ReachAnswers, Generator!Get, Generator!Waits
  <2>2. reachRead.reachable \in BOOLEAN /\ reachRead.since \in BOOLEAN
    BY <2>1 DEF PanelInv
  <2>3. /\ seen' \in BOOLEAN /\ stale' \in BOOLEAN /\ reachDue' \in BOOLEAN /\ reachAgain' \in BOOLEAN
        /\ relaySlow' \in BOOLEAN /\ (relaySlow' => Generator!relayPending')
        /\ unanswered' => result' = "nowhere" \/ seen' \/ stale'
    BY <2>1, <2>2 DEF PanelInv
  <2>4. reach' \in [reachable : BOOLEAN, relays : BOOLEAN]
    BY <2>1, <2>2 DEF PanelInv
  <2>5. /\ reachRead' = None \/ reachRead' \in [reachable : BOOLEAN, since : BOOLEAN]
        /\ reachAgain /\ Generator!Watched' => reachRead' # None /\ reachRead'.reachable = addresses
    <3>1. CASE reachAgain /\ Generator!Watched'
      <4>1. reachRead' = [reachable |-> addresses, since |-> TRUE] /\ addresses \in BOOLEAN
        BY <2>1, <3>1 DEF PanelInv
      <4> QED BY <1>1, <4>1
    <3>2. CASE ~(reachAgain /\ Generator!Watched')
      BY <2>1, <3>2
    <3> QED BY <3>1, <3>2
  <2>6. Generator!Watched' /\ addresses' => reachDue' \/ (reachRead' # None /\ (reachRead'.reachable \/ reachAgain'))
    <3>1. SUFFICES ASSUME Generator!Watched', addresses' PROVE reachDue' \/ (reachRead' # None /\ reachRead'.reachable)
      OBVIOUS
    <3>2. Generator!Watched /\ ~reachRead.reachable
      BY <2>1, <2>2, <3>1
    <3>3. reachDue \/ reachAgain
      BY <2>1, <3>1, <3>2 DEF PanelInv
    <3> QED BY <2>1, <2>5, <3>1, <3>3
  <2>7. addresses' \in BOOLEAN /\ relay' \in BOOLEAN /\ inFront' \in BOOLEAN /\ unanswered' \in BOOLEAN
    BY <2>1 DEF PanelInv
  <2> QED BY <2>3, <2>4, <2>5, <2>6, <2>7 DEF PanelInv
<1> QED BY <1>2, <1>3, <1>5, <1>6, <1>7, <1>8 DEF Generator!PanelNext

-----------------------------------------------------------------------------
(***************************************************************************)
(* Listing.                                                                *)
(* HomeIsHonest, for any set of strands.  The inductive invariant says     *)
(* what a value read is good for when nothing is under way: the start-up   *)
(* it tells of cannot change without another read, and each strand open is *)
(* in it, or, while the start-up is asked for, in what was listed, unless  *)
(* another read was asked for since.                                       *)
(***************************************************************************)
HomeTypes ==
    /\ start \in {"runs", "failed", "asked"} /\ retrying \in BOOLEAN /\ focused \in BOOLEAN
    /\ homeError \in BOOLEAN /\ actionError \in BOOLEAN /\ homeAgain \in BOOLEAN
    /\ opens \in SUBSET HomeStrands /\ cachedRows \in SUBSET HomeStrands
    /\ home \in [read : BOOLEAN, rows : SUBSET HomeStrands, settling : BOOLEAN, bootError : BOOLEAN]
    /\ homeRead \in [at : {"idle", "lists", "asks"}, rows : SUBSET HomeStrands]
    /\ homeTimer \in {"none", "short", "long"}

Settled == home.read /\ ~home.settling

PollIsDue ==
    /\ focused /\ homeRead.at = "idle" => homeTimer # "none"
    /\ homeTimer = "long" => Settled

StartIsKnown ==
    /\ retrying => start = "failed"
    /\ Settled => start # "runs"
    /\ Settled /\ homeRead.at = "idle" /\ ~homeError => (home.bootError <=> start = "failed")

(* Where nothing was listed, what is open opened since. *)
NoneWasOpen ==
    /\ homeRead.at = "asks" /\ homeRead.rows = {} => opens \subseteq openedSince
    /\ home.read /\ home.rows = {} /\ homeRead.at # "asks" => opens \subseteq openedSince

OpenIsRead ==
    /\ focused /\ homeRead.at = "idle" /\ ~homeError => opens \subseteq home.rows
    /\ focused /\ homeRead.at = "asks" /\ ~homeAgain => opens \subseteq homeRead.rows

HomeInv == HomeTypes /\ PollIsDue /\ StartIsKnown /\ NoneWasOpen /\ OpenIsRead

LEMMA HomeInitInv == Home!ListingInit => HomeInv
<1> SUFFICES ASSUME Home!ListingInit PROVE HomeInv
  OBVIOUS
<1>1. home \in [read : BOOLEAN, rows : SUBSET HomeStrands, settling : BOOLEAN, bootError : BOOLEAN]
      /\ home.read = FALSE /\ homeRead \in [at : {"idle", "lists", "asks"}, rows : SUBSET HomeStrands]
      /\ homeRead.at = "idle"
  BY DEF Home!ListingInit, Home!NothingRead, Home!NoRead
<1>2. HomeTypes
  BY <1>1 DEF Home!ListingInit, HomeTypes
<1>3. ~focused /\ homeTimer = "none" /\ ~retrying
  BY DEF Home!ListingInit
<1> QED BY <1>1, <1>2, <1>3 DEF HomeInv, PollIsDue, StartIsKnown, NoneWasOpen, OpenIsRead, Settled

(* A read is asked for: it begins, or the one under way is followed by another. *)
LEMMA AskIs ==
    ASSUME HomeTypes, Home!AskForRead
    PROVE  /\ homeRead' \in [at : {"idle", "lists", "asks"}, rows : SUBSET HomeStrands] /\ homeAgain' \in BOOLEAN
           /\ \/ homeRead.at = "idle" /\ homeRead'.at = "lists"
              \/ homeRead.at # "idle" /\ homeRead' = homeRead /\ homeAgain'
<1>1. [Home!NoRead EXCEPT !.at = "lists"] = [at |-> "lists", rows |-> {}]
  BY DEF Home!NoRead
<1>2. [at |-> "lists", rows |-> {}] \in [at : {"idle", "lists", "asks"}, rows : SUBSET HomeStrands]
  OBVIOUS
<1>3. CASE homeRead.at = "idle"
  BY <1>1, <1>2, <1>3 DEF Home!AskForRead, HomeTypes
<1>4. CASE homeRead.at # "idle"
  BY <1>4 DEF Home!AskForRead, HomeTypes
<1> QED BY <1>3, <1>4

(* The start-up ends, the user asks for another, or an action fails. *)
LEMMA StartKeeps ==
    ASSUME HomeInv,
           \/ Home!Started \/ Home!StartFails \/ Home!Revived \/ Home!ActionFails \/ Home!RetryBoot
           \/ UNCHANGED Home!listingVars
    PROVE  HomeInv'
<1>1. /\ UNCHANGED <<opens, cachedRows, focused, home, homeError, homeRead, homeAgain, homeTimer, openedSince>>
      /\ actionError' \in BOOLEAN /\ retrying' \in BOOLEAN
  BY DEF Home!Started, Home!StartFails, Home!Revived, Home!ActionFails, Home!RetryBoot, Home!listingVars,
         HomeInv, HomeTypes
<1>2. \/ start' = start /\ retrying' = retrying
      \/ start' = start /\ start = "failed"
      \/ start = "runs" /\ start' \in {"asked", "failed"} /\ retrying' = retrying
  BY DEF Home!Started, Home!StartFails, Home!Revived, Home!ActionFails, Home!RetryBoot, Home!listingVars
<1>3. HomeTypes'
  BY <1>1, <1>2 DEF HomeInv, HomeTypes
<1>4. StartIsKnown'
  BY <1>1, <1>2 DEF HomeInv, HomeTypes, StartIsKnown, Settled
<1>5. PollIsDue' /\ NoneWasOpen' /\ OpenIsRead'
  BY <1>1 DEF HomeInv, PollIsDue, NoneWasOpen, OpenIsRead, Settled
<1> QED BY <1>3, <1>4, <1>5 DEF HomeInv

(* What asks for a read. *)
LEMMA AsksKeep ==
    ASSUME HomeInv, Home!AskForRead,
           UNCHANGED <<cachedRows, home, homeError>>, actionError' \in BOOLEAN, focused' \in BOOLEAN,
           homeTimer' \in {homeTimer, "none"}, retrying' \in BOOLEAN, start' \in {"runs", "failed", "asked"},
           retrying' => start' = "failed", start' = "runs" => start = "runs",
           opens' \in SUBSET HomeStrands, openedSince \subseteq openedSince',
           opens' \subseteq opens \cup openedSince'
    PROVE  HomeInv'
<1>1. /\ homeRead' \in [at : {"idle", "lists", "asks"}, rows : SUBSET HomeStrands] /\ homeAgain' \in BOOLEAN
      /\ \/ homeRead.at = "idle" /\ homeRead'.at = "lists"
         \/ homeRead.at # "idle" /\ homeRead' = homeRead /\ homeAgain'
  BY AskIs DEF HomeInv
<1>2. HomeTypes'
  BY <1>1 DEF HomeInv, HomeTypes
<1>3. homeRead'.at # "idle" /\ (homeRead'.at = "asks" => homeRead' = homeRead /\ homeAgain')
  BY <1>1
<1>4. PollIsDue' /\ StartIsKnown'
  BY <1>3 DEF HomeInv, HomeTypes, PollIsDue, StartIsKnown, Settled
<1>5. NoneWasOpen'
  BY <1>1, <1>3 DEF HomeInv, NoneWasOpen
<1>6. OpenIsRead'
  BY <1>3 DEF OpenIsRead
<1> QED BY <1>2, <1>4, <1>5, <1>6 DEF HomeInv

LEMMA AskersKeep ==
    ASSUME HomeInv,
           \/ Home!Focus \/ Home!Poll \/ Home!Reload
           \/ \E works \in BOOLEAN : Home!Retried(works)
    PROVE  HomeInv'
<1>1. /\ Home!AskForRead /\ UNCHANGED <<cachedRows, home, homeError, opens, openedSince>>
      /\ actionError' \in BOOLEAN /\ focused' \in BOOLEAN
  BY DEF Home!Focus, Home!Poll, Home!Reload, Home!Retried, HomeInv, HomeTypes
<1>2. homeTimer' \in {homeTimer, "none"}
  BY DEF Home!Focus, Home!Poll, Home!Reload, Home!Retried
<1>3. \/ UNCHANGED <<start, retrying>>
      \/ retrying /\ retrying' = FALSE /\ start' \in {"asked", "failed"}
  BY DEF Home!Focus, Home!Poll, Home!Reload, Home!Retried
<1>4. /\ retrying' \in BOOLEAN /\ start' \in {"runs", "failed", "asked"} /\ (retrying' => start' = "failed")
      /\ (start' = "runs" => start = "runs")
  <2>1. start \in {"runs", "failed", "asked"} /\ retrying \in BOOLEAN /\ (retrying => start = "failed")
    BY DEF HomeInv, HomeTypes, StartIsKnown
  <2>2. CASE UNCHANGED <<start, retrying>>
    BY <2>1, <2>2
  <2>3. CASE retrying /\ retrying' = FALSE /\ start' \in {"asked", "failed"}
    BY <2>1, <2>3
  <2> QED BY <1>3, <2>2, <2>3
<1>5. opens' \in SUBSET HomeStrands
  BY <1>1 DEF HomeInv, HomeTypes
<1> QED BY <1>1, <1>2, <1>4, <1>5, AsksKeep

LEMMA OpensKeep ==
    ASSUME HomeInv, NEW s \in HomeStrands, Home!Opens(s) \/ Home!Closes(s) PROVE HomeInv'
<1>1. /\ Home!Signalled /\ UNCHANGED <<start, retrying, cachedRows, focused, home, homeError, actionError, homeTimer>>
      /\ opens' \in SUBSET HomeStrands /\ openedSince \subseteq openedSince' /\ opens' \subseteq opens \cup openedSince'
  BY DEF Home!Opens, Home!Closes, HomeInv, HomeTypes
<1>2. CASE focused
  BY <1>1, <1>2, AsksKeep DEF HomeInv, HomeTypes, StartIsKnown, Home!Signalled
<1>3. CASE ~focused
  <2>1. UNCHANGED <<homeRead, homeAgain>>
    BY <1>1, <1>3 DEF Home!Signalled
  <2>2. HomeTypes'
    BY <1>1, <2>1 DEF HomeInv, HomeTypes
  <2>3. PollIsDue' /\ StartIsKnown' /\ NoneWasOpen' /\ OpenIsRead'
    BY <1>1, <1>3, <2>1 DEF HomeInv, PollIsDue, StartIsKnown, NoneWasOpen, OpenIsRead, Settled
  <2> QED BY <2>2, <2>3 DEF HomeInv
<1> QED BY <1>2, <1>3 DEF HomeInv, HomeTypes

LEMMA ListsKeeps == ASSUME HomeInv, Home!Lists \/ Home!Blur PROVE HomeInv'
<1>1. CASE Home!Lists
  <2>1. /\ homeRead.at = "lists" /\ homeRead' = [at |-> "asks", rows |-> opens \cup cachedRows]
        /\ cachedRows' = cachedRows \cup opens
        /\ UNCHANGED <<start, retrying, opens, focused, home, homeError, actionError, homeAgain, homeTimer>>
    BY <1>1 DEF Home!Lists
  <2>2. homeRead'.at = "asks" /\ homeRead'.rows = opens \cup cachedRows
    BY <2>1
  <2>3. homeRead' \in [at : {"idle", "lists", "asks"}, rows : SUBSET HomeStrands]
    BY <2>1 DEF HomeInv, HomeTypes
  <2>4. HomeTypes'
    BY <2>1, <2>3 DEF HomeInv, HomeTypes
  <2>5. PollIsDue' /\ StartIsKnown'
    BY <2>1, <2>2 DEF HomeInv, PollIsDue, StartIsKnown, Settled
  <2>6. NoneWasOpen' /\ OpenIsRead'
    BY <2>1, <2>2 DEF NoneWasOpen, OpenIsRead
  <2> QED BY <2>4, <2>5, <2>6 DEF HomeInv
<1>2. CASE Home!Blur
  <2>1. /\ focused' = FALSE /\ homeTimer' = "none"
        /\ UNCHANGED <<start, retrying, opens, cachedRows, home, homeError, actionError, homeRead, homeAgain, openedSince>>
    BY <1>2 DEF Home!Blur
  <2>2. HomeTypes'
    BY <2>1 DEF HomeInv, HomeTypes
  <2>3. PollIsDue' /\ StartIsKnown' /\ NoneWasOpen' /\ OpenIsRead'
    BY <2>1 DEF HomeInv, PollIsDue, StartIsKnown, NoneWasOpen, OpenIsRead, Settled
  <2> QED BY <2>2, <2>3 DEF HomeInv
<1> QED BY <1>1, <1>2

(* A read ends. *)
LEMMA EndIs ==
    ASSUME HomeTypes, focused' = focused,
           \/ Home!ReadEnds(home) /\ home' = home
           \/ Home!ReadEnds(home')
    PROVE  /\ homeRead' \in [at : {"idle", "lists", "asks"}, rows : SUBSET HomeStrands] /\ homeAgain' = FALSE
           /\ homeRead'.at = IF homeAgain /\ focused THEN "lists" ELSE "idle"
           /\ homeTimer' \in {"none", "short", "long"}
           /\ focused /\ homeRead'.at = "idle" => homeTimer' # "none"
           /\ homeTimer' = "long" => home'.read /\ ~home'.settling
<1>1. [Home!NoRead EXCEPT !.at = "lists"] = [at |-> "lists", rows |-> {}]
      /\ Home!NoRead = [at |-> "idle", rows |-> {}]
  BY DEF Home!NoRead
<1>2. /\ [at |-> "lists", rows |-> {}] \in [at : {"idle", "lists", "asks"}, rows : SUBSET HomeStrands]
      /\ [at |-> "idle", rows |-> {}] \in [at : {"idle", "lists", "asks"}, rows : SUBSET HomeStrands]
  OBVIOUS
<1>3. /\ homeAgain' = FALSE
      /\ homeRead' = IF homeAgain /\ focused THEN [at |-> "lists", rows |-> {}] ELSE [at |-> "idle", rows |-> {}]
      /\ homeTimer' = IF homeRead'.at # "idle" \/ ~focused THEN "none"
                      ELSE IF home'.read /\ ~home'.settling THEN "long" ELSE "short"
  BY <1>1 DEF Home!ReadEnds
<1>4. CASE homeAgain /\ focused
  BY <1>2, <1>3, <1>4
<1>5. CASE ~(homeAgain /\ focused)
  BY <1>2, <1>3, <1>5
<1> QED BY <1>4, <1>5

LEMMA AsksKeeps == ASSUME HomeInv, Home!Asks PROVE HomeInv'
<1>0. HomeTypes /\ focused \in BOOLEAN
  BY DEF HomeInv, HomeTypes
<1> DEFINE value == [read |-> TRUE, rows |-> homeRead.rows, settling |-> start = "runs", bootError |-> start = "failed"]
<1>1. /\ homeRead.at = "asks" /\ home' = value /\ homeError' = FALSE /\ Home!ReadEnds(home')
      /\ UNCHANGED <<start, retrying, opens, cachedRows, focused, actionError, openedSince>>
  BY DEF Home!Asks
<1>2. /\ home' \in [read : BOOLEAN, rows : SUBSET HomeStrands, settling : BOOLEAN, bootError : BOOLEAN]
      /\ home'.read = TRUE /\ home'.rows = homeRead.rows
  BY <1>0, <1>1 DEF HomeTypes
<1>3. (home'.settling <=> start = "runs") /\ (home'.bootError <=> start = "failed")
  BY <1>1
<1> HIDE DEF value
<1>6. /\ homeRead' \in [at : {"idle", "lists", "asks"}, rows : SUBSET HomeStrands] /\ homeAgain' = FALSE
      /\ homeRead'.at = IF homeAgain /\ focused THEN "lists" ELSE "idle"
      /\ homeTimer' \in {"none", "short", "long"}
      /\ focused /\ homeRead'.at = "idle" => homeTimer' # "none"
      /\ homeTimer' = "long" => home'.read /\ ~home'.settling
  BY <1>0, <1>1, EndIs
<1>7. HomeTypes'
  BY <1>0, <1>1, <1>2, <1>6 DEF HomeTypes
<1>8. PollIsDue'
  BY <1>1, <1>6 DEF HomeInv, PollIsDue, Settled
<1>9. StartIsKnown'
  BY <1>1, <1>3 DEF HomeInv, HomeTypes, StartIsKnown, Settled
<1>10. NoneWasOpen' /\ OpenIsRead'
  BY <1>1, <1>2, <1>6 DEF HomeInv, NoneWasOpen, OpenIsRead
<1> QED BY <1>7, <1>8, <1>9, <1>10 DEF HomeInv

LEMMA FailsKeeps == ASSUME HomeInv, Home!ReadFails PROVE HomeInv'
<1>0. HomeTypes /\ focused \in BOOLEAN
  BY DEF HomeInv, HomeTypes
<1>1. /\ homeRead.at = "lists" /\ homeError' = TRUE /\ Home!ReadEnds(home)
      /\ UNCHANGED <<start, retrying, opens, cachedRows, focused, home, actionError, openedSince>>
  BY DEF Home!ReadFails
<1>3. /\ homeRead' \in [at : {"idle", "lists", "asks"}, rows : SUBSET HomeStrands] /\ homeAgain' = FALSE
      /\ homeRead'.at = IF homeAgain /\ focused THEN "lists" ELSE "idle"
      /\ homeTimer' \in {"none", "short", "long"}
      /\ focused /\ homeRead'.at = "idle" => homeTimer' # "none"
      /\ homeTimer' = "long" => home'.read /\ ~home'.settling
  BY <1>0, <1>1, EndIs
<1>4. HomeTypes'
  BY <1>0, <1>1, <1>3 DEF HomeTypes
<1>5. PollIsDue' /\ StartIsKnown'
  BY <1>1, <1>3 DEF HomeInv, HomeTypes, PollIsDue, StartIsKnown, Settled
<1>6. NoneWasOpen' /\ OpenIsRead'
  BY <1>1, <1>3 DEF HomeInv, NoneWasOpen, OpenIsRead
<1> QED BY <1>4, <1>5, <1>6 DEF HomeInv

LEMMA ListingStep == HomeInv /\ [Home!ListingNext]_(Home!listingVars) => HomeInv'
BY StartKeeps, AskersKeep, OpensKeep, ListsKeeps, AsksKeeps, FailsKeeps, Zenon DEF Home!ListingNext

LEMMA HomeHonest == HomeInv => Home!HomeIsHonest
<1> SUFFICES ASSUME HomeInv PROVE Home!HomeIsHonest
  OBVIOUS
<1>1. Home!AtRest => Settled /\ focused /\ homeRead.at = "idle"
  BY DEF HomeInv, HomeTypes, PollIsDue, Home!AtRest
<1>2. Home!StartIsTold
  <2>1. SUFFICES ASSUME Home!AtRest, Home!Screen \notin {"error", "rows"}
                 PROVE  Home!Screen # "spinner" /\ (Home!Screen = "start failed") = (start = "failed")
    BY DEF Home!StartIsTold
  <2>2. ~actionError /\ ~homeError
    BY <2>1 DEF Home!Screen
  <2>3. home.bootError <=> start = "failed"
    BY <1>1, <2>1, <2>2 DEF HomeInv, StartIsKnown
  <2>4. Home!Screen = IF home.bootError THEN "start failed" ELSE "introduction"
    BY <1>1, <2>1, <2>2 DEF Home!Screen, Settled
  <2> QED BY <2>3, <2>4
<1>3. Home!IntroductionIsTrue
  <2>1. SUFFICES ASSUME Home!Screen = "introduction"
                 PROVE  /\ focused /\ homeRead.at # "asks" => opens \subseteq openedSince
                        /\ Home!AtRest => opens = {}
    BY DEF Home!IntroductionIsTrue
  <2>2. home.read /\ home.rows = {} /\ ~homeError
    BY <2>1 DEF Home!Screen
  <2> QED BY <1>1, <2>2 DEF HomeInv, NoneWasOpen, OpenIsRead
<1>4. Home!OpenIsListed
  <2>1. SUFFICES ASSUME Home!AtRest, Home!Screen = "rows" PROVE opens \subseteq home.rows
    BY DEF Home!OpenIsListed
  <2>2. ~homeError
    BY <2>1 DEF Home!Screen
  <2> QED BY <1>1, <2>1, <2>2 DEF HomeInv, OpenIsRead
<1> QED BY <1>2, <1>3, <1>4 DEF Home!HomeIsHonest

-----------------------------------------------------------------------------
(***************************************************************************)
(* Preferences.                                                            *)
(* SettingsStay, for any settings and any number of calls.  A change is in *)
(* the queue twice, its read and then its save behind those that came      *)
(* meanwhile; so changes are in the order they were asked for when every   *)
(* save is taken to come before every read.  The inductive invariant says  *)
(* that the last of a setting's changes in that order is the one asked for *)
(* last; what holds of the slot holds where none is under way.             *)
(***************************************************************************)
Change(c) == c.op \in {"read", "save"}

(* Change i of a queue was asked for before change j. *)
Sooner(cs, i, j) == \/ cs[i].op = cs[j].op /\ i < j
                    \/ cs[i].op = "save" /\ cs[j].op = "read"

LastChange(cs, i) ==
    /\ i \in 1 .. Len(cs) /\ Change(cs[i])
    /\ \A j \in 1 .. Len(cs) : j # i /\ Change(cs[j]) /\ cs[j].setting = cs[i].setting => Sooner(cs, j, i)

IsChanging(cs, s) == \E i \in 1 .. Len(cs) : Change(cs[i]) /\ cs[i].setting = s

Saying(cs, told) == \A i \in 1 .. Len(cs) : LastChange(cs, i) => cs[i].value = told[cs[i].setting]

SettingsTypes ==
    /\ stored \in Prefs!Values /\ switch \in Prefs!Values /\ rowShows \in Prefs!Values
    /\ asked \in Prefs!Values /\ calls \in Seq(Prefs!Call) /\ visible \in BOOLEAN
    /\ overwritten \in SUBSET Settings /\ overtaken \in SUBSET Settings

(* A save puts its own value in. *)
SavesOwn == \A i \in 1 .. Len(calls) : calls[i].op = "save" => calls[i].all[calls[i].setting] = calls[i].value

StoredOrComing == \A s \in Settings \ overwritten : IsChanging(calls, s) \/ stored[s] = asked[s]

(* The switch is where it was set, unless what it was set from is old. *)
SwitchIsAsked ==
    visible => \A s \in Settings \ overtaken : IsChanging(calls, s) \/ s \notin overwritten => switch[s] = asked[s]

RowsOvertake ==
    visible => \A i \in 1 .. Len(calls) : Change(calls[i]) /\ calls[i].from = "row" => calls[i].setting \in overtaken

SettingsInv ==
    /\ SettingsTypes /\ Saying(calls, asked) /\ SavesOwn /\ StoredOrComing /\ SwitchIsAsked /\ RowsOvertake

-----------------------------------------------------------------------------
(* The queue: a call is put at its end, taken off its front, or both. *)
LEMMA CallAdded ==
    ASSUME NEW C, NEW cs \in Seq(C), NEW c \in C
    PROVE  /\ Append(cs, c) \in Seq(C) /\ Len(Append(cs, c)) = Len(cs) + 1
           /\ \A i \in 1 .. Len(cs) : Append(cs, c)[i] = cs[i]
           /\ Append(cs, c)[Len(cs) + 1] = c
OBVIOUS

LEMMA CallTaken ==
    ASSUME NEW C, NEW cs \in Seq(C), cs # <<>>
    PROVE  /\ Tail(cs) \in Seq(C) /\ Len(Tail(cs)) = Len(cs) - 1 /\ Len(cs) \in Nat /\ Len(cs) > 0
           /\ \A i \in 1 .. Len(cs) - 1 : Tail(cs)[i] = cs[i + 1]
           /\ Head(cs) = cs[1] /\ cs[1] \in C
OBVIOUS

LEMMA CallTurned ==
    ASSUME NEW C, NEW cs \in Seq(C), cs # <<>>, NEW c \in C
    PROVE  /\ Tail(cs) \o <<c>> \in Seq(C) /\ Len(Tail(cs) \o <<c>>) = Len(cs) /\ Len(cs) \in Nat /\ Len(cs) > 0
           /\ \A i \in 1 .. Len(cs) - 1 : (Tail(cs) \o <<c>>)[i] = cs[i + 1]
           /\ (Tail(cs) \o <<c>>)[Len(cs)] = c
<1>1. Tail(cs) \in Seq(C) /\ Len(Tail(cs)) = Len(cs) - 1 /\ Len(cs) \in Nat /\ Len(cs) > 0
      /\ \A i \in 1 .. Len(cs) - 1 : Tail(cs)[i] = cs[i + 1]
  BY CallTaken
<1>2. <<c>> \in Seq(C) /\ Len(<<c>>) = 1 /\ <<c>>[1] = c
  OBVIOUS
<1>3. /\ Tail(cs) \o <<c>> \in Seq(C) /\ Len(Tail(cs) \o <<c>>) = Len(Tail(cs)) + Len(<<c>>)
      /\ \A i \in 1 .. (Len(Tail(cs)) + Len(<<c>>)) :
            (Tail(cs) \o <<c>>)[i] = IF i <= Len(Tail(cs)) THEN Tail(cs)[i] ELSE <<c>>[i - Len(Tail(cs))]
  BY <1>1, <1>2, ConcatProperties
<1> QED BY <1>1, <1>2, <1>3

LEMMA NothingAdded == ASSUME NEW C, NEW cs \in Seq(C) PROVE cs \o <<>> = cs
BY ConcatEmptySeq

-----------------------------------------------------------------------------
LEMMA NextIsValue ==
    ASSUME Prefs!PreferencesConstants, NEW v \in 0 .. Depths - 1 PROVE Prefs!Next1(v) \in 0 .. Depths - 1
BY DEF Prefs!PreferencesConstants, Prefs!Next1

LEMMA ReadIsCall ==
    ASSUME Prefs!PreferencesConstants, NEW op \in {"load", "relist", "read", "save"}
    PROVE  Prefs!ARead(op) \in Prefs!Call /\ Prefs!ARead(op).op = op
<1>1. (CHOOSE s \in Settings : TRUE) \in Settings /\ 0 \in 0 .. Depths - 1
  BY DEF Prefs!PreferencesConstants
<1>2. Prefs!Defaults \in Prefs!Values
  BY <1>1 DEF Prefs!Defaults, Prefs!Values
<1> QED BY <1>1, <1>2 DEF Prefs!ARead, Prefs!Call

LEMMA ChangingIs == ASSUME NEW cs \in Seq(Prefs!Call), NEW s PROVE s \in Prefs!Changing(cs) <=> IsChanging(cs, s)
<1>1. DOMAIN cs = 1 .. Len(cs)
  OBVIOUS
<1> QED BY <1>1 DEF Prefs!Changing, IsChanging, Change

LEMMA SettingsInitInv == Prefs!PreferencesConstants /\ Prefs!PreferencesInit => SettingsInv
<1> SUFFICES ASSUME Prefs!PreferencesConstants, Prefs!PreferencesInit PROVE SettingsInv
  OBVIOUS
<1>1. 0 \in 0 .. Depths - 1
  BY DEF Prefs!PreferencesConstants
<1>2. Prefs!Defaults \in Prefs!Values
  BY <1>1 DEF Prefs!Defaults, Prefs!Values
<1>3. calls \in Seq(Prefs!Call) /\ Len(calls) = 0
  BY DEF Prefs!PreferencesInit
<1>4. SettingsTypes
  BY <1>2, <1>3 DEF Prefs!PreferencesInit, SettingsTypes
<1>5. Saying(calls, asked) /\ SavesOwn
  BY <1>3 DEF Saying, SavesOwn
<1>6. stored = asked /\ visible = FALSE
  BY DEF Prefs!PreferencesInit
<1> QED BY <1>4, <1>5, <1>6 DEF SettingsInv, StoredOrComing, SwitchIsAsked, RowsOvertake

(* A call that changes nothing is asked for. *)
LEMMA LooksAdded ==
    ASSUME NEW cs \in Seq(Prefs!Call), NEW c \in Prefs!Call, ~Change(c), NEW told, Saying(cs, told)
    PROVE  Saying(Append(cs, c), told) /\ \A s : IsChanging(Append(cs, c), s) <=> IsChanging(cs, s)
<1> DEFINE more == Append(cs, c)
<1>1. /\ more \in Seq(Prefs!Call) /\ Len(more) = Len(cs) + 1 /\ Len(cs) \in Nat
      /\ \A i \in 1 .. Len(cs) : more[i] = cs[i]
      /\ more[Len(cs) + 1] = c
  BY CallAdded
<1> HIDE DEF more
<1>2. \A s : IsChanging(more, s) <=> IsChanging(cs, s)
  BY <1>1 DEF IsChanging
<1>3. ASSUME NEW i \in 1 .. Len(more), LastChange(more, i) PROVE more[i].value = told[more[i].setting]
  <2>1. i \in 1 .. Len(cs)
    BY <1>1, <1>3 DEF LastChange
  <2>2. LastChange(cs, i)
    BY <1>1, <1>3, <2>1 DEF LastChange, Sooner
  <2> QED BY <1>1, <2>1, <2>2 DEF Saying
<1> QED BY <1>2, <1>3 DEF Saying, more

(* A change is asked for. *)
LEMMA ChangeAdded ==
    ASSUME NEW cs \in Seq(Prefs!Call), NEW c \in Prefs!Call, c.op = "read", NEW told \in Prefs!Values, Saying(cs, told),
           NEW then \in Prefs!Values, then = [told EXCEPT ![c.setting] = c.value]
    PROVE  /\ Saying(Append(cs, c), then)
           /\ \A s : IsChanging(Append(cs, c), s) <=> IsChanging(cs, s) \/ s = c.setting
<1> DEFINE more == Append(cs, c)
<1>1. /\ more \in Seq(Prefs!Call) /\ Len(more) = Len(cs) + 1 /\ Len(cs) \in Nat
      /\ \A i \in 1 .. Len(cs) : more[i] = cs[i]
      /\ more[Len(cs) + 1] = c
  BY CallAdded
<1> HIDE DEF more
<1>2. \A s : IsChanging(more, s) <=> IsChanging(cs, s) \/ s = c.setting
  BY <1>1 DEF IsChanging, Change
<1>3. c.setting \in Settings
  BY DEF Prefs!Call
<1>4. ASSUME NEW i \in 1 .. Len(more), LastChange(more, i) PROVE more[i].value = then[more[i].setting]
  <2>1. CASE i = Len(cs) + 1
    BY <1>1, <1>3, <2>1 DEF Prefs!Values
  <2>2. CASE i \in 1 .. Len(cs)
    <3>1. ~Sooner(more, Len(cs) + 1, i)
      BY <1>1, <2>2 DEF Sooner
    <3>2. cs[i].setting # c.setting
      BY <1>1, <1>4, <2>2, <3>1 DEF LastChange, Change
    <3>3. LastChange(cs, i)
      BY <1>1, <1>4, <2>2 DEF LastChange, Sooner
    <3>4. cs[i].value = told[cs[i].setting] /\ cs[i] \in Prefs!Call
      BY <2>2, <3>3 DEF Saying
    <3>5. cs[i].setting \in Settings
      BY <3>4 DEF Prefs!Call
    <3> QED BY <1>1, <2>2, <3>2, <3>4, <3>5 DEF Prefs!Values
  <2> QED BY <1>1, <2>1, <2>2
<1> QED BY <1>2, <1>4 DEF Saying, more

(* The first call is taken off: a save was sooner than every other change. *)
LEMMA FirstTaken ==
    ASSUME NEW cs \in Seq(Prefs!Call), cs # <<>>, cs[1].op # "read", NEW i \in 1 .. Len(Tail(cs))
    PROVE  LastChange(Tail(cs), i) => LastChange(cs, i + 1)
<1>1. /\ Tail(cs) \in Seq(Prefs!Call) /\ Len(Tail(cs)) = Len(cs) - 1 /\ Len(cs) \in Nat /\ Len(cs) > 0
      /\ \A j \in 1 .. Len(cs) - 1 : Tail(cs)[j] = cs[j + 1]
  BY CallTaken
<1>2. SUFFICES ASSUME LastChange(Tail(cs), i) PROVE LastChange(cs, i + 1)
  OBVIOUS
<1>3. i + 1 \in 1 .. Len(cs) /\ Change(cs[i + 1])
  BY <1>1, <1>2 DEF LastChange
<1>4. ASSUME NEW j \in 1 .. Len(cs), j # i + 1, Change(cs[j]), cs[j].setting = cs[i + 1].setting
      PROVE  Sooner(cs, j, i + 1)
  <2>1. CASE j = 1
    BY <1>1, <1>3, <1>4, <2>1 DEF Sooner, Change
  <2>2. CASE j > 1
    <3>1. j - 1 \in 1 .. Len(Tail(cs)) /\ Tail(cs)[j - 1] = cs[j] /\ j - 1 # i /\ Tail(cs)[i] = cs[i + 1]
      BY <1>1, <1>4, <2>2
    <3>2. Sooner(Tail(cs), j - 1, i)
      BY <1>2, <1>4, <3>1 DEF LastChange
    <3> QED BY <1>1, <3>1, <3>2 DEF Sooner
  <2> QED BY <1>4, <2>1, <2>2
<1> QED BY <1>3, <1>4 DEF LastChange

(* What is under way besides the first call. *)
LEMMA OthersChange ==
    ASSUME NEW cs \in Seq(Prefs!Call), cs # <<>>, NEW s
    PROVE  /\ IsChanging(Tail(cs), s) => IsChanging(cs, s)
           /\ IsChanging(cs, s) => IsChanging(Tail(cs), s) \/ (Change(cs[1]) /\ cs[1].setting = s)
<1>1. /\ Len(Tail(cs)) = Len(cs) - 1 /\ Len(cs) \in Nat /\ Len(cs) > 0
      /\ \A j \in 1 .. Len(cs) - 1 : Tail(cs)[j] = cs[j + 1]
  BY CallTaken
<1>2. ASSUME IsChanging(Tail(cs), s) PROVE IsChanging(cs, s)
  <2>1. PICK i \in 1 .. Len(Tail(cs)) : Change(Tail(cs)[i]) /\ Tail(cs)[i].setting = s
    BY <1>2 DEF IsChanging
  <2>2. i + 1 \in 1 .. Len(cs) /\ Change(cs[i + 1]) /\ cs[i + 1].setting = s
    BY <1>1, <2>1
  <2> QED BY <2>2 DEF IsChanging
<1>3. ASSUME IsChanging(cs, s) PROVE IsChanging(Tail(cs), s) \/ (Change(cs[1]) /\ cs[1].setting = s)
  <2>1. PICK i \in 1 .. Len(cs) : Change(cs[i]) /\ cs[i].setting = s
    BY <1>3 DEF IsChanging
  <2>2. CASE i = 1
    BY <2>1, <2>2
  <2>3. CASE i > 1
    <3>1. i - 1 \in 1 .. Len(Tail(cs)) /\ Tail(cs)[i - 1] = cs[i]
      BY <1>1, <2>3
    <3> QED BY <2>1, <3>1 DEF IsChanging
  <2> QED BY <2>1, <2>2, <2>3
<1> QED BY <1>2, <1>3
(* The read of a change is answered: its save goes to the end, as soon as it was. *)
LEMMA FirstTurned ==
    ASSUME NEW cs \in Seq(Prefs!Call), cs # <<>>, cs[1].op = "read", NEW c \in Prefs!Call, c.op = "save",
           c.setting = cs[1].setting, c.value = cs[1].value, NEW told, Saying(cs, told)
    PROVE  /\ Saying(Tail(cs) \o <<c>>, told)
           /\ \A s : IsChanging(Tail(cs) \o <<c>>, s) <=> IsChanging(cs, s)
<1> DEFINE more == Tail(cs) \o <<c>>
           n == Len(cs)
<1>1. /\ more \in Seq(Prefs!Call) /\ Len(more) = n /\ n \in Nat /\ n > 0
      /\ \A i \in 1 .. n - 1 : more[i] = cs[i + 1]
      /\ more[n] = c
  BY CallTurned
<1>2. 1 \in 1 .. n /\ Change(cs[1]) /\ Change(c)
  BY <1>1 DEF Change
<1> HIDE DEF more, n
<1>3. \A s : IsChanging(more, s) <=> IsChanging(cs, s)
  <2>1. ASSUME NEW s, IsChanging(more, s) PROVE IsChanging(cs, s)
    <3>1. PICK i \in 1 .. n : Change(more[i]) /\ more[i].setting = s
      BY <1>1, <2>1 DEF IsChanging
    <3>2. CASE i = n
      BY <1>1, <1>2, <3>1, <3>2 DEF IsChanging, n
    <3>3. CASE i < n
      <4>1. i + 1 \in 1 .. n /\ more[i] = cs[i + 1]
        BY <1>1, <3>3
      <4> QED BY <3>1, <4>1 DEF IsChanging, n
    <3> QED BY <1>1, <3>1, <3>2, <3>3
  <2>2. ASSUME NEW s, IsChanging(cs, s) PROVE IsChanging(more, s)
    <3>1. PICK i \in 1 .. n : Change(cs[i]) /\ cs[i].setting = s
      BY <2>2 DEF IsChanging, n
    <3>2. CASE i = 1
      <4>1. n \in 1 .. Len(more) /\ Change(more[n]) /\ more[n].setting = s
        BY <1>1, <1>2, <3>1, <3>2
      <4> QED BY <4>1 DEF IsChanging
    <3>3. CASE i > 1
      <4>1. i - 1 \in 1 .. n - 1 /\ (i - 1) + 1 = i
        BY <1>1, <3>3
      <4>2. i - 1 \in 1 .. Len(more) /\ more[i - 1] = cs[i]
        BY <1>1, <4>1
      <4> QED BY <3>1, <4>2 DEF IsChanging
    <3> QED BY <1>1, <3>1, <3>2, <3>3
  <2> QED BY <2>1, <2>2
<1>4. ASSUME NEW i \in 1 .. n, LastChange(more, i) PROVE more[i].value = told[more[i].setting]
  <2>1. \A j \in 1 .. n : j # i /\ Change(more[j]) /\ more[j].setting = more[i].setting => Sooner(more, j, i)
    BY <1>1, <1>4 DEF LastChange
  <2>2. CASE i = n
    <3>1. ASSUME NEW j \in 1 .. n, j # 1, Change(cs[j]), cs[j].setting = cs[1].setting PROVE Sooner(cs, j, 1)
      <4>1. j - 1 \in 1 .. n - 1 /\ (j - 1) + 1 = j /\ j - 1 # n
        BY <1>1, <3>1
      <4>2. more[j - 1] = cs[j] /\ Sooner(more, j - 1, n)
        BY <1>1, <2>1, <2>2, <3>1, <4>1
      <4>3. more[j - 1].op = "save"
        BY <1>1, <4>2 DEF Sooner
      <4> QED BY <4>2, <4>3 DEF Sooner
    <3>2. LastChange(cs, 1)
      BY <1>2, <3>1 DEF LastChange, n
    <3> QED BY <1>1, <1>2, <2>2, <3>2 DEF Saying, n
  <2>3. CASE i < n
    <3>1. i + 1 \in 1 .. n /\ more[i] = cs[i + 1] /\ Change(cs[i + 1])
      BY <1>1, <1>4, <2>3 DEF LastChange
    <3>2. ASSUME NEW j \in 1 .. n, j # i + 1, Change(cs[j]), cs[j].setting = cs[i + 1].setting
          PROVE  Sooner(cs, j, i + 1)
      <4>1. CASE j = 1
        <5>1. Sooner(more, n, i)
          BY <1>1, <1>2, <2>1, <2>3, <3>1, <3>2, <4>1
        <5>2. cs[i + 1].op = "read"
          BY <1>1, <2>3, <3>1, <5>1 DEF Sooner
        <5> QED BY <1>1, <2>3, <4>1, <5>2 DEF Sooner
      <4>2. CASE j > 1
        <5>1. j - 1 \in 1 .. n - 1 /\ (j - 1) + 1 = j /\ j - 1 # i /\ j - 1 \in 1 .. n
          BY <1>1, <3>2, <4>2
        <5>2. more[j - 1] = cs[j]
          BY <1>1, <5>1
        <5>3. Sooner(more, j - 1, i)
          BY <2>1, <3>1, <3>2, <5>1, <5>2
        <5> QED BY <1>1, <3>1, <5>1, <5>2, <5>3 DEF Sooner
      <4> QED BY <1>1, <3>2, <4>1, <4>2
    <3>3. LastChange(cs, i + 1)
      BY <3>1, <3>2 DEF LastChange, n
    <3> QED BY <3>1, <3>3 DEF Saying, n
  <2> QED BY <1>1, <2>2, <2>3
<1> QED BY <1>1, <1>3, <1>4 DEF Saying, more

-----------------------------------------------------------------------------
(* Each action keeps the invariant. *)

LEMMA OpenKeeps == ASSUME Prefs!PreferencesConstants, SettingsInv, Prefs!Open \/ Prefs!Close PROVE SettingsInv'
<1> USE DEF SettingsInv, SettingsTypes
<1>1. CASE Prefs!Open
  <2> DEFINE c == Prefs!ARead("load")
  <2>1. c \in Prefs!Call /\ c.op = "load" /\ ~Change(c)
    BY ReadIsCall DEF Change
  <2>2. /\ calls' = Append(calls, c) /\ visible' = TRUE /\ UNCHANGED <<stored, rowShows, asked, overwritten>>
        /\ switch' = IF visible THEN switch ELSE Prefs!Defaults
        /\ overtaken' = IF visible THEN overtaken ELSE Settings
    BY <1>1 DEF Prefs!Open
  <2> HIDE DEF c
  <2>3. /\ calls' \in Seq(Prefs!Call) /\ Len(calls') = Len(calls) + 1 /\ Len(calls) \in Nat
        /\ \A i \in 1 .. Len(calls) : calls'[i] = calls[i]
        /\ calls'[Len(calls) + 1] = c
    BY <2>1, <2>2, CallAdded
  <2>4. Saying(calls', asked') /\ \A s : IsChanging(calls', s) <=> IsChanging(calls, s)
    BY <2>1, <2>2, LooksAdded
  <2>5. SettingsTypes'
    <3>1. Prefs!Defaults \in Prefs!Values
      BY DEF Prefs!Defaults, Prefs!Values, Prefs!PreferencesConstants
    <3> QED BY <2>2, <2>3, <3>1
  <2>6. SavesOwn'
    BY <2>1, <2>3 DEF SavesOwn
  <2>7. StoredOrComing' /\ SwitchIsAsked'
    BY <2>2, <2>4 DEF StoredOrComing, SwitchIsAsked
  <2>8. RowsOvertake'
    <3>1. ASSUME NEW i \in 1 .. Len(calls'), Change(calls'[i]), calls'[i].from = "row" PROVE calls'[i].setting \in overtaken'
      <4>1. i \in 1 .. Len(calls) /\ calls'[i] = calls[i]
        BY <2>1, <2>3, <3>1
      <4>2. calls[i] \in Prefs!Call
        BY <4>1
      <4>3. calls[i].setting \in Settings
        BY <4>2 DEF Prefs!Call
      <4> QED BY <2>2, <3>1, <4>1, <4>3 DEF RowsOvertake
    <3> QED BY <3>1 DEF RowsOvertake
  <2> QED BY <2>4, <2>5, <2>6, <2>7, <2>8
<1>2. CASE Prefs!Close
  BY <1>2 DEF Prefs!Close, Saying, SavesOwn, StoredOrComing, SwitchIsAsked, RowsOvertake
<1> QED BY <1>1, <1>2

LEMMA TapKeeps ==
    ASSUME Prefs!PreferencesConstants, SettingsInv, NEW s \in Settings, Prefs!Tap(s) \/ Prefs!ApplyInList(s)
    PROVE  SettingsInv'
<1> USE DEF SettingsInv, SettingsTypes
<1>1. PICK c \in Prefs!Call :
        /\ calls' = Append(calls, c) /\ c.op = "read" /\ c.setting = s
        /\ asked' = [asked EXCEPT ![s] = c.value]
        /\ (visible /\ switch' = [switch EXCEPT ![s] = c.value] /\ c.from = "screen") \/ (~visible /\ switch' = switch)
        /\ UNCHANGED <<stored, visible, rowShows, overwritten, overtaken>>
  <2>1. Prefs!ARead("read") \in Prefs!Call /\ Prefs!ARead("read").op = "read"
    BY ReadIsCall
  <2>2. CASE Prefs!Tap(s)
    <3> DEFINE v == Prefs!Next1(switch[s])
               c == [Prefs!ARead("read") EXCEPT !.setting = s, !.value = v, !.was = switch[s]]
    <3>1. v \in 0 .. Depths - 1 /\ switch[s] \in 0 .. Depths - 1
      BY NextIsValue DEF Prefs!Values
    <3>2. switch' = [switch EXCEPT ![s] = v] /\ switch'[s] = v
      BY <2>2 DEF Prefs!Tap, Prefs!Values
    <3>3. /\ calls' = Append(calls, c) /\ asked' = [asked EXCEPT ![s] = v] /\ visible
          /\ UNCHANGED <<stored, visible, rowShows, overwritten, overtaken>>
      BY <2>2, <3>2 DEF Prefs!Tap
    <3>4. Prefs!ARead("read").from = "screen"
      BY DEF Prefs!ARead
    <3> HIDE DEF v
    <3>5. c \in Prefs!Call /\ c.op = "read" /\ c.setting = s /\ c.value = v /\ c.from = "screen"
      BY <2>1, <3>1, <3>4 DEF Prefs!Call
    <3> HIDE DEF c
    <3> QED BY <3>2, <3>3, <3>5
  <2>3. CASE Prefs!ApplyInList(s)
    <3> DEFINE v == Prefs!Next1(rowShows[s])
               c == [Prefs!ARead("read") EXCEPT !.setting = s, !.value = v, !.from = "row"]
    <3>1. v \in 0 .. Depths - 1
      BY NextIsValue DEF Prefs!Values
    <3>2. /\ calls' = Append(calls, c) /\ asked' = [asked EXCEPT ![s] = v] /\ ~visible
          /\ UNCHANGED <<stored, switch, visible, rowShows, overwritten, overtaken>>
      BY <2>3 DEF Prefs!ApplyInList
    <3> HIDE DEF v
    <3>3. c \in Prefs!Call /\ c.op = "read" /\ c.setting = s /\ c.value = v
      BY <2>1, <3>1 DEF Prefs!Call
    <3> HIDE DEF c
    <3> QED BY <3>2, <3>3
  <2> QED BY <2>2, <2>3
<1>2. c.value \in 0 .. Depths - 1 /\ s \in Settings
  BY DEF Prefs!Call
<1>3. asked' \in Prefs!Values /\ switch' \in Prefs!Values
  BY <1>1, <1>2 DEF Prefs!Values
<1>4. /\ calls' \in Seq(Prefs!Call) /\ Len(calls') = Len(calls) + 1 /\ Len(calls) \in Nat
      /\ \A i \in 1 .. Len(calls) : calls'[i] = calls[i]
      /\ calls'[Len(calls) + 1] = c
  BY <1>1, CallAdded
<1>5. Saying(calls', asked') /\ \A x : IsChanging(calls', x) <=> IsChanging(calls, x) \/ x = s
  BY <1>1, <1>3, ChangeAdded
<1>6. SettingsTypes' /\ SavesOwn'
  BY <1>1, <1>3, <1>4 DEF SavesOwn
<1>7. StoredOrComing'
  BY <1>1, <1>5 DEF StoredOrComing, Prefs!Values
<1>8. SwitchIsAsked'
  BY <1>1, <1>5 DEF SwitchIsAsked, Prefs!Values
<1>9. RowsOvertake'
  BY <1>1, <1>4 DEF RowsOvertake
<1> QED BY <1>5, <1>6, <1>7, <1>8, <1>9

(* The screen or the list has read. *)
LEMMA LooksKeep ==
    ASSUME Prefs!PreferencesConstants, SettingsInv, Prefs!Loaded \/ Prefs!Relisted PROVE SettingsInv'
<1> USE DEF SettingsInv, SettingsTypes
<1>1. /\ calls # <<>> /\ calls' = Tail(calls) /\ Head(calls).op \in {"load", "relist"}
      /\ UNCHANGED <<stored, visible, asked, overwritten>>
      /\ rowShows' = rowShows \/ rowShows' = stored
      /\ \/ UNCHANGED <<switch, overtaken>>
         \/ switch' = stored /\ overtaken' = Prefs!Changing(calls)
  <2>1. Tail(calls) \o <<>> = Tail(calls)
    <3>1. Tail(calls) \in Seq(Prefs!Call) \/ calls = <<>>
      BY CallTaken
    <3>2. calls # <<>>
      BY DEF Prefs!Loaded, Prefs!Relisted, Prefs!Answers
    <3> QED BY <3>1, <3>2, NothingAdded
  <2> QED BY <2>1 DEF Prefs!Loaded, Prefs!Relisted, Prefs!Answers, Prefs!ThenCalls
<1>2. /\ calls' \in Seq(Prefs!Call) /\ Len(calls') = Len(calls) - 1 /\ Len(calls) \in Nat /\ Len(calls) > 0
      /\ \A i \in 1 .. Len(calls) - 1 : calls'[i] = calls[i + 1]
      /\ calls[1].op \in {"load", "relist"}
  BY <1>1, CallTaken
<1>3. \A s : IsChanging(calls', s) <=> IsChanging(calls, s)
  BY <1>1, <1>2, OthersChange DEF Change
<1>4. Saying(calls', asked')
  <2>1. ASSUME NEW i \in 1 .. Len(calls'), LastChange(calls', i) PROVE calls'[i].value = asked[calls'[i].setting]
    <3>1. LastChange(calls, i + 1)
      BY <1>1, <1>2, <2>1, FirstTaken
    <3>2. i + 1 \in 1 .. Len(calls) /\ calls'[i] = calls[i + 1]
      BY <1>2
    <3> QED BY <3>1, <3>2 DEF Saying
  <2> QED BY <1>1, <2>1 DEF Saying
<1>5. Prefs!Changing(calls) \in SUBSET Settings
  <2>1. \A i \in DOMAIN calls : calls[i] \in Prefs!Call
    OBVIOUS
  <2> QED BY <2>1 DEF Prefs!Changing, Prefs!Call
<1>6. SettingsTypes'
  BY <1>1, <1>2, <1>5
<1>7. SavesOwn'
  <2>1. \A i \in 1 .. Len(calls') : i + 1 \in 1 .. Len(calls) /\ calls'[i] = calls[i + 1]
    BY <1>2
  <2> QED BY <2>1 DEF SavesOwn
<1>8. StoredOrComing'
  BY <1>1, <1>3 DEF StoredOrComing
<1>9. SwitchIsAsked' /\ RowsOvertake'
  <2>1. \A i \in 1 .. Len(calls') : i + 1 \in 1 .. Len(calls) /\ calls'[i] = calls[i + 1]
    BY <1>2
  <2>2. CASE UNCHANGED <<switch, overtaken>>
    BY <1>1, <1>3, <2>1, <2>2 DEF SwitchIsAsked, RowsOvertake
  <2>3. CASE switch' = stored /\ overtaken' = Prefs!Changing(calls)
    <3>1. \A s : s \in overtaken' <=> IsChanging(calls, s)
      BY <2>3, ChangingIs
    <3>2. SwitchIsAsked'
      BY <1>1, <1>3, <2>3, <3>1 DEF SwitchIsAsked, StoredOrComing
    <3>3. \A i \in 1 .. Len(calls') : Change(calls'[i]) => calls'[i].setting \in overtaken'
      BY <1>3, <3>1 DEF IsChanging
    <3> QED BY <3>2, <3>3 DEF RowsOvertake
  <2> QED BY <1>1, <2>2, <2>3
<1> QED BY <1>4, <1>6, <1>7, <1>8, <1>9
LEMMA PatchReadKeeps == ASSUME Prefs!PreferencesConstants, SettingsInv, Prefs!PatchRead PROVE SettingsInv'
<1> USE DEF SettingsInv, SettingsTypes
<1> DEFINE head == calls[1]
           c == [head EXCEPT !.op = "save", !.all = [stored EXCEPT ![head.setting] = head.value]]
<1>1. /\ calls # <<>> /\ calls' = Tail(calls) \o <<c>> /\ head.op = "read" /\ head \in Prefs!Call
      /\ UNCHANGED <<stored, switch, visible, rowShows, asked, overwritten, overtaken>>
  <2>1. calls # <<>> /\ Head(calls) = head /\ head \in Prefs!Call
    BY CallTaken DEF Prefs!PatchRead, Prefs!Answers
  <2> QED BY <2>1 DEF Prefs!PatchRead, Prefs!Answers, Prefs!ThenCalls
<1>2. head.setting \in Settings /\ head.value \in 0 .. Depths - 1
  BY <1>1 DEF Prefs!Call
<1> DEFINE all == [stored EXCEPT ![head.setting] = head.value]
<1>3. all \in Prefs!Values /\ all[head.setting] = head.value
  BY <1>2 DEF Prefs!Values
<1> HIDE DEF all
<1>4. c = [head EXCEPT !.op = "save", !.all = all]
  BY DEF all
<1> HIDE DEF c, head
<1>5. /\ c \in Prefs!Call /\ c.op = "save" /\ c.setting = head.setting /\ c.value = head.value
      /\ c.from = head.from /\ c.all = all
  BY <1>1, <1>3, <1>4 DEF Prefs!Call
<1>6. /\ calls' \in Seq(Prefs!Call) /\ Len(calls') = Len(calls) /\ Len(calls) \in Nat /\ Len(calls) > 0
      /\ \A i \in 1 .. Len(calls) - 1 : calls'[i] = calls[i + 1]
      /\ calls'[Len(calls)] = c
  BY <1>1, <1>5, CallTurned
<1>7. Saying(calls', asked') /\ \A s : IsChanging(calls', s) <=> IsChanging(calls, s)
  BY <1>1, <1>5, FirstTurned DEF head
<1>8. \A i \in 1 .. Len(calls') : i = Len(calls) \/ (i + 1 \in 1 .. Len(calls) /\ calls'[i] = calls[i + 1])
  BY <1>6
<1>9. SavesOwn'
  BY <1>3, <1>5, <1>6, <1>8 DEF SavesOwn
<1>10. StoredOrComing' /\ SwitchIsAsked'
  BY <1>1, <1>7 DEF StoredOrComing, SwitchIsAsked
<1>11. RowsOvertake'
  <2>1. visible /\ head.from = "row" => head.setting \in overtaken
    <3>1. 1 \in 1 .. Len(calls)
      BY <1>6
    <3>2. Change(head)
      BY <1>1 DEF Change
    <3> QED BY <3>1, <3>2 DEF RowsOvertake, head
  <2> QED BY <1>1, <1>5, <1>6, <1>8, <2>1 DEF RowsOvertake
<1>12. SettingsTypes'
  BY <1>1, <1>6
<1> QED BY <1>7, <1>9, <1>10, <1>11, <1>12

(* A save is answered: it was the last change of its setting, or another is still to come. *)
LEMMA SaveTaken ==
    ASSUME NEW cs \in Seq(Prefs!Call), cs # <<>>, cs[1].op = "save", NEW told, Saying(cs, told)
    PROVE  /\ Saying(Tail(cs), told)
           /\ IsChanging(Tail(cs), cs[1].setting) \/ cs[1].value = told[cs[1].setting]
<1>1. /\ Tail(cs) \in Seq(Prefs!Call) /\ Len(Tail(cs)) = Len(cs) - 1 /\ Len(cs) \in Nat /\ Len(cs) > 0
      /\ \A j \in 1 .. Len(cs) - 1 : Tail(cs)[j] = cs[j + 1]
  BY CallTaken
<1>2. ASSUME NEW i \in 1 .. Len(Tail(cs)), LastChange(Tail(cs), i) PROVE Tail(cs)[i].value = told[Tail(cs)[i].setting]
  <2>1. LastChange(cs, i + 1)
    BY <1>2, FirstTaken
  <2>2. i + 1 \in 1 .. Len(cs) /\ Tail(cs)[i] = cs[i + 1]
    BY <1>1
  <2> QED BY <2>1, <2>2 DEF Saying
<1>3. ASSUME ~IsChanging(Tail(cs), cs[1].setting) PROVE cs[1].value = told[cs[1].setting]
  <2>1. ASSUME NEW j \in 1 .. Len(cs), j # 1, Change(cs[j]) PROVE cs[j].setting # cs[1].setting
    <3>1. j - 1 \in 1 .. Len(cs) - 1 /\ (j - 1) + 1 = j
      BY <1>1, <2>1
    <3>2. j - 1 \in 1 .. Len(Tail(cs)) /\ Tail(cs)[j - 1] = cs[j]
      BY <1>1, <3>1
    <3> QED BY <1>3, <2>1, <3>2 DEF IsChanging
  <2>2. LastChange(cs, 1)
    BY <1>1, <2>1 DEF LastChange, Change
  <2> QED BY <1>1, <2>2 DEF Saying
<1> QED BY <1>2, <1>3 DEF Saying

(* What follows an answer to a save says nothing new of the calls that were to come. *)
LEMMA RestKeeps ==
    ASSUME SettingsInv, calls # <<>>,
           NEW rest \in Seq(Prefs!Call), NEW asks, rest = Tail(calls) \/ (rest = Append(Tail(calls), asks) /\ asks \in Prefs!Call /\ ~Change(asks)),
           NEW told, Saying(Tail(calls), told)
    PROVE  /\ Saying(rest, told) /\ \A s : IsChanging(rest, s) <=> IsChanging(Tail(calls), s)
           /\ \A i \in 1 .. Len(rest) : Change(rest[i]) => \E j \in 1 .. Len(calls) : rest[i] = calls[j]
<1>1. /\ Tail(calls) \in Seq(Prefs!Call) /\ Len(Tail(calls)) = Len(calls) - 1 /\ Len(calls) \in Nat /\ Len(calls) > 0
      /\ \A j \in 1 .. Len(calls) - 1 : Tail(calls)[j] = calls[j + 1]
  BY CallTaken DEF SettingsInv, SettingsTypes
<1>2. \A i \in 1 .. Len(Tail(calls)) : \E j \in 1 .. Len(calls) : Tail(calls)[i] = calls[j]
  <2>1. \A i \in 1 .. Len(Tail(calls)) : i + 1 \in 1 .. Len(calls) /\ Tail(calls)[i] = calls[i + 1]
    BY <1>1
  <2> QED BY <2>1
<1>3. CASE rest = Tail(calls)
  BY <1>2, <1>3
<1>4. CASE rest = Append(Tail(calls), asks) /\ asks \in Prefs!Call /\ ~Change(asks)
  <2>0. Tail(calls) \in Seq(Prefs!Call) /\ Len(Tail(calls)) \in Nat
    BY <1>1
  <2>1. Saying(rest, told) /\ \A s : IsChanging(rest, s) <=> IsChanging(Tail(calls), s)
    BY <2>0, <1>4, LooksAdded
  <2>2. /\ Len(rest) = Len(Tail(calls)) + 1
        /\ \A i \in 1 .. Len(Tail(calls)) : rest[i] = Tail(calls)[i]
        /\ rest[Len(Tail(calls)) + 1] = asks
    BY <2>0, <1>4, CallAdded
  <2>3. \A i \in 1 .. Len(rest) : i \in 1 .. Len(Tail(calls)) \/ i = Len(Tail(calls)) + 1
    BY <2>0, <2>2
  <2> QED BY <1>2, <1>4, <2>1, <2>2, <2>3
<1> QED BY <1>3, <1>4

LEMMA PatchSavedKeeps == ASSUME Prefs!PreferencesConstants, SettingsInv, Prefs!PatchSaved PROVE SettingsInv'
<1> USE DEF SettingsInv, SettingsTypes
<1> DEFINE c == calls[1]
           again == Prefs!ARead("relist")
<1>1. /\ calls # <<>> /\ c.op = "save" /\ c \in Prefs!Call
      /\ stored' = c.all
      /\ overwritten' = (overwritten \cup {s \in Settings : stored[s] # c.all[s]}) \ {c.setting}
      /\ calls' = Tail(calls) \o (IF c.from = "row" THEN <<again>> ELSE <<>>)
      /\ overtaken' = IF visible /\ c.from = "row" THEN overtaken \cup {c.setting} ELSE overtaken
      /\ UNCHANGED <<switch, visible, rowShows, asked>>
  <2>1. calls # <<>> /\ Head(calls) = c /\ c \in Prefs!Call
    BY CallTaken DEF Prefs!PatchSaved, Prefs!Answers
  <2> QED BY <2>1 DEF Prefs!PatchSaved, Prefs!Answers, Prefs!ThenCalls
<1>2. again \in Prefs!Call /\ ~Change(again)
  BY ReadIsCall DEF Change
<1>3. /\ Tail(calls) \in Seq(Prefs!Call) /\ 1 \in 1 .. Len(calls)
  BY <1>1, CallTaken
<1> HIDE DEF again
<1>4. calls' \in Seq(Prefs!Call) /\ (calls' = Tail(calls) \/ calls' = Append(Tail(calls), again))
  <2>1. CASE c.from = "row"
    BY <1>1, <1>2, <1>3, <2>1
  <2>2. CASE c.from # "row"
    BY <1>1, <1>3, <2>2, NothingAdded
  <2> QED BY <2>1, <2>2
<1>5. Saying(Tail(calls), asked) /\ (IsChanging(Tail(calls), c.setting) \/ c.value = asked[c.setting])
  BY <1>1, SaveTaken
<1>6. /\ Saying(calls', asked) /\ \A s : IsChanging(calls', s) <=> IsChanging(Tail(calls), s)
      /\ \A i \in 1 .. Len(calls') : Change(calls'[i]) => \E j \in 1 .. Len(calls) : calls'[i] = calls[j]
  BY <1>1, <1>2, <1>4, <1>5, RestKeeps
<1>7. c.all \in Prefs!Values /\ c.all[c.setting] = c.value /\ c.setting \in Settings
  BY <1>1, <1>3 DEF SavesOwn, Prefs!Call
<1>8. \A s : /\ IsChanging(Tail(calls), s) => IsChanging(calls, s)
             /\ IsChanging(calls, s) => IsChanging(Tail(calls), s) \/ c.setting = s
  BY <1>1, OthersChange
<1>9. IsChanging(calls, c.setting)
  BY <1>1, <1>3 DEF IsChanging, Change
<1> HIDE DEF c
<1>10. SettingsTypes'
  BY <1>1, <1>4, <1>7
<1>11. SavesOwn'
  BY <1>6 DEF SavesOwn, Change
<1>12. StoredOrComing'
  <2>1. ASSUME NEW s \in Settings \ overwritten', ~IsChanging(calls', s) PROVE stored'[s] = asked[s]
    <3>1. CASE s = c.setting
      BY <1>1, <1>5, <1>6, <1>7, <2>1, <3>1
    <3>2. CASE s # c.setting
      <4>1. s \notin overwritten /\ stored[s] = c.all[s] /\ ~IsChanging(calls, s)
        BY <1>1, <1>6, <1>8, <2>1, <3>2
      <4> QED BY <1>1, <4>1, <2>1 DEF StoredOrComing
    <3> QED BY <3>1, <3>2
  <2> QED BY <1>1, <2>1 DEF StoredOrComing
<1>13. SwitchIsAsked'
  <2>1. overtaken \subseteq overtaken'
    BY <1>1
  <2>2. \A s \in Settings : s \notin overwritten' => s \notin overwritten \/ s = c.setting
    BY <1>1
  <2> QED BY <1>1, <1>6, <1>8, <1>9, <2>1, <2>2 DEF SwitchIsAsked
<1>14. RowsOvertake'
  <2>1. overtaken \subseteq overtaken'
    BY <1>1
  <2> QED BY <1>1, <1>6, <2>1 DEF RowsOvertake
<1> QED BY <1>1, <1>6, <1>10, <1>11, <1>12, <1>13, <1>14

LEMMA PatchFailsKeeps == ASSUME Prefs!PreferencesConstants, SettingsInv, Prefs!PatchFails PROVE SettingsInv'
<1> USE DEF SettingsInv, SettingsTypes
<1> DEFINE c == calls[1]
           back == c.from = "screen" /\ visible
           more == IsChanging(Tail(calls), c.setting)
<1>1. calls # <<>> /\ Head(calls) = c /\ c.op = "save" /\ c \in Prefs!Call /\ calls' = Tail(calls) \o <<>>
  <2>1. calls # <<>> /\ Head(calls) = c /\ c \in Prefs!Call
    BY CallTaken DEF Prefs!PatchFails, Prefs!Answers
  <2> QED BY <2>1 DEF Prefs!PatchFails, Prefs!Answers, Prefs!ThenCalls
<1>2. Tail(calls) \in Seq(Prefs!Call) /\ 1 \in 1 .. Len(calls)
  BY <1>1, CallTaken
<1>3. calls' = Tail(calls)
  BY <1>1, <1>2, NothingAdded
<1>4. c.setting \in Prefs!Changing(Tail(calls)) <=> more
  BY <1>2, ChangingIs
<1>5. /\ switch' = IF back THEN [switch EXCEPT ![c.setting] = c.was] ELSE switch
      /\ overtaken' = IF back /\ (more \/ stored[c.setting] # c.was) THEN overtaken \cup {c.setting} ELSE overtaken
      /\ asked' = IF more THEN asked ELSE [asked EXCEPT ![c.setting] = stored[c.setting]]
      /\ UNCHANGED <<stored, visible, rowShows, overwritten>>
  BY <1>1, <1>4 DEF Prefs!PatchFails
<1>6. c.setting \in Settings /\ c.was \in 0 .. Depths - 1 /\ c.from \in {"screen", "row"}
  BY <1>1 DEF Prefs!Call
<1>7. Saying(Tail(calls), asked)
  BY <1>1, SaveTaken
<1>8. \A i \in 1 .. Len(Tail(calls)) : i + 1 \in 1 .. Len(calls) /\ Tail(calls)[i] = calls[i + 1]
  BY <1>1, CallTaken
<1>9. \A s : /\ IsChanging(Tail(calls), s) => IsChanging(calls, s)
             /\ IsChanging(calls, s) => IsChanging(Tail(calls), s) \/ c.setting = s
  BY <1>1, OthersChange
<1>10. IsChanging(calls, c.setting)
  BY <1>1, <1>2 DEF IsChanging, Change
<1>11. visible /\ c.from = "row" => c.setting \in overtaken
  BY <1>1, <1>2 DEF RowsOvertake, Change
<1> HIDE DEF c, more, back
<1>12. switch' \in Prefs!Values /\ asked' \in Prefs!Values /\ overtaken' \in SUBSET Settings
  BY <1>5, <1>6 DEF Prefs!Values
<1>13. SettingsTypes'
  BY <1>2, <1>3, <1>5, <1>12
<1>14. Saying(calls', asked')
  <2>1. CASE more
    BY <1>3, <1>5, <1>7, <2>1
  <2>2. CASE ~more
    <3>1. ASSUME NEW i \in 1 .. Len(Tail(calls)), LastChange(Tail(calls), i)
          PROVE  Tail(calls)[i].value = asked'[Tail(calls)[i].setting]
      <4>1. Tail(calls)[i].setting # c.setting
        BY <2>2, <3>1 DEF LastChange, IsChanging, more
      <4>2. Tail(calls)[i] \in Prefs!Call
        BY <1>2
      <4>3. Tail(calls)[i].setting \in Settings /\ asked'[Tail(calls)[i].setting] = asked[Tail(calls)[i].setting]
        BY <1>5, <2>2, <4>1, <4>2 DEF Prefs!Call, Prefs!Values
      <4> QED BY <1>7, <3>1, <4>3 DEF Saying
    <3> QED BY <1>3, <3>1 DEF Saying
  <2> QED BY <2>1, <2>2
<1>15. SavesOwn'
  BY <1>3, <1>8 DEF SavesOwn
<1>16. StoredOrComing'
  <2>1. ASSUME NEW s \in Settings \ overwritten, ~IsChanging(Tail(calls), s) PROVE stored[s] = asked'[s]
    <3>1. CASE s = c.setting
      BY <1>5, <2>1, <3>1 DEF more, Prefs!Values
    <3>2. CASE s # c.setting
      BY <1>5, <1>9, <2>1, <3>2 DEF StoredOrComing, Prefs!Values
    <3> QED BY <3>1, <3>2
  <2> QED BY <1>3, <1>5, <2>1 DEF StoredOrComing
<1>17. SwitchIsAsked'
  <2>1. ASSUME visible, NEW s \in Settings \ overtaken', IsChanging(Tail(calls), s) \/ s \notin overwritten
        PROVE  switch'[s] = asked'[s]
    <3>1. s \in Settings \ overtaken
      BY <1>5, <2>1
    <3>2. CASE s # c.setting
      BY <1>5, <1>9, <2>1, <3>1, <3>2 DEF SwitchIsAsked, Prefs!Values
    <3>3. CASE s = c.setting
      <4>1. c.from = "screen" /\ back
        BY <1>6, <1>11, <2>1, <3>1, <3>3 DEF back
      <4>2. ~more /\ stored[s] = c.was
        BY <1>5, <2>1, <3>3, <4>1
      <4> QED BY <1>5, <3>3, <4>1, <4>2 DEF Prefs!Values
    <3> QED BY <3>2, <3>3
  <2> QED BY <1>3, <1>5, <2>1 DEF SwitchIsAsked
<1>18. RowsOvertake'
  <2>1. overtaken \subseteq overtaken'
    BY <1>5
  <2> QED BY <1>3, <1>5, <1>8, <2>1 DEF RowsOvertake
<1> QED BY <1>13, <1>14, <1>15, <1>16, <1>17, <1>18

LEMMA SettingsStep ==
    Prefs!PreferencesConstants /\ SettingsInv /\ [Prefs!PreferencesNext]_(Prefs!preferenceVars) => SettingsInv'
<1>1. ASSUME SettingsInv, UNCHANGED Prefs!preferenceVars PROVE SettingsInv'
  BY <1>1 DEF Prefs!preferenceVars, SettingsInv, SettingsTypes, Saying, SavesOwn, StoredOrComing, SwitchIsAsked, RowsOvertake
<1> QED BY <1>1, OpenKeeps, TapKeeps, LooksKeep, PatchReadKeeps, PatchSavedKeeps, PatchFailsKeeps, Zenon
        DEF Prefs!PreferencesNext

LEMMA SettingsHold == SettingsInv => Prefs!SettingsStay
<1> SUFFICES ASSUME SettingsInv, calls = <<>>
             PROVE  /\ \A s \in Settings \ overwritten : stored[s] = asked[s]
                    /\ visible => \A s \in Settings \ (overwritten \cup overtaken) : switch[s] = stored[s]
  BY DEF Prefs!SettingsStay
<1>1. \A s : ~IsChanging(calls, s)
  BY DEF IsChanging
<1> QED BY <1>1 DEF SettingsInv, StoredOrComing, SwitchIsAsked

-----------------------------------------------------------------------------
(***************************************************************************)
(* Rows.                                                                   *)
(* MessagesAreTold, for any number of messages, members and reads.  Who    *)
(* said a message, and when, is told whatever the page shows: the first    *)
(* message together with it has the name over it, the last the time under  *)
(* it.  The inductive invariant says what a read that was not cut off      *)
(* knows: what was said by then and is still there is listed, or was sent  *)
(* here since; and what is listed or sent replies to what was said by then.*)
(***************************************************************************)
Elems(s) == Layout!ToSet(s)

(* A nonempty set of numbers has a least one. *)
LEMMA LeastNumber ==
    ASSUME NEW T \in SUBSET Nat, T # {} PROVE \E n \in T : \A m \in T : n <= m
<1>1. PICK n \in T : \A m \in T : ~ (<<m, n>> \in OpToRel(<, Nat))
  BY NatLessThanWellFounded, WFMin, Zenon
<1>2. ASSUME NEW m \in T PROVE n <= m
  <2>1. ~ (<<m, n>> \in {ss \in Nat \X Nat : ss[1] < ss[2]})
    BY <1>1, <1>2 DEF OpToRel
  <2>2. m \in Nat /\ n \in Nat
    BY <1>2
  <2> QED BY <2>1, <2>2
<1> QED BY <1>2

(***************************************************************************)
(* What the sequences the store keeps are made of.                         *)
(***************************************************************************)
LEMMA ElemsAre ==
    ASSUME NEW S, NEW s \in Seq(S)
    PROVE  Elems(s) \subseteq S /\ \A x : x \in Elems(s) <=> \E i \in 1 .. Len(s) : s[i] = x
BY DEF Elems, Layout!ToSet

LEMMA ConcatElems ==
    ASSUME NEW S, NEW s \in Seq(S), NEW t \in Seq(S)
    PROVE  s \o t \in Seq(S) /\ Elems(s \o t) = Elems(s) \cup Elems(t)
<1>1. s \o t \in Seq(S) /\ Len(s \o t) = Len(s) + Len(t) /\ Len(s) \in Nat /\ Len(t) \in Nat
  OBVIOUS
<1>2. \A i \in 1 .. Len(s) : (s \o t)[i] = s[i]
  OBVIOUS
<1>3. \A i \in 1 .. Len(t) : (s \o t)[Len(s) + i] = t[i]
  OBVIOUS
<1>4. ASSUME NEW i \in 1 .. Len(s \o t) PROVE (s \o t)[i] \in Elems(s) \cup Elems(t)
  <2>1. CASE i <= Len(s)
    <3>1. i \in 1 .. Len(s)
      BY <1>1, <2>1
    <3> QED BY <1>2, <3>1, ElemsAre
  <2>2. CASE i > Len(s)
    <3>1. i - Len(s) \in 1 .. Len(t) /\ Len(s) + (i - Len(s)) = i
      BY <1>1, <2>2
    <3>2. (s \o t)[i] = t[i - Len(s)]
      BY <1>3, <3>1
    <3> QED BY <3>1, <3>2, ElemsAre
  <2> QED BY <1>1, <2>1, <2>2
<1>5. ASSUME NEW i \in 1 .. Len(s) PROVE s[i] \in Elems(s \o t)
  <2>1. i \in 1 .. Len(s \o t)
    BY <1>1
  <2> QED BY <1>1, <1>2, <2>1, ElemsAre
<1>6. ASSUME NEW i \in 1 .. Len(t) PROVE t[i] \in Elems(s \o t)
  <2>1. Len(s) + i \in 1 .. Len(s \o t)
    BY <1>1
  <2> QED BY <1>1, <1>3, <2>1, ElemsAre
<1>7. ASSUME NEW x \in Elems(s \o t) PROVE x \in Elems(s) \cup Elems(t)
  <2>1. PICK i \in 1 .. Len(s \o t) : (s \o t)[i] = x
    BY <1>1, ElemsAre
  <2> QED BY <1>4, <2>1
<1>8. ASSUME NEW x \in Elems(s) PROVE x \in Elems(s \o t)
  <2>1. PICK i \in 1 .. Len(s) : s[i] = x
    BY ElemsAre
  <2> QED BY <1>5, <2>1
<1>9. ASSUME NEW x \in Elems(t) PROVE x \in Elems(s \o t)
  <2>1. PICK i \in 1 .. Len(t) : t[i] = x
    BY ElemsAre
  <2> QED BY <1>6, <2>1
<1> QED BY <1>1, <1>7, <1>8, <1>9

LEMMA SubElems ==
    ASSUME NEW S, NEW s \in Seq(S), NEW i \in Nat \ {0}, NEW j \in 0 .. Len(s)
    PROVE  /\ SubSeq(s, i, j) \in Seq(S)
           /\ \A x : x \in Elems(SubSeq(s, i, j)) <=> \E k \in i .. j : s[k] = x
<1>1. /\ SubSeq(s, i, j) \in Seq(S) /\ Len(SubSeq(s, i, j)) = IF i <= j THEN j - i + 1 ELSE 0
      /\ \A k \in 1 .. Len(SubSeq(s, i, j)) : SubSeq(s, i, j)[k] = s[i + k - 1]
  <2>1. CASE i <= j
    BY <2>1, SubSeqProperties
  <2>2. CASE ~ (i <= j)
    BY <2>2, SubSeqProperties
  <2> QED BY <2>1, <2>2
<1>2. ASSUME NEW x, x \in Elems(SubSeq(s, i, j)) PROVE \E k \in i .. j : s[k] = x
  <2>1. PICK k \in 1 .. Len(SubSeq(s, i, j)) : SubSeq(s, i, j)[k] = x
    BY <1>1, <1>2, ElemsAre
  <2>2. i <= j /\ i + k - 1 \in i .. j
    BY <1>1
  <2> QED BY <1>1, <2>1, <2>2
<1>3. ASSUME NEW k \in i .. j PROVE s[k] \in Elems(SubSeq(s, i, j))
  <2>1. k - i + 1 \in 1 .. Len(SubSeq(s, i, j)) /\ i + (k - i + 1) - 1 = k
    BY <1>1
  <2>2. SubSeq(s, i, j)[k - i + 1] = s[k]
    BY <1>1, <2>1
  <2> QED BY <1>1, <2>1, <2>2, ElemsAre
<1> QED BY <1>1, <1>2, <1>3

LEMMA RemoveElems ==
    ASSUME NEW S, NEW s \in Seq(S), NEW i \in DOMAIN s
    PROVE  Layout!RemoveAt(s, i) \in Seq(S) /\ Elems(Layout!RemoveAt(s, i)) \subseteq Elems(s)
<1>1. Len(s) \in Nat /\ i \in 1 .. Len(s) /\ i - 1 \in 0 .. Len(s) /\ i + 1 \in Nat \ {0} /\ Len(s) \in 0 .. Len(s)
      /\ 1 \in Nat \ {0}
  OBVIOUS
<1> DEFINE front == SubSeq(s, 1, i - 1)
           back == SubSeq(s, i + 1, Len(s))
<1>2. front \in Seq(S) /\ \A x : x \in Elems(front) <=> \E k \in 1 .. i - 1 : s[k] = x
  BY <1>1, SubElems
<1>3. back \in Seq(S) /\ \A x : x \in Elems(back) <=> \E k \in i + 1 .. Len(s) : s[k] = x
  BY <1>1, SubElems
<1>4. Layout!RemoveAt(s, i) = front \o back
  BY DEF Layout!RemoveAt
<1> HIDE DEF front, back
<1>5. front \o back \in Seq(S) /\ Elems(front \o back) = Elems(front) \cup Elems(back)
  BY <1>2, <1>3, ConcatElems
<1>6. ASSUME NEW x \in Elems(front) \cup Elems(back) PROVE x \in Elems(s)
  <2>1. PICK k : k \in 1 .. Len(s) /\ s[k] = x
    BY <1>1, <1>2, <1>3, <1>6
  <2> QED BY <2>1, ElemsAre
<1> QED BY <1>4, <1>5, <1>6

LEMMA InsertIs ==
    ASSUME NEW s, NEW i, NEW m
    PROVE  Layout!InsertAt(s, i, m) = SubSeq(s, 1, i - 1) \o <<m>> \o SubSeq(s, i, Len(s))
BY DEF Layout!InsertAt

LEMMA InsertElems ==
    ASSUME NEW S, NEW s \in Seq(S), NEW m \in S
    PROVE  Layout!WithMessage(s, m) \in Seq(S) /\ Elems(Layout!WithMessage(s, m)) = Elems(s) \cup {m}
<1> DEFINE before == {i \in DOMAIN s : s[i].at <= m.at}
           c == Layout!Cardinality(before)
           at == c + 1
           front == SubSeq(s, 1, at - 1)
           back == SubSeq(s, at, Len(s))
<1>1. IsFiniteSet(1 .. Len(s)) /\ Cardinality(1 .. Len(s)) = Len(s) /\ Len(s) \in Nat /\ DOMAIN s = 1 .. Len(s)
  BY FS_Interval
<1>2. IsFiniteSet(before) /\ Cardinality(before) <= Len(s) /\ Cardinality(before) \in Nat
  <2>1. before \in SUBSET (1 .. Len(s))
    BY <1>1
  <2> HIDE DEF before
  <2>2. IsFiniteSet(before) /\ Cardinality(before) <= Cardinality(1 .. Len(s))
    BY <1>1, <2>1, FS_Subset
  <2> QED BY <1>1, <2>2, FS_CardinalityType
<1>3. c = Cardinality(before)
  BY DEF Layout!Cardinality, Cardinality
<1>4. c \in 0 .. Len(s) /\ at - 1 = c /\ at \in Nat \ {0} /\ at = c + 1 /\ Len(s) \in 0 .. Len(s) /\ 1 \in Nat \ {0}
  <2> HIDE DEF before, c
  <2> QED BY <1>1, <1>2, <1>3
<1>5. Layout!WithMessage(s, m) = Layout!InsertAt(s, at, m)
  BY DEF Layout!WithMessage
<1> HIDE DEF c, at
<1>13. Layout!InsertAt(s, at, m) = front \o <<m>> \o back
  BY InsertIs, Zenon
<1> DEFINE one == <<m>>
<1>6. front \in Seq(S) /\ \A x : x \in Elems(front) <=> \E k \in 1 .. c : s[k] = x
  BY <1>4, SubElems
<1>7. back \in Seq(S) /\ \A x : x \in Elems(back) <=> \E k \in c + 1 .. Len(s) : s[k] = x
  BY <1>4, SubElems
<1>8. one \in Seq(S) /\ Elems(one) = {m}
  BY DEF Elems, Layout!ToSet
<1> HIDE DEF front, back, one
<1> DEFINE upTo == front \o one
<1>9. upTo \in Seq(S) /\ Elems(upTo) = Elems(front) \cup {m}
  BY <1>6, <1>8, ConcatElems
<1> HIDE DEF upTo
<1>10. upTo \o back \in Seq(S) /\ Elems(upTo \o back) = Elems(front) \cup {m} \cup Elems(back)
  BY <1>7, <1>9, ConcatElems
<1>11. \A x : x \in Elems(s) <=> x \in Elems(front) \cup Elems(back)
  <2>1. \A k : k \in 1 .. Len(s) <=> k \in 1 .. c \/ k \in c + 1 .. Len(s)
    BY <1>1, <1>4
  <2> QED BY <1>6, <1>7, <2>1, ElemsAre
<1>12. Elems(s) = Elems(front) \cup Elems(back)
  BY <1>11
<1>14. Layout!WithMessage(s, m) = upTo \o back
  BY <1>5, <1>13 DEF one, upTo
<1> QED BY <1>10, <1>12, <1>14

(* What is left of messages when those of a list are taken out. *)
Keeps(f, s, others, n) ==
    f = [i \in 0 .. n |-> IF i = 0 THEN <<>>
                          ELSE IF s[i].id \in Layout!Ids(others) THEN f[i - 1]
                          ELSE Append(f[i - 1], s[i])]

LEMMA KeepsExists ==
    ASSUME NEW S, NEW s \in Seq(S), NEW others PROVE \E f : Keeps(f, s, others, Len(s))
<1> DEFINE T == {n \in 0 .. Len(s) : ~ \E f : Keeps(f, s, others, n)}
<1>0. Len(s) \in Nat
  OBVIOUS
<1>1. SUFFICES ASSUME T # {} PROVE FALSE
  BY <1>0
<1>2. PICK n \in T : \A m \in T : n <= m
  <2>1. T \in SUBSET Nat
    BY <1>0
  <2> HIDE DEF T
  <2> QED BY <1>1, <2>1, LeastNumber
<1>3. n \in 0 .. Len(s) /\ ~ \E f : Keeps(f, s, others, n)
  OBVIOUS
<1>4. n # 0
  <2> DEFINE f == [i \in 0 .. 0 |-> <<>>]
  <2>1. Keeps(f, s, others, 0)
    BY DEF Keeps
  <2> QED BY <1>3, <2>1
<1>5. n - 1 \in 0 .. Len(s) /\ n - 1 \notin T
  BY <1>0, <1>2, <1>3, <1>4
<1>6. PICK f : Keeps(f, s, others, n - 1)
  BY <1>5
<1> HIDE DEF T
<1> DEFINE next(g, i) == IF s[i].id \in Layout!Ids(others) THEN g[i - 1] ELSE Append(g[i - 1], s[i])
           h == [i \in 0 .. n |-> IF i = n THEN next(f, n) ELSE f[i]]
<1>7. \A i \in 0 .. n - 1 : f[i] = IF i = 0 THEN <<>> ELSE next(f, i)
  BY <1>6 DEF Keeps
<1>8. ASSUME NEW i \in 0 .. n PROVE h[i] = IF i = 0 THEN <<>> ELSE next(h, i)
  <2>1. CASE i = 0
    BY <1>3, <1>4, <1>7, <2>1
  <2>2. CASE i # 0 /\ i # n
    <3>1. i \in 0 .. n - 1 /\ i - 1 \in 0 .. n /\ i - 1 # n
      BY <1>3, <2>2
    <3>2. h[i] = f[i] /\ h[i - 1] = f[i - 1]
      BY <2>2, <3>1
    <3> QED BY <1>7, <2>2, <3>1, <3>2
  <2>3. CASE i = n
    <3>1. n - 1 \in 0 .. n /\ n - 1 # n
      BY <1>3, <1>4
    <3>2. h[n - 1] = f[n - 1]
      BY <3>1
    <3>3. n \in 0 .. n
      BY <1>3
    <3>4. h[n] = next(f, n)
      BY <3>3
    <3> QED BY <1>4, <2>3, <3>2, <3>4
  <2> QED BY <2>1, <2>2, <2>3
<1>9. h = [i \in 0 .. n |-> IF i = 0 THEN <<>> ELSE next(h, i)]
  <2>1. h = [i \in 0 .. n |-> h[i]]
    OBVIOUS
  <2> HIDE DEF h
  <2> QED BY <1>8, <2>1
<1>10. Keeps(h, s, others, n)
  BY <1>9 DEF Keeps
<1> QED BY <1>3, <1>10

LEMMA WithoutElems ==
    ASSUME NEW S, NEW s \in Seq(S), NEW others
    PROVE  /\ Layout!Without(s, others) \in Seq(S)
           /\ \A x : x \in Elems(Layout!Without(s, others)) <=> x \in Elems(s) /\ x.id \notin Layout!Ids(others)
<1> DEFINE k == CHOOSE f : Keeps(f, s, others, Len(s))
           Is(n) == /\ k[n] \in Seq(S)
                    /\ \A x : x \in Elems(k[n]) <=> \E i \in 1 .. n : s[i] = x /\ x.id \notin Layout!Ids(others)
           T == {n \in 0 .. Len(s) : ~Is(n)}
<1>0. Len(s) \in Nat
  OBVIOUS
<1>1. Keeps(k, s, others, Len(s))
  BY KeepsExists
<1>2. Layout!Without(s, others) = k[Len(s)]
  BY DEF Layout!Without, Keeps
<1> HIDE DEF k
<1>3. k[0] = <<>>
  BY <1>0, <1>1 DEF Keeps
<1>4. \A i \in 1 .. Len(s) : k[i] = IF s[i].id \in Layout!Ids(others) THEN k[i - 1] ELSE Append(k[i - 1], s[i])
  <2>1. TAKE i \in 1 .. Len(s)
  <2>2. i \in 0 .. Len(s) /\ i # 0
    BY <1>0
  <2> QED BY <1>1, <2>2 DEF Keeps
<1>5. Is(0)
  <2>1. <<>> \in Seq(S) /\ Elems(<<>>) = {}
    BY DEF Elems, Layout!ToSet
  <2> QED BY <1>3, <2>1
<1>6. ASSUME NEW n \in 1 .. Len(s), Is(n - 1) PROVE Is(n)
  <2>1. s[n] \in S /\ n \in Nat /\ n >= 1
    BY <1>0
  <2>2. CASE s[n].id \in Layout!Ids(others)
    <3>1. k[n] = k[n - 1]
      BY <1>4, <2>2
    <3>2. \A i : i \in 1 .. n <=> i \in 1 .. n - 1 \/ i = n
      BY <2>1
    <3> QED BY <1>6, <2>2, <3>1, <3>2
  <2>3. CASE s[n].id \notin Layout!Ids(others)
    <3>1. k[n] = Append(k[n - 1], s[n])
      BY <1>4, <2>3
    <3>2. k[n] = k[n - 1] \o <<s[n]>>
      BY <1>6, <2>1, <3>1, AppendIsConcat
    <3> DEFINE one == <<s[n]>>
    <3>3. one \in Seq(S) /\ Elems(one) = {s[n]} /\ k[n] = k[n - 1] \o one
      BY <2>1, <3>2 DEF Elems, Layout!ToSet
    <3> HIDE DEF one
    <3>4. k[n] \in Seq(S) /\ Elems(k[n]) = Elems(k[n - 1]) \cup {s[n]}
      BY <1>6, <3>3, ConcatElems
    <3>5. \A i : i \in 1 .. n <=> i \in 1 .. n - 1 \/ i = n
      BY <2>1
    <3> QED BY <1>6, <2>3, <3>4, <3>5
  <2> QED BY <2>2, <2>3
<1>7. T = {}
  <2>1. SUFFICES ASSUME T # {} PROVE FALSE
    OBVIOUS
  <2>2. T \in SUBSET Nat /\ T \subseteq 0 .. Len(s)
    BY <1>0
  <2>3. \A n \in 0 .. Len(s) : n \in T <=> ~Is(n)
    OBVIOUS
  <2> HIDE DEF T, Is
  <2>4. PICK n \in T : \A m \in T : n <= m
    BY <2>1, <2>2, LeastNumber
  <2>5. n # 0 /\ n \in 1 .. Len(s) /\ n - 1 \in 0 .. Len(s) /\ n - 1 \notin T
    BY <1>0, <1>5, <2>2, <2>3, <2>4
  <2> QED BY <1>6, <2>2, <2>3, <2>4, <2>5
<1>8. Is(Len(s))
  <2>1. Len(s) \in 0 .. Len(s)
    BY <1>0
  <2> HIDE DEF Is
  <2> QED BY <1>7, <2>1
<1> QED BY <1>2, <1>8, ElemsAre

(***************************************************************************)
(* What the reader is told by any page.                                    *)
(***************************************************************************)
LEMMA ShowerIsNamed ==
    ASSUME Layout!Shown \in Seq(Layout!Said), NEW i \in 1 .. Len(Layout!Shown), ~Layout!Mine(i)
    PROVE  \E j \in 1 .. i : Layout!ShowSender(j) /\ Layout!Together(j, i)
<1> DEFINE T == {j \in 1 .. i : Layout!Together(j, i)}
<1>1. i \in 1 .. i /\ i \in Nat /\ T \in SUBSET Nat
  OBVIOUS
<1>2. Layout!Together(i, i)
  BY <1>1 DEF Layout!Together
<1>3. T # {}
  BY <1>1, <1>2
<1>4. PICK j \in T : \A k \in T : j <= k
  <2> HIDE DEF T
  <2> QED BY <1>1, <1>3, LeastNumber
<1>5. j \in 1 .. i /\ Layout!Together(j, i) /\ j \in Nat
  BY <1>4
<1>6. Layout!Shown[i].by = Layout!Shown[j].by
  BY <1>1, <1>5 DEF Layout!Together
<1>7. ~Layout!Mine(j)
  BY <1>6 DEF Layout!Mine
<1>8. ~Layout!Grouped(j)
  <2>1. SUFFICES ASSUME Layout!Grouped(j) PROVE FALSE
    OBVIOUS
  <2>2. j > 1 /\ Layout!Shown[j - 1].by = Layout!Shown[j].by /\ Layout!Day(j - 1) = Layout!Day(j)
    BY <2>1 DEF Layout!Grouped
  <2>3. ~Layout!UnderDay(j)
    BY <1>5, <2>2 DEF Layout!UnderDay
  <2>4. ASSUME NEW k \in j - 1 .. i
        PROVE  Layout!Shown[k].by = Layout!Shown[j - 1].by /\ (k > j - 1 => ~Layout!UnderDay(k))
    <3>1. CASE k = j - 1
      BY <1>5, <3>1
    <3>2. CASE k = j
      BY <2>2, <2>3, <3>2
    <3>3. CASE k > j
      <4>1. k \in j .. i
        BY <1>5, <3>3
      <4> QED BY <1>5, <2>2, <3>3, <4>1 DEF Layout!Together
    <3> QED BY <1>5, <3>1, <3>2, <3>3
  <2>5. Layout!Together(j - 1, i)
    BY <2>4 DEF Layout!Together
  <2>6. j - 1 \in 1 .. i /\ ~ (j <= j - 1)
    BY <1>1, <1>5, <2>2
  <2>7. j - 1 \in T
    BY <2>5, <2>6
  <2> QED BY <1>4, <2>6, <2>7
<1>9. Layout!ShowSender(j)
  BY <1>7, <1>8 DEF Layout!ShowSender
<1> QED BY <1>5, <1>9

LEMMA ShowerIsTimed ==
    ASSUME Layout!Shown \in Seq(Layout!Said), NEW i \in 1 .. Len(Layout!Shown)
    PROVE  \E j \in i .. Len(Layout!Shown) :
              Layout!Together(i, j) /\ (Layout!ShowMeta(j) \/ Layout!AtMidnight(j))
<1> DEFINE n == Len(Layout!Shown)
           T == {k \in 0 .. n : n - k \in i .. n /\ Layout!Together(i, n - k)}
<1>0. n \in Nat /\ i \in 1 .. n /\ i \in Nat
  OBVIOUS
<1> HIDE DEF n
<1>1. T \in SUBSET Nat
  OBVIOUS
<1>2. Layout!Together(i, i)
  BY <1>0 DEF Layout!Together
<1>3. n - i \in 0 .. n /\ n - (n - i) = i /\ i \in i .. n
  BY <1>0
<1>4. n - i \in T
  BY <1>2, <1>3
<1>5. PICK k \in T : \A l \in T : k <= l
  <2> HIDE DEF T
  <2> QED BY <1>1, <1>4, LeastNumber
<1> DEFINE j == n - k
<1>6. k \in 0 .. n /\ j \in i .. n /\ Layout!Together(i, j)
  BY <1>5
<1>7. j \in Nat /\ k \in Nat /\ j = n - k /\ i <= j
  BY <1>0, <1>6
<1> HIDE DEF j
<1>8. CASE j = n
  <2>1. Layout!ShowMeta(j)
    BY <1>8 DEF Layout!ShowMeta, n
  <2> QED BY <1>6, <2>1 DEF n
<1>9. CASE j # n /\ Layout!Shown[j + 1].by # Layout!Shown[j].by
  <2>1. Layout!ShowMeta(j)
    BY <1>9 DEF Layout!ShowMeta
  <2> QED BY <1>6, <2>1 DEF n
<1>10. CASE j # n /\ Layout!UnderDay(j + 1)
  <2>1. j < n
    BY <1>0, <1>6, <1>7, <1>10
  <2>2. Layout!AtMidnight(j)
    BY <1>10, <2>1 DEF Layout!AtMidnight, n
  <2> QED BY <1>6, <2>2 DEF n
<1>11. CASE j # n /\ Layout!Shown[j + 1].by = Layout!Shown[j].by /\ ~Layout!UnderDay(j + 1)
  <2>1. j + 1 \in i .. n /\ k - 1 \in 0 .. n /\ n - (k - 1) = j + 1 /\ ~ (k <= k - 1) /\ j \in i .. j
    BY <1>0, <1>6, <1>7, <1>11
  <2>2. Layout!Shown[j].by = Layout!Shown[i].by
    BY <1>6, <2>1 DEF Layout!Together
  <2>3. ASSUME NEW l \in i .. j + 1
        PROVE  Layout!Shown[l].by = Layout!Shown[i].by /\ (l > i => ~Layout!UnderDay(l))
    <3>1. CASE l = j + 1
      BY <1>11, <2>2, <3>1
    <3>2. CASE l # j + 1
      <4>1. l \in i .. j
        BY <1>0, <1>7, <3>2
      <4> QED BY <1>6, <4>1 DEF Layout!Together
    <3> QED BY <3>1, <3>2
  <2>4. Layout!Together(i, j + 1)
    BY <2>3 DEF Layout!Together
  <2>5. k - 1 \in T
    BY <2>1, <2>4
  <2> QED BY <1>5, <2>1, <2>5
<1> QED BY <1>8, <1>9, <1>10, <1>11

(***************************************************************************)
(* What is kept.                                                           *)
(***************************************************************************)
SaidSoFar ==
    /\ readAt <= count /\ (page = "failed" => readError)
    /\ \A m \in Elems(said) : m.id <= count /\ m.re <= count

ListedByThen ==
    /\ Len(listed) <= ReadLimit
    /\ \A m \in Elems(listed) : m.id <= readAt /\ m.re <= readAt

SentHere ==
    /\ \A m \in Elems(justSent) : m.by = Me /\ m.re <= readAt
    /\ \A m \in Elems(sendings) : m.by \in {Me, Unknown} /\ m.re <= readAt /\ m.id <= count

WholeReadLists ==
    Len(listed) < ReadLimit =>
        \A m \in Elems(said) : m.id <= readAt => m.id \in Layout!Ids(listed) \cup Layout!Ids(justSent)

RowsInv == Layout!RowsTypeOK /\ SaidSoFar /\ ListedByThen /\ SentHere /\ WholeReadLists

LEMMA IdsAre == ASSUME NEW s PROVE Layout!Ids(s) = {m.id : m \in Elems(s)}
BY DEF Layout!Ids, Elems

LEMMA RowsAreTyped ==
    ASSUME Layout!RowsConstants, Layout!RowsTypeOK
    PROVE  /\ said \in Seq(Layout!Said) /\ listed \in Seq(Layout!Said) /\ justSent \in Seq(Layout!Said)
           /\ sendings \in Seq(Layout!Said)
           /\ count \in Nat /\ now \in Nat /\ readAt \in Nat /\ ReadLimit \in Nat \ {0} /\ MaxSaid \in Nat
           /\ DayEnds \in Nat /\ count <= MaxSaid /\ now <= DayEnds /\ readAt <= MaxSaid
           /\ \A m \in Layout!Said : /\ m.id \in Nat /\ m.re \in Nat /\ m.id >= 1
                                     /\ m.id <= MaxSaid /\ m.re <= MaxSaid
<1>1. count \in 0 .. MaxSaid /\ now \in 0 .. DayEnds /\ readAt \in 0 .. MaxSaid
      /\ MaxSaid \in Nat /\ DayEnds \in Nat /\ ReadLimit \in Nat \ {0}
  BY DEF Layout!RowsConstants, Layout!RowsTypeOK
<1>2. said \in Seq(Layout!Said) /\ listed \in Seq(Layout!Said) /\ justSent \in Seq(Layout!Said)
      /\ sendings \in Seq(Layout!Said)
  BY DEF Layout!RowsTypeOK
<1>3. \A m \in Layout!Said : m.id \in 1 .. MaxSaid /\ m.re \in 0 .. MaxSaid
  BY DEF Layout!Said
<1> QED BY <1>1, <1>2, <1>3

LEMMA ShownIs ==
    ASSUME Layout!RowsConstants, Layout!RowsTypeOK
    PROVE  /\ Layout!Shown \in Seq(Layout!Said)
           /\ page \notin {"loading", "failed"} =>
                \A m : m \in Elems(Layout!Shown) <=>
                    \/ m \in Elems(listed) \/ m \in Elems(sendings)
                    \/ m \in Elems(justSent) /\ m.id \notin Layout!Ids(listed)
<1> DEFINE own == Layout!Without(justSent, listed)
           most == listed \o own
<1>1. /\ own \in Seq(Layout!Said)
      /\ \A x : x \in Elems(own) <=> x \in Elems(justSent) /\ x.id \notin Layout!Ids(listed)
  BY RowsAreTyped, WithoutElems
<1> HIDE DEF own
<1>2. most \in Seq(Layout!Said) /\ Elems(most) = Elems(listed) \cup Elems(own)
  BY <1>1, RowsAreTyped, ConcatElems
<1>3. Layout!Shown = IF page \in {"loading", "failed"} THEN <<>> ELSE most \o sendings
  BY DEF Layout!Shown, own
<1> HIDE DEF most
<1>4. most \o sendings \in Seq(Layout!Said) /\ Elems(most \o sendings) = Elems(most) \cup Elems(sendings)
  BY <1>2, RowsAreTyped, ConcatElems
<1>5. <<>> \in Seq(Layout!Said)
  OBVIOUS
<1> QED BY <1>1, <1>2, <1>3, <1>4, <1>5

LEMMA RowsHonest == ASSUME Layout!RowsConstants, RowsInv PROVE Layout!MessagesAreTold
<1>0. Layout!Shown \in Seq(Layout!Said) /\ Layout!Rows = 1 .. Len(Layout!Shown) /\ Len(Layout!Shown) \in Nat
  BY ShownIs DEF RowsInv, Layout!Rows
<1>1. Layout!SpeakersAreTold
  <2>1. ASSUME NEW i \in 1 .. Len(Layout!Shown)
        PROVE  Layout!Mine(i) \/ \E j \in 1 .. i : Layout!ShowSender(j) /\ Layout!Together(j, i)
    <3>1. CASE Layout!Mine(i)
      BY <3>1
    <3>2. CASE ~Layout!Mine(i)
      BY <1>0, <3>2, ShowerIsNamed
    <3> QED BY <3>1, <3>2
  <2>2. ASSUME NEW i \in 1 .. Len(Layout!Shown), Layout!Shown[i] \in Layout!ToSet(sendings)
        PROVE  Layout!Mine(i) \/ Layout!Shown[i].by = Unknown
    <3>1. Layout!Shown[i].by \in {Me, Unknown}
      BY <2>2 DEF RowsInv, SentHere, Elems
    <3> QED BY <3>1 DEF Layout!Mine
  <2> QED BY <1>0, <2>1, <2>2, ShowerIsTimed DEF Layout!SpeakersAreTold
<1>2. Layout!NothingSaidIsTrue
  <2>1. SUFFICES ASSUME Layout!Body = "nothing said", NEW m \in Elems(said) PROVE m.id > readAt
    BY DEF Layout!NothingSaidIsTrue, Elems
  <2>2. page \notin {"loading", "opening"} /\ Layout!Shown = <<>> /\ ~readError
    BY <2>1 DEF Layout!Body
  <2>3. page \notin {"loading", "failed"}
    BY <2>2 DEF RowsInv, SaidSoFar
  <2>4. Elems(Layout!Shown) = {}
    BY <2>2 DEF Elems, Layout!ToSet
  <2>5. Elems(listed) = {} /\ Elems(justSent) = {}
    <3>1. Elems(listed) = {}
      BY <2>3, <2>4, ShownIs DEF RowsInv
    <3>2. Layout!Ids(listed) = {}
      BY <3>1, IdsAre
    <3> QED BY <2>3, <2>4, <3>1, <3>2, ShownIs DEF RowsInv
  <2>6. Layout!Ids(listed) = {} /\ Layout!Ids(justSent) = {}
    BY <2>5, IdsAre
  <2>7. Len(listed) = 0
    <3>1. listed \in Seq(Layout!Said) /\ Len(listed) \in Nat
      BY RowsAreTyped DEF RowsInv
    <3>2. ~ (1 \in 1 .. Len(listed))
      BY <2>5, <3>1, ElemsAre
    <3> QED BY <3>1, <3>2
  <2>8. Len(listed) < ReadLimit
    BY <2>7, RowsAreTyped DEF RowsInv
  <2>9. ~ (m.id <= readAt)
    BY <2>6, <2>8 DEF RowsInv, WholeReadLists
  <2>10. m \in Layout!Said
    BY RowsAreTyped, ElemsAre DEF RowsInv
  <2> QED BY <2>9, <2>10, RowsAreTyped DEF RowsInv
<1>3. Layout!GoneIsGone
  <2>1. SUFFICES ASSUME NEW i \in 1 .. Len(Layout!Shown), Layout!Quote(i) = "gone",
                        Layout!Shown[i].re \in Layout!Ids(said), Len(listed) # ReadLimit
                 PROVE  FALSE
    BY <1>0 DEF Layout!GoneIsGone
  <2> DEFINE r == Layout!Shown[i].re
  <2>2. r # 0 /\ r \notin Layout!Ids(Layout!Shown)
    BY <2>1 DEF Layout!Quote
  <2>3. Layout!Shown[i] \in Elems(Layout!Shown)
    BY <1>0, <2>1, ElemsAre
  <2>4. page \notin {"loading", "failed"}
    <3>1. SUFFICES ASSUME page \in {"loading", "failed"} PROVE FALSE
      OBVIOUS
    <3>2. Layout!Shown = <<>>
      BY <3>1 DEF Layout!Shown
    <3>3. Len(Layout!Shown) = 0
      BY <3>2
    <3> QED BY <2>1, <3>3
  <2>5. \A m : m \in Elems(Layout!Shown) <=>
            \/ m \in Elems(listed) \/ m \in Elems(sendings)
            \/ m \in Elems(justSent) /\ m.id \notin Layout!Ids(listed)
    BY <2>4, ShownIs DEF RowsInv
  <2>6. r <= readAt
    BY <2>3, <2>5 DEF RowsInv, ListedByThen, SentHere
  <2>7. Len(listed) < ReadLimit
    <3>1. Len(listed) \in Nat /\ ReadLimit \in Nat
      BY RowsAreTyped DEF RowsInv
    <3> QED BY <2>1, <3>1 DEF RowsInv, ListedByThen
  <2>8. PICK m \in Elems(said) : m.id = r
    BY <2>1, IdsAre
  <2>9. r \in Layout!Ids(listed) \cup Layout!Ids(justSent)
    BY <2>6, <2>7, <2>8 DEF RowsInv, WholeReadLists
  <2>10. CASE r \in Layout!Ids(listed)
    <3>1. PICK o \in Elems(listed) : o.id = r
      BY <2>10, IdsAre
    <3>2. o \in Elems(Layout!Shown)
      BY <2>5
    <3> QED BY <2>2, <3>1, <3>2, IdsAre
  <2>11. CASE r \notin Layout!Ids(listed)
    <3>1. PICK o \in Elems(justSent) : o.id = r
      BY <2>9, <2>11, IdsAre
    <3>2. o \in Elems(Layout!Shown)
      BY <2>5, <2>11, <3>1
    <3> QED BY <2>2, <3>1, <3>2, IdsAre
  <2> QED BY <2>10, <2>11
<1> QED BY <1>1, <1>2, <1>3 DEF Layout!MessagesAreTold

(***************************************************************************)
(* Every step keeps it.                                                    *)
(***************************************************************************)
LEMMA RowsInitInv == Layout!RowsConstants /\ Layout!RowsInit => RowsInv
<1> SUFFICES ASSUME Layout!RowsConstants, Layout!RowsInit PROVE RowsInv
  OBVIOUS
<1>1. <<>> \in Seq(Layout!Said) /\ Elems(<<>>) = {} /\ Len(<<>>) = 0
  BY DEF Elems, Layout!ToSet
<1>2. MaxSaid \in Nat /\ DayEnds \in Nat /\ ReadLimit \in Nat
  BY DEF Layout!RowsConstants
<1>3. Layout!RowsTypeOK
  <2>1. {said, listed, justSent, sendings} \subseteq Seq(Layout!Said)
    BY <1>1 DEF Layout!RowsInit
  <2>2. count \in 0 .. MaxSaid /\ now \in 0 .. DayEnds /\ readAt \in 0 .. MaxSaid
    BY <1>2 DEF Layout!RowsInit
  <2>3. {ready, readError, rowsActionError} \subseteq BOOLEAN /\ page \in {"loading", "failed", "opening", "ready"}
    BY DEF Layout!RowsInit
  <2> QED BY <2>1, <2>2, <2>3 DEF Layout!RowsTypeOK
<1>4. SaidSoFar
  BY <1>1 DEF Layout!RowsInit, SaidSoFar
<1>5. ListedByThen
  BY <1>1, <1>2 DEF Layout!RowsInit, ListedByThen
<1>6. SentHere /\ WholeReadLists
  BY <1>1 DEF Layout!RowsInit, SentHere, WholeReadLists
<1> QED BY <1>3, <1>4, <1>5, <1>6 DEF RowsInv

(* The steps that neither bring nor take messages. *)
LEMMA TellingKeeps ==
    ASSUME Layout!RowsConstants, RowsInv,
           \/ Layout!TimePasses \/ Layout!ReadNotOpen \/ Layout!ReadFails \/ Layout!Retry
           \/ UNCHANGED Layout!rowVars
    PROVE  RowsInv'
<1>1. UNCHANGED <<said, count, listed, readAt, justSent, sendings>>
  BY DEF Layout!TimePasses, Layout!ReadNotOpen, Layout!ReadFails, Layout!Retry, Layout!rowVars, Layout!pageVars
<1>2. now' \in 0 .. DayEnds
  <2>1. now' = now \/ (now < DayEnds /\ now' = now + 1)
    BY DEF Layout!TimePasses, Layout!ReadNotOpen, Layout!ReadFails, Layout!Retry, Layout!rowVars, Layout!pageVars
  <2> QED BY <2>1, RowsAreTyped DEF RowsInv
<1>3. {ready', readError', rowsActionError'} \subseteq BOOLEAN /\ page' \in {"loading", "failed", "opening", "ready"}
  BY DEF RowsInv, Layout!RowsTypeOK, Layout!TimePasses, Layout!ReadNotOpen, Layout!ReadFails, Layout!Retry,
         Layout!rowVars, Layout!pageVars
<1>4. page' = "failed" => readError'
  BY DEF RowsInv, SaidSoFar, Layout!TimePasses, Layout!ReadNotOpen, Layout!ReadFails, Layout!Retry,
         Layout!rowVars, Layout!pageVars
<1>5. Layout!RowsTypeOK'
  BY <1>1, <1>2, <1>3 DEF RowsInv, Layout!RowsTypeOK
<1>6. SaidSoFar' /\ ListedByThen' /\ SentHere' /\ WholeReadLists'
  BY <1>1, <1>4 DEF RowsInv, SaidSoFar, ListedByThen, SentHere, WholeReadLists, Layout!Ids, Elems
<1> QED BY <1>5, <1>6 DEF RowsInv

(* Another's message arrives, with a new number. *)
LEMMA SaysKeeps ==
    ASSUME Layout!RowsConstants, RowsInv, NEW by \in Talkers, NEW time \in 0 .. now,
           NEW re \in Layout!Ids(said) \cup {0}, Layout!Says(by, time, re)
    PROVE  RowsInv'
<1> DEFINE m == [id |-> count', by |-> by, at |-> time, re |-> re]
<1>1. /\ count < MaxSaid /\ count' = count + 1 /\ said' = Layout!WithMessage(said, m)
      /\ UNCHANGED <<now, listed, ready, page, readError, rowsActionError, readAt, justSent, sendings>>
  BY DEF Layout!Says, Layout!pageVars
<1>2. re \in 0 .. count
  <2>1. \A o \in Elems(said) : o.id \in Nat /\ o.id <= count
    BY RowsAreTyped, ElemsAre DEF RowsInv, SaidSoFar
  <2>2. re \in Layout!Ids(said) => re \in Nat /\ re <= count
    BY <2>1, IdsAre
  <2> QED BY <2>2, RowsAreTyped DEF RowsInv
<1>3. m \in Layout!Said
  <2>1. by \in Members \cup {Unknown}
    BY DEF Layout!RowsConstants
  <2>2. count' \in 1 .. MaxSaid /\ re \in 0 .. MaxSaid /\ time \in 0 .. DayEnds
    BY <1>1, <1>2, RowsAreTyped DEF RowsInv
  <2> QED BY <2>1, <2>2 DEF Layout!Said
<1>4. m.id = count + 1 /\ m.re = re
  BY <1>1
<1> HIDE DEF m
<1>5. said' \in Seq(Layout!Said) /\ Elems(said') = Elems(said) \cup {m}
  BY <1>1, <1>3, RowsAreTyped, InsertElems DEF RowsInv
<1>6. Layout!RowsTypeOK'
  <2>1. count' \in 0 .. MaxSaid
    BY <1>1, RowsAreTyped DEF RowsInv
  <2> QED BY <1>1, <1>5, <2>1 DEF RowsInv, Layout!RowsTypeOK
<1>7. SaidSoFar'
  <2>1. \A o \in Elems(said) : o.id <= count + 1 /\ o.re <= count + 1
    BY RowsAreTyped, ElemsAre DEF RowsInv, SaidSoFar
  <2>2. m.id <= count + 1 /\ m.re <= count + 1 /\ readAt <= count + 1
    BY <1>2, <1>4, RowsAreTyped DEF RowsInv, SaidSoFar
  <2> QED BY <1>1, <1>5, <2>1, <2>2 DEF RowsInv, SaidSoFar
<1>8. ListedByThen'
  BY <1>1 DEF RowsInv, ListedByThen
<1>9. SentHere'
  <2>1. \A o \in Elems(sendings) : o.id <= count + 1
    BY RowsAreTyped, ElemsAre DEF RowsInv, SentHere
  <2> QED BY <1>1, <2>1 DEF RowsInv, SentHere
<1>10. WholeReadLists'
  <2>1. ~ (m.id <= readAt)
    BY <1>4, RowsAreTyped DEF RowsInv, SaidSoFar
  <2> QED BY <1>1, <1>5, <2>1 DEF RowsInv, WholeReadLists, Layout!Ids, Elems
<1> QED BY <1>6, <1>7, <1>8, <1>9, <1>10 DEF RowsInv

LEMMA RemovedKeeps ==
    ASSUME Layout!RowsConstants, RowsInv, NEW i \in DOMAIN said, Layout!Removed(i) PROVE RowsInv'
<1>1. /\ said' = Layout!RemoveAt(said, i)
      /\ UNCHANGED <<count, now, listed, ready, page, readError, rowsActionError, readAt, justSent, sendings>>
  BY DEF Layout!Removed, Layout!pageVars
<1>2. said' \in Seq(Layout!Said) /\ Elems(said') \subseteq Elems(said)
  BY <1>1, RowsAreTyped, RemoveElems DEF RowsInv
<1>3. Layout!RowsTypeOK'
  BY <1>1, <1>2 DEF RowsInv, Layout!RowsTypeOK
<1>4. SaidSoFar' /\ ListedByThen' /\ SentHere'
  BY <1>1, <1>2 DEF RowsInv, SaidSoFar, ListedByThen, SentHere
<1>5. Layout!Ids(listed)' = Layout!Ids(listed) /\ Layout!Ids(justSent)' = Layout!Ids(justSent)
  BY <1>1 DEF Layout!Ids
<1>6. WholeReadLists'
  BY <1>1, <1>2, <1>5 DEF RowsInv, WholeReadLists
<1> QED BY <1>3, <1>4, <1>6 DEF RowsInv

(* A read lists the newest; if it lists fewer than it may, all there are. *)
LEMMA RowsReadKeeps ==
    ASSUME Layout!RowsConstants, RowsInv, Layout!Read PROVE RowsInv'
<1> DEFINE first == IF Len(said) > ReadLimit THEN Len(said) - ReadLimit + 1 ELSE 1
<1>1. /\ listed' = SubSeq(said, first, Len(said)) /\ ready' = TRUE /\ page' = "ready" /\ readError' = FALSE
      /\ readAt' = count /\ justSent' = Layout!Without(justSent, listed')
      /\ UNCHANGED <<said, count, now, rowsActionError, sendings>>
  BY DEF Layout!Read
<1>2. Len(said) \in Nat /\ ReadLimit \in Nat \ {0} /\ said \in Seq(Layout!Said)
  BY RowsAreTyped DEF RowsInv
<1>3. first \in Nat \ {0} /\ first <= Len(said) + 1 /\ (Len(said) < ReadLimit => first = 1)
      /\ Len(said) - first + 1 <= ReadLimit
      /\ (Len(said) >= ReadLimit => first = Len(said) - ReadLimit + 1 /\ first <= Len(said))
  BY <1>2
<1> HIDE DEF first
<1>4. listed' \in Seq(Layout!Said) /\ \A x : x \in Elems(listed') <=> \E k \in first .. Len(said) : said[k] = x
  BY <1>1, <1>2, <1>3, SubElems
<1>5. Len(listed') = IF first <= Len(said) THEN Len(said) - first + 1 ELSE 0
  <2>1. CASE first <= Len(said)
    BY <1>1, <1>2, <1>3, <2>1, SubSeqProperties
  <2>2. CASE ~ (first <= Len(said))
    BY <1>1, <1>2, <1>3, <2>2, SubSeqProperties
  <2> QED BY <2>1, <2>2
<1>6. Len(listed') <= ReadLimit /\ (Len(listed') < ReadLimit => first = 1)
  <2>1. CASE Len(said) < ReadLimit
    BY <1>2, <1>3, <1>5, <2>1
  <2>2. CASE Len(said) >= ReadLimit
    BY <1>2, <1>3, <1>5, <2>2
  <2> QED BY <1>2, <2>1, <2>2
<1>7. /\ justSent' \in Seq(Layout!Said)
      /\ \A x : x \in Elems(justSent') <=> x \in Elems(justSent) /\ x.id \notin Layout!Ids(listed')
  <2>1. justSent \in Seq(Layout!Said)
    BY RowsAreTyped DEF RowsInv
  <2> QED BY <1>1, <2>1, WithoutElems
<1>8. Layout!RowsTypeOK'
  <2>1. readAt' \in 0 .. MaxSaid
    BY <1>1, RowsAreTyped DEF RowsInv
  <2> QED BY <1>1, <1>4, <1>7, <2>1 DEF RowsInv, Layout!RowsTypeOK
<1>9. SaidSoFar'
  <2>1. count <= count
    BY RowsAreTyped DEF RowsInv
  <2> QED BY <1>1, <2>1 DEF RowsInv, SaidSoFar
<1>10. \A m : m \in Elems(listed') => m \in Elems(said)
  BY <1>2, <1>3, <1>4, ElemsAre
<1>11. ListedByThen'
  BY <1>1, <1>6, <1>10 DEF RowsInv, SaidSoFar, ListedByThen
<1>12. SentHere'
  <2>1. ASSUME NEW m \in Elems(justSent) \cup Elems(sendings) PROVE m.re <= count
    <3>1. m \in Layout!Said /\ m.re <= readAt /\ readAt <= count
      BY RowsAreTyped, ElemsAre DEF RowsInv, SentHere, SaidSoFar
    <3> QED BY <3>1, RowsAreTyped DEF RowsInv
  <2> QED BY <1>1, <1>7, <2>1 DEF RowsInv, SentHere
<1>13. WholeReadLists'
  <2>1. SUFFICES ASSUME Len(listed') < ReadLimit, NEW m \in Elems(said)
                 PROVE  m.id \in Layout!Ids(listed')
    BY <1>1 DEF WholeReadLists
  <2>2. PICK k \in 1 .. Len(said) : said[k] = m
    BY <1>2, ElemsAre
  <2>3. m \in Elems(listed')
    BY <1>4, <1>6, <2>1, <2>2
  <2> QED BY <2>3, IdsAre
<1> QED BY <1>8, <1>9, <1>11, <1>12, <1>13 DEF RowsInv

(* A message is sent: it replies to nothing, or to one that was listed. *)
LEMMA SendKeeps ==
    ASSUME Layout!RowsConstants, RowsInv, NEW re \in 0 .. readAt, Layout!Send(re) PROVE RowsInv'
<1> DEFINE m == [id |-> count', by |-> IF ready THEN Me ELSE Unknown, at |-> now, re |-> re]
           one == <<m>>
<1>1. /\ count < MaxSaid /\ count' = count + 1 /\ sendings' = Append(sendings, m)
      /\ UNCHANGED <<said, now, listed, ready, page, readError, rowsActionError, readAt, justSent>>
  BY DEF Layout!Send, Layout!pageVars
<1>2. count' \in 1 .. MaxSaid /\ re \in 0 .. MaxSaid /\ now \in 0 .. DayEnds
  BY <1>1, RowsAreTyped DEF RowsInv
<1>3. (IF ready THEN Me ELSE Unknown) \in Members \cup {Unknown}
  BY DEF Layout!RowsConstants
<1>4. m \in Layout!Said
  BY <1>2, <1>3 DEF Layout!Said
<1>5. m.id = count + 1 /\ m.re = re /\ m.by \in {Me, Unknown}
  BY <1>1
<1> HIDE DEF m
<1>6. one \in Seq(Layout!Said) /\ Elems(one) = {m}
  BY <1>4 DEF Elems, Layout!ToSet
<1>7. sendings' = sendings \o one
  BY <1>1, <1>4, RowsAreTyped, AppendIsConcat DEF RowsInv
<1> HIDE DEF one
<1>8. sendings' \in Seq(Layout!Said) /\ Elems(sendings') = Elems(sendings) \cup {m}
  BY <1>6, <1>7, RowsAreTyped, ConcatElems DEF RowsInv
<1>9. Layout!RowsTypeOK'
  <2>1. count' \in 0 .. MaxSaid
    BY <1>2, RowsAreTyped DEF RowsInv
  <2> QED BY <1>1, <1>8, <2>1 DEF RowsInv, Layout!RowsTypeOK
<1>10. SaidSoFar'
  <2>1. \A o \in Elems(said) : o.id <= count + 1 /\ o.re <= count + 1
    BY RowsAreTyped, ElemsAre DEF RowsInv, SaidSoFar
  <2>2. readAt <= count + 1
    BY RowsAreTyped DEF RowsInv, SaidSoFar
  <2> QED BY <1>1, <2>1, <2>2 DEF RowsInv, SaidSoFar
<1>11. ListedByThen'
  BY <1>1 DEF RowsInv, ListedByThen
<1>12. SentHere'
  <2>1. \A o \in Elems(sendings) : o.id <= count + 1
    BY RowsAreTyped, ElemsAre DEF RowsInv, SentHere
  <2>2. m.id <= count + 1 /\ m.re <= readAt
    BY <1>5, RowsAreTyped DEF RowsInv
  <2> QED BY <1>1, <1>5, <1>8, <2>1, <2>2 DEF RowsInv, SentHere
<1>13. Layout!Ids(listed)' = Layout!Ids(listed) /\ Layout!Ids(justSent)' = Layout!Ids(justSent)
  BY <1>1 DEF Layout!Ids
<1>14. WholeReadLists'
  BY <1>1, <1>13 DEF RowsInv, WholeReadLists
<1> QED BY <1>9, <1>10, <1>11, <1>12, <1>14 DEF RowsInv

(* A reply can be asked for at a message another said, and these are in the list read. *)
LEMMA RepliesAreToListed ==
    ASSUME Layout!RowsConstants, RowsInv, NEW i \in Layout!Rows, "reply" \in Layout!Actions(i)
    PROVE  Layout!Shown[i].id \in 0 .. readAt
<1> DEFINE m == Layout!Shown[i]
<1>1. m \notin Layout!ToSet(sendings) /\ m.by # Me
  BY DEF Layout!Actions, Layout!Bubble, Layout!Mine
<1>2. Layout!Shown \in Seq(Layout!Said) /\ i \in 1 .. Len(Layout!Shown)
  BY ShownIs DEF RowsInv, Layout!Rows
<1>3. m \in Elems(Layout!Shown)
  BY <1>2, ElemsAre
<1>4. page \notin {"loading", "failed"}
  <2>1. SUFFICES ASSUME page \in {"loading", "failed"} PROVE FALSE
    OBVIOUS
  <2>2. Layout!Shown = <<>>
    BY <2>1 DEF Layout!Shown
  <2>3. Len(Layout!Shown) = 0
    BY <2>2
  <2> QED BY <1>2, <2>3
<1>5. m \in Elems(listed)
  BY <1>1, <1>3, <1>4, ShownIs DEF RowsInv, SentHere, Elems
<1>6. m \in Layout!Said /\ m.id <= readAt
  BY <1>5, RowsAreTyped, ElemsAre DEF RowsInv, ListedByThen
<1> QED BY <1>6, RowsAreTyped DEF RowsInv

LEMMA SentKeeps ==
    ASSUME Layout!RowsConstants, RowsInv, NEW i \in DOMAIN sendings, NEW works \in BOOLEAN,
           Layout!SendReturns(i, works)
    PROVE  RowsInv'
<1> DEFINE m == [sendings[i] EXCEPT !.by = Me]
<1>1. /\ sendings' = Layout!RemoveAt(sendings, i)
      /\ rowsActionError' = (rowsActionError \/ ~works)
      /\ UNCHANGED <<count, now, listed, ready, page, readError, readAt>>
  BY DEF Layout!SendReturns
<1>2. \/ said' = Layout!WithMessage(said, m) /\ justSent' = Append(justSent, m)
      \/ UNCHANGED <<said, justSent>>
  BY DEF Layout!SendReturns
<1>3. sendings' \in Seq(Layout!Said) /\ Elems(sendings') \subseteq Elems(sendings)
  BY <1>1, RowsAreTyped, RemoveElems DEF RowsInv
<1>4. sendings[i] \in Layout!Said /\ sendings[i] \in Elems(sendings)
  BY RowsAreTyped, ElemsAre DEF RowsInv
<1>5. m \in Layout!Said /\ m.id = sendings[i].id /\ m.re = sendings[i].re /\ m.by = Me
  BY <1>4 DEF Layout!Said, Layout!RowsConstants
<1>6. m.id <= count /\ m.re <= readAt /\ m.re <= count
  <2>1. m.id <= count /\ m.re <= readAt /\ readAt <= count
    BY <1>4, <1>5 DEF RowsInv, SentHere, SaidSoFar
  <2>2. m.re \in Nat
    BY <1>5, RowsAreTyped DEF RowsInv
  <2> QED BY <2>1, <2>2, RowsAreTyped DEF RowsInv
<1> HIDE DEF m
<1>7. rowsActionError' \in BOOLEAN
  BY <1>1
<1>8. Layout!Ids(listed)' = Layout!Ids(listed)
  BY <1>1 DEF Layout!Ids
<1>9. CASE UNCHANGED <<said, justSent>>
  <2>1. Layout!RowsTypeOK'
    BY <1>1, <1>3, <1>7, <1>9 DEF RowsInv, Layout!RowsTypeOK
  <2>2. Layout!Ids(justSent)' = Layout!Ids(justSent)
    BY <1>9 DEF Layout!Ids
  <2>3. SaidSoFar' /\ ListedByThen' /\ SentHere' /\ WholeReadLists'
    BY <1>1, <1>3, <1>8, <1>9, <2>2 DEF RowsInv, SaidSoFar, ListedByThen, SentHere, WholeReadLists
  <2> QED BY <2>1, <2>3 DEF RowsInv
<1>10. CASE said' = Layout!WithMessage(said, m) /\ justSent' = Append(justSent, m)
  <2>1. said' \in Seq(Layout!Said) /\ Elems(said') = Elems(said) \cup {m}
    BY <1>5, <1>10, RowsAreTyped, InsertElems DEF RowsInv
  <2> DEFINE one == <<m>>
  <2>2. one \in Seq(Layout!Said) /\ Elems(one) = {m}
    BY <1>5 DEF Elems, Layout!ToSet
  <2>3. justSent' = justSent \o one
    BY <1>5, <1>10, RowsAreTyped, AppendIsConcat DEF RowsInv
  <2> HIDE DEF one
  <2>4. justSent' \in Seq(Layout!Said) /\ Elems(justSent') = Elems(justSent) \cup {m}
    BY <2>2, <2>3, RowsAreTyped, ConcatElems DEF RowsInv
  <2>5. Layout!RowsTypeOK'
    BY <1>1, <1>3, <1>7, <2>1, <2>4 DEF RowsInv, Layout!RowsTypeOK
  <2>6. SaidSoFar' /\ ListedByThen'
    BY <1>1, <1>6, <2>1 DEF RowsInv, SaidSoFar, ListedByThen
  <2>7. SentHere'
    BY <1>1, <1>3, <1>5, <1>6, <2>4 DEF RowsInv, SentHere
  <2>8. \A x : x \in Layout!Ids(justSent') <=> x \in Layout!Ids(justSent) \/ x = m.id
    BY <2>4, IdsAre
  <2>9. WholeReadLists'
    BY <1>1, <1>8, <2>1, <2>8 DEF RowsInv, WholeReadLists
  <2> QED BY <2>5, <2>6, <2>7, <2>9 DEF RowsInv
<1> QED BY <1>2, <1>9, <1>10

LEMMA RowsStep ==
    Layout!RowsConstants /\ RowsInv /\ [Layout!RowsNext]_(Layout!rowVars) => RowsInv'
<1> SUFFICES ASSUME Layout!RowsConstants, RowsInv, [Layout!RowsNext]_(Layout!rowVars) PROVE RowsInv'
  OBVIOUS
<1>1. ASSUME Layout!Send(0) PROVE RowsInv'
  <2>1. 0 \in 0 .. readAt
    BY RowsAreTyped DEF RowsInv
  <2> QED BY <1>1, <2>1, SendKeeps
<1>2. ASSUME NEW i \in Layout!Rows, "reply" \in Layout!Actions(i), Layout!Send(Layout!Shown[i].id) PROVE RowsInv'
  BY <1>2, RepliesAreToListed, SendKeeps
<1> QED BY <1>1, <1>2, TellingKeeps, SaysKeeps, RemovedKeeps, RowsReadKeeps, SentKeeps, Zenon DEF Layout!RowsNext

-----------------------------------------------------------------------------
(***************************************************************************)
(* The screens.  Each part begins in Screens as it does alone, and a step  *)
(* of Screens is a step of that part or leaves its variables: so what is   *)
(* proved of a part alone, here and in MemberPartsProofs, holds of it in   *)
(* Screens.  M names the definitions of MemberPartsProofs over the         *)
(* variables of Screens.                                                   *)
(***************************************************************************)
M == INSTANCE MemberPartsProofs WITH Strands <- RowStrands, raced <- rewritten, Unset <- None

LEMMA WatchingIsPart == Spec => WatchingSpec
<1>1. Init => WatchingInit
  BY DEF Init
<1>2. [Next]_vars => [WatchingNext]_watchingVars
  BY DEF Next, vars, SlotsNext, DialogsNext, ChatNext, slotVars
<1> QED BY <1>1, <1>2, PTL DEF Spec, WatchingSpec

LEMMA SummariesIsPart == Spec => SummariesSpec
<1>1. Init => SummariesInit
  BY DEF Init
<1>2. [Next]_vars => [SummariesNext]_summaryVars
  BY DEF Next, vars, SlotsNext, DialogsNext, ChatNext, slotVars
<1> QED BY <1>1, <1>2, PTL DEF Spec, SummariesSpec

LEMMA InvitationsIsPart == Spec => M!InvitingSpec
<1>1. Inviting!InvitationsInit => M!InvitationsInit
  BY DEF Inviting!InvitationsInit, M!InvitationsInit,
         Inviting!NoJob, M!NoJob, Inviting!NoCreate, M!NoCreate, Inviting!NoListing, M!NoListing,
         Inviting!NotForgetting, M!NotForgetting, Inviting!Conversations, M!Conversations
<1>2. Inviting!InvitationsNext => M!InvitationsNext
  BY DEF Inviting!Conversations, M!Conversations, Inviting!Slot, M!Slot, Inviting!NoJob, M!NoJob,
         Inviting!NoCreate, M!NoCreate, Inviting!NoListing, M!NoListing,
         Inviting!NotForgetting, M!NotForgetting, Inviting!forgetVars, M!forgetVars,
         Inviting!Found, M!Found, Inviting!SavePrepared, M!SavePrepared, Inviting!JobEnds,
         M!JobEnds, Inviting!prepareStrand, M!prepareStrand, Inviting!PreparedAlready,
         M!PreparedAlready, Inviting!PreparedFounded, M!PreparedFounded,
         Inviting!ReadBeforeSave, M!ReadBeforeSave, Inviting!PreparedSaved,
         M!PreparedSaved, Inviting!PrepareFails, M!PrepareFails, Inviting!createInvitation,
         M!createInvitation, Inviting!takePrepared, M!takePrepared, Inviting!Taken,
         M!Taken, Inviting!FoundedNow, M!FoundedNow, Inviting!Published, M!Published,
         Inviting!CreateFails, M!CreateFails, Inviting!RememberReads, M!RememberReads,
         Inviting!StoreOutgoing, M!StoreOutgoing, Inviting!RememberStores,
         M!RememberStores, Inviting!NotRemembered, M!NotRemembered, Inviting!Redeemed,
         M!Redeemed, Inviting!ListReads, M!ListReads, Inviting!ListStores, M!ListStores,
         Inviting!ForgetReads, M!ForgetReads, Inviting!ForgetStores, M!ForgetStores,
         Inviting!InvitingDies, M!InvitingDies, Inviting!OpensAgain, M!OpensAgain,
         Inviting!InvitationsNext, M!InvitationsNext
<1>3. Init => M!InvitationsInit
  BY <1>1 DEF Init
<1>4. [Next]_vars => [M!InvitationsNext]_M!invitationVars
  BY <1>2 DEF Next, vars, SlotsNext, DialogsNext, ChatNext, slotVars, invitationVars, M!invitationVars
<1> QED BY <1>3, <1>4, PTL DEF Spec, M!InvitingSpec

LEMMA RegistrationIsPart == Spec => M!RegistrationSpec
<1>1. Member!RegistrationInit => M!RegistrationInit
  BY DEF Member!RegistrationInit, M!RegistrationInit,
         Member!NoTask, M!NoTask, Member!Tasks, M!Tasks, Member!Syncs, M!Syncs
<1>2. Member!RegistrationNext => M!RegistrationNext
  BY DEF Member!Syncs, M!Syncs, Member!Tasks, M!Tasks, Member!NoTask, M!NoTask, Member!To, M!To,
         Member!Registered, M!Registered, Member!GoesOn, M!GoesOn, Member!registerSelf,
         M!registerSelf, Member!NameRead, M!NameRead, Member!RowRead, M!RowRead,
         Member!RowWritten, M!RowWritten, Member!RowFails, M!RowFails, Member!MembersRead,
         M!MembersRead, Member!Inserted, M!Inserted, Member!SaveProfile, M!SaveProfile,
         Member!SyncNameRead, M!SyncNameRead, Member!SyncNext, M!SyncNext, Member!Refuse,
         M!Refuse, Member!Crash, M!Crash, Member!RegistrationNext, M!RegistrationNext
<1>3. Init => M!RegistrationInit
  BY <1>1 DEF Init
<1>4. [Next]_vars => [M!RegistrationNext]_M!registrationVars
  BY <1>2 DEF Next, vars, SlotsNext, DialogsNext, ChatNext, slotVars, registrationVars, M!registrationVars
<1> QED BY <1>3, <1>4, PTL DEF Spec, M!RegistrationSpec

LEMMA AcceptingIsPart == Spec => M!AcceptingSpec
<1>1. Acceptance!AcceptingInit => M!AcceptingInit
  BY DEF Acceptance!AcceptingInit, M!AcceptingInit
<1>2. Acceptance!AcceptingNext => M!AcceptingNext
  BY DEF Acceptance!joinVars, M!joinVars, Acceptance!Inviter, M!Inviter, Acceptance!IsOpen,
         M!IsOpen, Acceptance!OpenView, M!OpenView, Acceptance!Reload, M!Reload,
         Acceptance!Loaded, M!Loaded, Acceptance!CanAccept, M!CanAccept,
         Acceptance!CanRetry, M!CanRetry, Acceptance!accept, M!accept, Acceptance!Decline,
         M!Decline, Acceptance!Fails, M!Fails, Acceptance!Redeems, M!Redeems,
         Acceptance!Approved, M!Approved, Acceptance!Incomplete, M!Incomplete,
         Acceptance!StillStarting, M!StillStarting, Acceptance!AsksAgain, M!AsksAgain,
         Acceptance!NotLetIn, M!NotLetIn, Acceptance!Remembered, M!Remembered,
         Acceptance!Attached, M!Attached, Acceptance!AcceptDies, M!AcceptDies,
         Acceptance!AcceptingNext, M!AcceptingNext
<1>3. Init => M!AcceptingInit
  BY <1>1 DEF Init
<1>4. [Next]_vars => [M!AcceptingNext]_M!acceptingVars
  BY <1>2 DEF Next, vars, SlotsNext, DialogsNext, ChatNext, dialogVars, acceptingVars, M!acceptingVars
<1> QED BY <1>3, <1>4, PTL DEF Spec, M!AcceptingSpec

LEMMA ComposerIsPart == Spec => M!ComposerSpec
<1>1. Compose!ComposerInit => M!ComposerInit
  BY DEF Compose!ComposerInit, M!ComposerInit, Compose!Empty, M!Empty
<1>2. Compose!ComposerNext => M!ComposerNext
  BY DEF Compose!Empty, M!Empty, Compose!Message, M!Message, Compose!Texts, M!Texts, Compose!Load,
         M!Load, Compose!Save, M!Save, Compose!Typed, M!Typed, Compose!setDraft,
         M!setDraft, Compose!Acts, M!Acts, Compose!Mount, M!Mount, Compose!LoadReturns,
         M!LoadReturns, Compose!SaveLands, M!SaveLands, Compose!Type, M!Type,
         Compose!doSend, M!doSend, Compose!Sent, M!Sent, Compose!SendFails, M!SendFails,
         Compose!Edit, M!Edit, Compose!CancelEdit, M!CancelEdit, Compose!Unmount,
         M!Unmount, Compose!ComposerDies, M!ComposerDies, Compose!ComposerNext,
         M!ComposerNext
<1>3. Init => M!ComposerInit
  BY <1>1 DEF Init
<1>4. [Next]_vars => [M!ComposerNext]_M!composerVars
  BY <1>2 DEF Next, vars, SlotsNext, DialogsNext, ChatNext, slotVars, composerVars, M!composerVars
<1> QED BY <1>3, <1>4, PTL DEF Spec, M!ComposerSpec

LEMMA WritingIsPart == Spec => M!WritingSpec
<1>1. Tables!WritingInit => M!WritingInit
  BY DEF Tables!WritingInit, M!WritingInit
<1>2. Tables!WritingNext => M!WritingNext
  BY DEF Tables!Calls, M!Calls, Tables!Rows, M!Rows, Tables!NoRow, M!NoRow, Tables!messages,
         M!messages, Tables!At, M!At, Tables!Ends, M!Ends, Tables!Answers, M!Answers, Tables!On,
         M!On, Tables!Reaction, M!Reaction, Tables!ReactionsOn, M!ReactionsOn, Tables!NotHeard,
         M!NotHeard, Tables!Sees, M!Sees, Tables!UnknownTo, M!UnknownTo, Tables!SeesReaction,
         M!SeesReaction, Tables!Heard, M!Heard, Tables!Begin, M!Begin, Tables!RowInserted,
         M!RowInserted, Tables!TryAgain, M!TryAgain, Tables!InsertTooFew, M!InsertTooFew,
         Tables!Edited, M!Edited, Tables!Reacted, M!Reacted, Tables!Unreacted, M!Unreacted,
         Tables!NothingToWrite, M!NothingToWrite, Tables!ReactionsRemoved, M!ReactionsRemoved,
         Tables!Removed, M!Removed, Tables!StatementFails, M!StatementFails, Tables!Refused,
         M!Refused, Tables!SendRefused, M!SendRefused, Tables!ReactRefused, M!ReactRefused,
         Tables!UnreactRefused, M!UnreactRefused, Tables!DeleteRefused, M!DeleteRefused,
         Tables!ReactionsBack, M!ReactionsBack, Tables!WritingNext, M!WritingNext
<1>3. Init => M!WritingInit
  BY <1>1 DEF Init
<1>4. [Next]_vars => [M!WritingNext]_M!writingVars
  BY <1>2 DEF Next, vars, SlotsNext, DialogsNext, ChatNext, chatVars, writingVars, M!writingVars
<1> QED BY <1>3, <1>4, PTL DEF Spec, M!WritingSpec

(* However databases open, close and are replaced, and nodes are rebuilt, every watch is on    *)
(* the database announced and the store knows of what was committed before                     *)
(* (model.ts:935-939), for any number of strands.                                              *)
THEOREM WatchesAlwaysFollow == Spec => []WatchesFollow
<1>1. WatchingConstants
  BY ScreensConstants DEF ScreensConstants
<1> QED BY <1>1, WatchingIsPart, WatchesFollowAlone, PTL

(* A strand left on purpose does not come back as a connecting row (local-state.ts:107), with  *)
(* any number of lists, foundings and leaves under way, unless one of them held it then.       *)
THEOREM LeftStaysForgotten == Spec => []LeftIsForgotten
BY SummariesIsPart, LeftForgottenAlone, PTL

(* No conversation goes into two invitations, none with an invitation out is hidden as         *)
(* prepared, an unused invitation stays listed and a forgotten one does not                    *)
(* (model.ts:184-186), unless a slot was written between another's read and write of it.       *)
THEOREM InvitationsStayKept == Spec => []InvitationsAreKept
<1>1. M!InvitationConstants
  BY ScreensConstants DEF ScreensConstants, Inviting!InvitationConstants, M!InvitationConstants
<1>2. M!InvitingSpec => []M!InvitationsAreKept
  BY <1>1, M!InvitationsKeptAlone
<1>3. M!InvitationsAreKept => InvitationsAreKept
  BY DEF InvitationsAreKept, Inviting!InvitationsAreKept, M!InvitationsAreKept, Inviting!Conversations,
         M!Conversations, Inviting!Cardinality, M!Cardinality
<1> QED BY <1>2, <1>3, InvitationsIsPart, PTL

(* A name a strand is registered under is the one in its row, and nobody speaks where this     *)
(* device has no row, for any number of sends, attaches and renames at once, over crashes      *)
(* (strands.ts:33-36).                                                                         *)
THEOREM NameStaysRegistered == Spec => []NameIsRegistered
<1>1. M!RegistrationConstants
  BY ScreensConstants DEF ScreensConstants, Member!RegistrationConstants, M!RegistrationConstants
<1>2. M!RegistrationSpec => []M!NameIsRegistered
  BY <1>1, M!NameRegisteredAlone
<1>3. M!NameIsRegistered => NameIsRegistered
  BY DEF NameIsRegistered, Member!NameIsRegistered, M!NameIsRegistered
<1> QED BY <1>2, <1>3, RegistrationIsPart, PTL

(* The key of a redeemed invitation is in the slot or on the way there, and no screen offers   *)
(* to repeat the accept that redeemed it (model.ts:591-592), unless the key was lost: for any  *)
(* number of screens, closed and opened again meanwhile.                                       *)
THEOREM RedeemedIsNotRetried == Spec => []RetryCanSucceed
<1>1. M!RetryCanSucceed => RetryCanSucceed
  BY DEF RetryCanSucceed, Acceptance!RetryCanSucceed, M!RetryCanSucceed
<1> QED BY <1>1, AcceptingIsPart, M!RetrySucceedsAlone, PTL

(* What was typed is in the composer, on its way or where the next screen reads it, until the  *)
(* user changes or sends it (ChatInterface.tsx:150, 209), unless a step known to lose words    *)
(* took them.  A send writes at most one message, and none when too few members answered       *)
(* (model.ts:69); a message deleted is gone with its reactions (operations.ts:217-226), but    *)
(* for what devices wrote that had not heard of each other, or a failure or a refusal left.    *)
(* For any texts, screens, devices, calls and attempts.                                        *)
THEOREM WordsStayKept == Spec => []WordsAreKept
<1>1. M!ComposerConstants /\ M!WritingConstants
  BY ScreensConstants DEF ScreensConstants, Compose!ComposerConstants, M!ComposerConstants,
         Tables!WritingConstants, M!WritingConstants
<1>2. M!ComposerSpec => []M!WordsAreKept
  BY <1>1, M!ComposerKeepsAlone
<1>3. M!WritingSpec => []M!WritesAreWhole
  BY <1>1, M!WritesWholeAlone
<1>4. M!WordsAreKept => Compose!WordsAreKept
  BY DEF Compose!WordsAreKept, M!WordsAreKept, Compose!Held, M!Held, Compose!ReadsBack, M!ReadsBack,
         Compose!Reads, M!Reads
<1>5. M!WritesAreWhole => Tables!WritesAreWhole
  BY DEF Tables!WritesAreWhole, M!WritesAreWhole, Tables!OnePerSend, M!OnePerSend,
         Tables!DeletedIsGone, M!DeletedIsGone, Tables!InsertedBy, M!InsertedBy, Tables!Calls, M!Calls,
         Tables!At, M!At, Tables!On, M!On, Tables!messages, M!messages, Tables!Cardinality, M!Cardinality
<1>6. M!WordsAreKept /\ M!WritesAreWhole => WordsAreKept
  BY <1>4, <1>5 DEF WordsAreKept
<1> QED BY <1>2, <1>3, <1>6, ComposerIsPart, WritingIsPart, PTL

-----------------------------------------------------------------------------
(* The invariants of the parts proved here, in Screens. *)

LEMMA ClaimStays == Spec => []ClaimInv
<1>1. Manager!ClaimingConstants
  BY ScreensConstants DEF ScreensConstants
<1>2. Init => ClaimInv
  BY <1>1, ClaimInitInv DEF Init
<1>3. [Next]_vars => [Manager!ClaimingNext]_(Manager!claimingVars)
  BY DEF Next, vars, SlotsNext, DialogsNext, ChatNext, dialogVars, claimingVars, Manager!claimingVars
<1>4. ClaimInv /\ [Next]_vars => ClaimInv'
  BY <1>1, <1>3, ClaimingStep
<1> QED BY <1>2, <1>4, PTL DEF Spec

LEMMA SearchStays == Spec => []SearchInv
<1>1. Search!SearchConstants
  BY ScreensConstants DEF ScreensConstants
<1>2. Init => SearchInv
  BY <1>1, SearchInitInv DEF Init
<1>3. [Next]_vars => [Search!SearchNext]_(Search!searchVars)
  BY DEF Next, vars, SlotsNext, DialogsNext, ChatNext, dialogVars, searchVars, Search!searchVars
<1>4. SearchInv /\ [Next]_vars => SearchInv'
  BY <1>1, <1>3, SearchStep
<1> QED BY <1>2, <1>4, PTL DEF Spec

LEMMA ScreenStays == Spec => [](ScreenInv /\ PanelInv)
<1>1. Generator!InviteScreenConstants
  BY ScreensConstants DEF ScreensConstants
<1>2. Init => ScreenInv /\ PanelInv
  BY <1>1, ScreenInitInv, PanelInitInv DEF Init
<1>3. [Next]_vars => [Generator!InviteScreenNext]_(Generator!screenVars)
  BY DEF Next, vars, SlotsNext, DialogsNext, ChatNext, dialogVars, inviteScreenVars, Generator!screenVars
<1>4. [Next]_vars => [Generator!PanelNext]_(Generator!panelVars)
  BY DEF Next, vars, SlotsNext, DialogsNext, ChatNext, dialogVars, panelVars, Generator!panelVars, Generator!historyVars
<1>5. ScreenInv /\ PanelInv /\ [Next]_vars => (ScreenInv /\ PanelInv)'
  BY <1>1, <1>3, <1>4, ScreenStep, PanelStep
<1> QED BY <1>2, <1>5, PTL DEF Spec

LEMMA HomeStays == Spec => []HomeInv
<1>1. Init => HomeInv
  BY HomeInitInv DEF Init
<1>2. [Next]_vars => [Home!ListingNext]_(Home!listingVars)
  BY DEF Next, vars, SlotsNext, DialogsNext, ChatNext, chatVars, listingVars, Home!listingVars
<1>3. HomeInv /\ [Next]_vars => HomeInv'
  BY <1>2, ListingStep
<1> QED BY <1>1, <1>3, PTL DEF Spec

LEMMA SettingsInvStays == Spec => []SettingsInv
<1>1. Prefs!PreferencesConstants
  BY ScreensConstants DEF ScreensConstants
<1>2. Init => SettingsInv
  BY <1>1, SettingsInitInv DEF Init
<1>3. [Next]_vars => [Prefs!PreferencesNext]_(Prefs!preferenceVars)
  BY DEF Next, vars, SlotsNext, DialogsNext, ChatNext, chatVars, preferenceVars, Prefs!preferenceVars
<1>4. SettingsInv /\ [Next]_vars => SettingsInv'
  BY <1>1, <1>3, SettingsStep
<1> QED BY <1>2, <1>4, PTL DEF Spec

LEMMA RowsStay == Spec => []RowsInv
<1>1. Layout!RowsConstants
  BY ScreensConstants DEF ScreensConstants
<1>2. Init => RowsInv
  BY <1>1, RowsInitInv DEF Init
<1>3. [Next]_vars => [Layout!RowsNext]_(Layout!rowVars)
  BY DEF Next, vars, SlotsNext, DialogsNext, ChatNext, chatVars, rowVars, Layout!rowVars
<1>4. RowsInv /\ [Next]_vars => RowsInv'
  BY <1>1, <1>3, RowsStep
<1> QED BY <1>2, <1>4, PTL DEF Spec

(* The invitation screen keeps one conversation, of the kind and terms shown                    *)
(* (InvitationGenerator.tsx:37-39), says why nobody could be invited as long as that is so      *)
(* (:64-66), and a strand's screen and the list keep the setting asked for last                 *)
(* (local-state.ts:33): for any choices, conversations, settings and calls under way at once.   *)
THEOREM ScreensStayConsistent == Spec => []ScreenIsConsistent
<1>1. ScreenInv /\ PanelInv /\ SettingsInv => ScreenIsConsistent
  BY ScreenHonest, PanelHonest, SettingsHold DEF ScreenIsConsistent
<1> QED BY <1>1, ScreenStays, SettingsInvStays, PTL

(* What the screens show is what goes on, for any codes, strands, messages and answers: one    *)
(* claim at a time and none behind a dialog (CadreManager.tsx:132-136); the hits of the whole   *)
(* answer (SearchInterface.tsx:7-9); who said each message and when, that nothing was said, and *)
(* that a reply's message is gone (ChatInterface.tsx:130, 157-187, 290); whether the node       *)
(* started and which conversations are open (StrandList.tsx:60-69).                             *)
THEOREM ShownStaysSo == Spec => []ShownIsSo
<1>1. Layout!RowsConstants
  BY ScreensConstants DEF ScreensConstants
<1>2. ClaimInv => Manager!ClaimIsShown
  BY DEF ClaimInv
<1>3. SearchInv => Search!AnswerIsWhole
  BY DEF SearchInv
<1>4. RowsInv => Layout!MessagesAreTold
  BY <1>1, RowsHonest
<1>5. ClaimInv /\ SearchInv /\ RowsInv /\ HomeInv => ShownIsSo
  BY <1>2, <1>3, <1>4, HomeHonest DEF ShownIsSo
<1> QED BY <1>5, ClaimStays, SearchStays, RowsStay, HomeStays, PTL

-----------------------------------------------------------------------------
(***************************************************************************)
(* The types.                                                              *)
(* Most of them are parts of the invariants above.  What is left: which    *)
(* machines answered a claim, the bounds of what a search counts, of the   *)
(* conversations an invitation screen makes, and the strands the list is   *)
(* told of.                                                                *)
(***************************************************************************)
ClaimTyped == ClaimInv /\ Manager!ClaimingTypeOK

LEMMA ClaimTypedInit == Manager!ClaimingConstants /\ Manager!ClaimingInit => ClaimTyped
<1>1. Manager!ClaimingInit => Manager!ClaimingTypeOK
  BY DEF Manager!ClaimingInit, Manager!ClaimingTypeOK
<1> QED BY <1>1, ClaimInitInv DEF ClaimTyped

LEMMA ClaimTypedStep ==
    Manager!ClaimingConstants /\ ClaimTyped /\ [Manager!ClaimingNext]_(Manager!claimingVars) => ClaimTyped'
<1> SUFFICES ASSUME Manager!ClaimingConstants, ClaimTyped, [Manager!ClaimingNext]_(Manager!claimingVars)
             PROVE  ClaimTyped'
  OBVIOUS
<1> DEFINE Rest == /\ device \in {"down", "fresh", "owner"} /\ handledCode \in Codes \cup {None}
                   /\ late \subseteq Codes /\ members \subseteq Codes
<1>1. ClaimInv'
  BY ClaimingStep DEF ClaimTyped
<1>2. Rest /\ \A x \in claims : x.code \in Codes
  BY DEF ClaimTyped, Manager!ClaimingTypeOK
<1>3. Rest'
  <2>1. CASE Manager!Device \/ UNCHANGED Manager!claimingVars \/ Manager!Leave
             \/ \E c \in Codes : Manager!Scan(c)
    BY <1>2, <2>1 DEF Manager!Device, Manager!claimingVars, Manager!Leave, Manager!Scan, Manager!screenVars
  <2>2. CASE \/ Manager!Open \/ (\E scans \in BOOLEAN : Manager!AddMachine(scans)) \/ Manager!ScanCancelled
             \/ \E c \in Codes \cup {None} : Manager!Pasted(c)
    BY <1>2, <2>2 DEF Manager!Open, Manager!AddMachine, Manager!ScanCancelled, Manager!Pasted
  <2>3. CASE \E d \in dialogs : Manager!Dismiss(d) \/ Manager!ConfirmFails(d) \/ Manager!ConfirmThrows(d)
                                \/ Manager!Confirm(d)
    BY <1>2, <2>3 DEF Manager!Dismiss, Manager!ConfirmFails, Manager!ConfirmThrows, Manager!Confirm, Manager!screenVars
  <2>4. CASE \/ \E x \in claims : Manager!ClaimAccepted(x) \/ Manager!ClaimTimesOut(x)
             \/ \E x \in claims, kind \in {"failed", "retry"} : Manager!ClaimFails(x, kind)
             \/ \E c \in late, accepted \in BOOLEAN : Manager!LateEnds(c, accepted)
    BY <1>2, <2>4 DEF Manager!ClaimAccepted, Manager!ClaimTimesOut, Manager!ClaimFails, Manager!LateEnds,
                      Manager!screenVars
  <2> QED BY <2>1, <2>2, <2>3, <2>4 DEF Manager!ClaimingNext
<1>4. Manager!ClaimingTypeOK'
  BY <1>1, <1>3 DEF ClaimInv, ClaimTypes, DialogSet, ClaimSet, Manager!ClaimingTypeOK
<1> QED BY <1>1, <1>4 DEF ClaimTyped

(* A sweep counts each strand it went through once, and skips no more than it went through. *)
Bounded(w) ==
    /\ w.q \in Search!Queries /\ Cardinality(w.left) + w.searched = Cardinality(KnownStrands)
    /\ w.skipped + Doing(w) <= w.searched

SearchBounds ==
    /\ query \in Search!Queries /\ typed \in Search!Queries /\ ran \in Search!Queries
    /\ timer \in BOOLEAN /\ opened \subseteq KnownStrands
    /\ hits \subseteq Search!Queries \X KnownStrands
    /\ progress \in [searched : Search!Counts, skipped : Search!Counts] \cup {None}
    /\ \A w \in sweeps : Bounded(w)

SearchTyped == SearchInv /\ SearchBounds

LEMMA CountsAre ==
    ASSUME Search!SearchConstants
    PROVE  /\ Search!Queries = 0 .. MaxTyped /\ MaxTyped \in Nat
           /\ Search!Counts = 0 .. Cardinality(KnownStrands) /\ Cardinality(KnownStrands) \in Nat
<1>1. \A S : Search!Cardinality(S) = Cardinality(S)
  BY DEF Search!Cardinality, Cardinality
<1> QED BY <1>1, KnownFinite DEF Search!SearchConstants, Search!Queries, Search!Counts

(* What was counted by a sweep in bounds may be shown. *)
LEMMA BoundedCounts ==
    ASSUME Search!SearchConstants, NEW w \in SweepSet, Bounded(w)
    PROVE  w.searched \in Search!Counts /\ w.skipped \in Search!Counts
<1>1. w.left \in SUBSET KnownStrands /\ w.searched \in Nat /\ w.skipped \in Nat
  BY DEF SweepSet
<1>2. Cardinality(w.left) \in Nat /\ Doing(w) \in {0, 1}
  BY <1>1, KnownFinite DEF Doing
<1>3. /\ Cardinality(w.left) + w.searched = Cardinality(KnownStrands)
      /\ w.skipped + Doing(w) <= w.searched
  BY DEF Bounded
<1> QED BY <1>1, <1>2, <1>3, CountsAre

LEMMA SearchTypedInit == Search!SearchConstants /\ Search!SearchInit => SearchTyped
<1> SUFFICES ASSUME Search!SearchConstants, Search!SearchInit PROVE SearchBounds
  BY SearchInitInv DEF SearchTyped
<1> QED BY CountsAre DEF Search!SearchInit, SearchBounds

(* A sweep in the place of another: what it found and counted is in bounds when it is. *)
LEMMA StepBounds ==
    ASSUME Search!SearchConstants, SearchTyped, NEW w \in sweeps, NEW x \in SweepSet, Bounded(x),
           UNCHANGED <<query, typed, timer, opened, ran>>, sweeps' \in {sweeps \ {w}, (sweeps \ {w}) \cup {x}},
           hits' \subseteq Search!Queries \X KnownStrands,
           progress' = progress \/ progress' = [searched |-> x.searched, skipped |-> x.skipped]
    PROVE  SearchBounds'
<1>1. progress' \in [searched : Search!Counts, skipped : Search!Counts] \cup {None}
  <2>1. x.searched \in Search!Counts /\ x.skipped \in Search!Counts
    BY BoundedCounts
  <2> QED BY <2>1 DEF SearchTyped, SearchBounds
<1>2. \A v \in sweeps' : Bounded(v)
  BY DEF SearchTyped, SearchBounds
<1>3. Search!Queries' = Search!Queries /\ Search!Counts' = Search!Counts
  BY DEF Search!Queries, Search!Counts
<1>4. \A v \in sweeps' : v.q \in Search!Queries /\ Cardinality(v.left) + v.searched = Cardinality(KnownStrands)
                         /\ v.skipped + Doing(v) <= v.searched
  BY <1>2 DEF Bounded
<1>5. /\ query \in Search!Queries /\ typed \in Search!Queries /\ ran \in Search!Queries
      /\ timer \in BOOLEAN /\ opened \subseteq KnownStrands
  BY DEF SearchTyped, SearchBounds
<1> QED BY <1>1, <1>3, <1>4, <1>5 DEF SearchBounds, Bounded, Doing

LEMMA VisitBounds ==
    ASSUME Search!SearchConstants, SearchTyped, NEW w \in sweeps, NEW s \in KnownStrands, Search!Visit(w, s)
    PROVE  SearchBounds'
<1>1. ~w.aborted /\ w.at = None /\ s \in w.left /\ w \in SweepSet /\ UNCHANGED <<query, typed, timer, opened, ran>>
  BY DEF Search!Visit, Search!Continues, SearchTyped, SearchInv, SearchTypes
<1> DEFINE y == [w EXCEPT !.left = @ \ {s}, !.searched = @ + 1]
           z == [y EXCEPT !.skipped = @ + 1]
           r == [y EXCEPT !.at = s]
<1>2. w.searched \in Nat /\ w.skipped \in Nat /\ w.left \in SUBSET KnownStrands
  BY <1>1 DEF SweepSet
<1>3. w.searched + 1 \in Nat /\ w.skipped + 1 \in Nat /\ w.left \ {s} \in SUBSET KnownStrands
  BY <1>2
<1>4. /\ y \in SweepSet /\ y.left = w.left \ {s} /\ y.searched = w.searched + 1 /\ y.skipped = w.skipped
      /\ y.at = None /\ y.q = w.q /\ y.aborted = w.aborted
  BY <1>1, <1>3 DEF SweepSet
<1> HIDE DEF y
<1>5. /\ z \in SweepSet /\ z.left = y.left /\ z.searched = y.searched /\ z.skipped = y.skipped + 1
      /\ z.at = y.at /\ z.q = y.q /\ z.aborted = y.aborted
  BY <1>3, <1>4 DEF SweepSet
<1>6. /\ r \in SweepSet /\ r.left = y.left /\ r.searched = y.searched /\ r.skipped = y.skipped
      /\ r.at = s /\ r.q = y.q
  BY <1>4 DEF SweepSet
<1>7. /\ UNCHANGED <<hits, progress>>
      /\ sweeps' = (sweeps \ {w}) \cup {r} \/ sweeps' = (sweeps \ {w}) \cup {z}
  BY <1>1, <1>4, <1>5 DEF Search!Visit, Search!Becomes, y
<1> HIDE DEF z, r
<1>8. Bounded(w) /\ hits \subseteq Search!Queries \X KnownStrands
  BY DEF SearchTyped, SearchBounds
<1>9. Cardinality(w.left \ {s}) = Cardinality(w.left) - 1 /\ Cardinality(w.left) \in Nat
  BY <1>1, <1>2, KnownFinite, FS_RemoveElement
<1>10. w.skipped <= w.searched /\ Cardinality(w.left) + w.searched = Cardinality(KnownStrands) /\ w.q \in Search!Queries
  BY <1>1, <1>2, <1>8 DEF Bounded, Doing
<1>11. Bounded(z) /\ Bounded(r)
  <2>1. Doing(z) = 0 /\ Doing(r) \in {0, 1}
    BY <1>4, <1>5 DEF Doing
  <2> QED BY <1>2, <1>4, <1>5, <1>6, <1>9, <1>10, <2>1 DEF Bounded
<1>12. CASE sweeps' = (sweeps \ {w}) \cup {r}
  BY <1>1, <1>6, <1>7, <1>8, <1>11, <1>12, StepBounds
<1>13. CASE sweeps' = (sweeps \ {w}) \cup {z}
  BY <1>1, <1>5, <1>7, <1>8, <1>11, <1>13, StepBounds
<1> QED BY <1>7, <1>12, <1>13

LEMMA ReadBounds ==
    ASSUME Search!SearchConstants, SearchTyped, NEW w \in sweeps, NEW fails \in BOOLEAN, Search!MessagesRead(w, fails)
    PROVE  SearchBounds'
<1> DEFINE x == [w EXCEPT !.at = None, !.skipped = IF fails THEN @ + 1 ELSE @]
           found == IF fails THEN {} ELSE {<<w.q, w.at>>}
<1>1. /\ w.at # None /\ w \in SweepSet /\ UNCHANGED <<query, typed, timer, opened, ran>>
      /\ Search!Batch(w, x, found)
  BY DEF Search!MessagesRead, SearchTyped, SearchInv, SearchTypes
<1>2. w.searched \in Nat /\ w.skipped \in Nat /\ w.at \in KnownStrands
  BY <1>1 DEF SweepSet
<1>3. w.skipped + 1 \in Nat
  BY <1>2
<1>4. /\ x \in SweepSet /\ x.left = w.left /\ x.searched = w.searched /\ x.skipped \in {w.skipped, w.skipped + 1}
      /\ x.at = None /\ x.q = w.q
  BY <1>1, <1>3 DEF SweepSet
<1>5. Bounded(w) /\ hits \subseteq Search!Queries \X KnownStrands
  BY DEF SearchTyped, SearchBounds
<1>6. found \subseteq Search!Queries \X KnownStrands
  BY <1>2, <1>5 DEF Bounded
<1> HIDE DEF x, found
<1>7. \/ sweeps' = sweeps \ {w} /\ UNCHANGED <<hits, progress>>
      \/ /\ sweeps' = (sweeps \ {w}) \cup {x} /\ hits' = hits \cup found
         /\ progress' = [searched |-> x.searched, skipped |-> x.skipped]
  BY <1>1 DEF Search!Batch, Search!Becomes
<1>8. hits' \subseteq Search!Queries \X KnownStrands
  BY <1>5, <1>6, <1>7
<1>9. Bounded(x)
  <2>1. Doing(w) = 1 /\ Doing(x) = 0
    BY <1>1, <1>4 DEF Doing
  <2>2. w.skipped + 1 <= w.searched /\ Cardinality(w.left) + w.searched = Cardinality(KnownStrands) /\ w.q \in Search!Queries
    BY <1>5, <2>1 DEF Bounded
  <2> QED BY <1>2, <1>4, <2>1, <2>2 DEF Bounded
<1> QED BY <1>1, <1>4, <1>7, <1>8, <1>9, StepBounds

LEMMA RunBounds == ASSUME Search!SearchConstants, SearchTyped, Search!run PROVE SearchBounds'
<1> DEFINE new == [q |-> query, left |-> KnownStrands, at |-> None, begun |-> FALSE,
                   searched |-> 0, skipped |-> 0, aborted |-> FALSE]
           old == {[w EXCEPT !.aborted = TRUE] : w \in sweeps}
<1>1. /\ hits' = {} /\ progress' = None /\ ran' = query /\ UNCHANGED <<query, typed, opened>> /\ timer' = FALSE
      /\ sweeps' = old \cup (IF query = 0 THEN {} ELSE {new})
  BY DEF Search!run, Search!Aborted
<1>2. /\ query \in Search!Queries /\ typed \in Search!Queries /\ opened \subseteq KnownStrands
      /\ sweeps \subseteq SweepSet /\ \A w \in sweeps : Bounded(w)
  BY DEF SearchTyped, SearchBounds, SearchInv, SearchTypes
<1>3. \A x \in old : Bounded(x)
  <2>1. ASSUME NEW w \in sweeps PROVE Bounded([w EXCEPT !.aborted = TRUE])
    <3> DEFINE x == [w EXCEPT !.aborted = TRUE]
    <3>1. x.q = w.q /\ x.left = w.left /\ x.searched = w.searched /\ x.skipped = w.skipped /\ x.at = w.at
      BY <1>2 DEF SweepSet
    <3> HIDE DEF x
    <3>2. Bounded(x)
      BY <1>2, <3>1 DEF Bounded, Doing
    <3> QED BY <3>2 DEF x
  <2> QED BY <2>1
<1>4. Bounded(new)
  <2>1. new.q = query /\ new.left = KnownStrands /\ new.at = None /\ new.searched = 0 /\ new.skipped = 0
    OBVIOUS
  <2> HIDE DEF new
  <2>2. Cardinality(KnownStrands) \in Nat
    BY KnownFinite
  <2> QED BY <1>2, <2>1, <2>2 DEF Bounded, Doing
<1> HIDE DEF new, old
<1>5. \A x \in sweeps' : Bounded(x)
  BY <1>1, <1>3, <1>4
<1>6. \A x \in sweeps' : x.q \in Search!Queries /\ Cardinality(x.left) + x.searched = Cardinality(KnownStrands)
                         /\ x.skipped + Doing(x) <= x.searched
  BY <1>5 DEF Bounded
<1>7. timer' \in BOOLEAN
  BY <1>1
<1> QED BY <1>1, <1>2, <1>6, <1>7 DEF SearchBounds, Bounded, Doing, Search!Queries, Search!Counts

LEMMA SearchTypedStep ==
    Search!SearchConstants /\ SearchTyped /\ [Search!SearchNext]_(Search!searchVars) => SearchTyped'
<1> SUFFICES ASSUME Search!SearchConstants, SearchTyped, [Search!SearchNext]_(Search!searchVars) PROVE SearchTyped'
  OBVIOUS
<1>1. SearchInv'
  BY SearchStep DEF SearchTyped
<1>2. CASE (\E clears \in BOOLEAN : Search!SearchTyped(clears)) \/ (\E s \in KnownStrands : Search!OpensOrCloses(s))
           \/ UNCHANGED Search!searchVars
  <2>1. /\ query' \in Search!Queries /\ typed' \in Search!Queries /\ timer' \in BOOLEAN
        /\ opened' \subseteq KnownStrands /\ UNCHANGED <<sweeps, hits, progress, running, ran>>
    <3>1. ASSUME NEW clears \in BOOLEAN, Search!SearchTyped(clears)
          PROVE  /\ query' \in Search!Queries /\ typed' \in Search!Queries /\ timer' \in BOOLEAN
                 /\ UNCHANGED <<opened, sweeps, hits, progress, running, ran>>
      <4>1. /\ typed < MaxTyped /\ typed' = typed + 1 /\ query' \in {0, typed'} /\ timer' = TRUE
            /\ UNCHANGED <<opened, sweeps, hits, progress, running, ran>>
        BY <3>1 DEF Search!SearchTyped
      <4>2. typed \in 0 .. MaxTyped /\ MaxTyped \in Nat
        BY CountsAre DEF SearchTyped, SearchBounds
      <4> QED BY <4>1, <4>2, CountsAre
    <3> QED BY <1>2, <3>1 DEF SearchTyped, SearchBounds, Search!OpensOrCloses, Search!searchVars
  <2>2. hits \subseteq Search!Queries \X KnownStrands /\ ran \in Search!Queries
        /\ progress \in [searched : Search!Counts, skipped : Search!Counts] \cup {None}
        /\ \A w \in sweeps : Bounded(w)
    BY DEF SearchTyped, SearchBounds
  <2>3. SearchBounds'
    BY <2>1, <2>2 DEF SearchBounds, Bounded, Doing, Search!Queries, Search!Counts
  <2> QED BY <1>1, <2>3 DEF SearchTyped
<1>3. ASSUME NEW w \in sweeps, Search!Begun(w) PROVE SearchBounds'
  <2> DEFINE x == [w EXCEPT !.begun = TRUE]
  <2>1. sweeps' = (sweeps \ {w}) \cup {x} /\ UNCHANGED <<query, typed, timer, opened, hits, progress, running, ran>>
    BY <1>3 DEF Search!Begun, Search!Becomes
  <2>2. /\ x \in SweepSet /\ x.q = w.q /\ x.left = w.left /\ x.searched = w.searched /\ x.skipped = w.skipped
        /\ x.at = w.at
    BY DEF SearchTyped, SearchInv, SearchTypes, SweepSet
  <2>3. Bounded(w) /\ hits \subseteq Search!Queries \X KnownStrands
    BY DEF SearchTyped, SearchBounds
  <2> HIDE DEF x
  <2>4. Bounded(x)
    BY <2>2, <2>3 DEF Bounded, Doing
  <2> QED BY <2>1, <2>2, <2>3, <2>4, StepBounds
<1>4. ASSUME NEW w \in sweeps, Search!SweepEnds(w) PROVE SearchBounds'
  <2>1. sweeps' = sweeps \ {w} /\ UNCHANGED <<query, typed, timer, opened, hits, progress, ran>>
    BY <1>4 DEF Search!SweepEnds
  <2>2. w \in SweepSet /\ Bounded(w) /\ hits \subseteq Search!Queries \X KnownStrands
    BY DEF SearchTyped, SearchInv, SearchTypes, SearchBounds
  <2> QED BY <2>1, <2>2, StepBounds
<1> QED BY <1>1, <1>2, <1>3, <1>4, VisitBounds, ReadBounds, RunBounds DEF SearchTyped, Search!SearchNext

(* Only conversations within the bound are made, and so noted and asked for. *)
MadeBounds == made \subseteq [lead : Generator!Leads, kind : {"private", "public"}]

ScreenTyped == ScreenInv /\ MadeBounds

LEMMA LeadsAre ==
    ASSUME Generator!InviteScreenConstants
    PROVE  Generator!Leads = 0 .. MaxMade /\ MaxMade \in Nat /\ 0 \in Generator!Leads
BY DEF Generator!InviteScreenConstants, Generator!Leads

LEMMA ScreenTypedInit == Generator!InviteScreenConstants /\ Generator!InviteScreenInit => ScreenTyped
<1>1. Generator!InviteScreenInit => MadeBounds
  BY DEF Generator!InviteScreenInit, MadeBounds
<1> QED BY <1>1, ScreenInitInv DEF ScreenTyped

LEMMA ScreenTypedStep ==
    Generator!InviteScreenConstants /\ ScreenTyped /\ [Generator!InviteScreenNext]_(Generator!screenVars) => ScreenTyped'
<1> SUFFICES ASSUME Generator!InviteScreenConstants, ScreenTyped, [Generator!InviteScreenNext]_(Generator!screenVars)
             PROVE  ScreenTyped'
  OBVIOUS
<1>1. ScreenInv'
  BY ScreenStep DEF ScreenTyped
<1>2. ASSUME UNCHANGED made PROVE MadeBounds'
  BY <1>2 DEF ScreenTyped, MadeBounds, Generator!Leads
<1>3. MadeBounds'
  <2>1. CASE (\E k \in {"private", "public"} : Generator!setVisibility(k)) \/ Generator!setTerms \/ Generator!generate
             \/ Generator!Reachable \/ UNCHANGED Generator!screenVars
    BY <1>2, <2>1 DEF Generator!setVisibility, Generator!setTerms, Generator!generate, Generator!Reachable,
                      Generator!screenVars, Generator!madeVars
  <2>2. CASE \E b \in BOOLEAN : Generator!StateRead(b) \/ Generator!RowFound(b) \/ Generator!NotMade(b)
    BY <1>2, <2>2 DEF Generator!StateRead, Generator!RowFound, Generator!NotMade, Generator!madeVars, Generator!Route
  <2>3. CASE Generator!Made
    <3>1. PICK m : m = Generator!Lead
      OBVIOUS
    <3>2. creating # None /\ m.lead <= MaxMade /\ made' = made \cup {m}
      BY <2>3, <3>1 DEF Generator!Made
    <3>3. m \in [lead : Nat, kind : {"private", "public"}]
      BY <3>1, <3>2, LeadIs DEF ScreenTyped
    <3>4. m.lead \in Generator!Leads
      BY <3>2, <3>3, LeadsAre
    <3>5. m \in [lead : Generator!Leads, kind : {"private", "public"}]
      BY <3>3, <3>4
    <3> QED BY <3>2, <3>4, <3>5 DEF ScreenTyped, MadeBounds, Generator!Leads
  <2> QED BY <2>1, <2>2, <2>3 DEF Generator!InviteScreenNext, Generator!InviteKinds
<1> QED BY <1>1, <1>3 DEF ScreenTyped

(* The panel is over what the last invitation asked for came to. *)
Results == {"nothing", "making", "invitation", "error", "nowhere"}

LEMMA ResultStep ==
    ASSUME result \in Results, [Generator!PanelNext]_(Generator!panelVars)
    PROVE  result' \in Results
<1>1. CASE \/ Generator!AddressesMove \/ Generator!ChooseRelay \/ Generator!Away \/ Generator!Return
           \/ Generator!ReachReads \/ Generator!RelayIsSlow \/ UNCHANGED Generator!panelVars
  BY <1>1 DEF Generator!AddressesMove, Generator!ChooseRelay, Generator!Moves, Generator!Away, Generator!Return,
              Generator!ReachReads, Generator!RelayIsSlow, Generator!panelVars
<1>2. CASE Generator!Ask \/ Generator!AskNowhere \/ Generator!ReachAnswers
  BY <1>2 DEF Results, Generator!Ask, Generator!AskNowhere, Generator!ReachAnswers
<1>3. CASE \E answer \in {"invitation", "error"} : Generator!Answer(answer)
  BY <1>3 DEF Results, Generator!Answer
<1> QED BY <1>1, <1>2, <1>3 DEF Generator!PanelNext

LEMMA ScreenTypesAre ==
    ASSUME Generator!InviteScreenConstants, ScreenTyped, PanelInv, result \in Results
    PROVE  Generator!InviteScreenTypeOK
<1>1. MadeLeads \subseteq Generator!Leads
  BY DEF MadeLeads, ScreenTyped, MadeBounds
<1>2. foundedStrandId \in Generator!Leads \cup {None}
      /\ (creating # None => creating.strand \in Generator!Leads \cup {None})
  BY <1>1, LeadsAre DEF ScreenTyped, ScreenInv, LeadsAreMade
<1>3. creating = None \/ creating \in [strand : Generator!Leads \cup {None}, kind : {"private", "public"}]
  <2>1. CASE creating # None
    <3>1. creating \in [strand : Nat \cup {None}, kind : {"private", "public"}]
      BY <2>1 DEF ScreenTyped, ScreenInv, ScreenTypes
    <3> QED BY <1>2, <2>1, <3>1
  <2> QED BY <2>1
<1>4. /\ openedFor \in {"new", "existing", "listed"} /\ routeKind \in {"private", "public"}
      /\ visibility \in {"private", "public"}
      /\ terms \in [kind : {"private", "public"}, choice : 0 .. MaxChoices]
      /\ touched \in 0 .. MaxChoices
      /\ unreachable \in BOOLEAN /\ lookups \subseteq {"state", "row"}
      /\ invitation \in {"none", "found", "made"}
      /\ {reset, early, switched} \subseteq BOOLEAN
      /\ made \subseteq [lead : Generator!Leads, kind : {"private", "public"}]
  BY DEF ScreenTyped, MadeBounds, ScreenInv, ScreenTypes
<1>5. {addresses, relay, inFront, reachAgain, reachDue, relaySlow, unanswered, seen, stale} \subseteq BOOLEAN
  BY DEF PanelInv
<1>6. /\ reach = None \/ reach \in [reachable : BOOLEAN, relays : BOOLEAN]
      /\ reachRead = None \/ reachRead \in [reachable : BOOLEAN, since : BOOLEAN]
      /\ result \in {"nothing", "making", "invitation", "error", "nowhere"}
  BY DEF PanelInv, Results
<1> QED BY <1>2, <1>3, <1>4, <1>5, <1>6 DEF Generator!InviteScreenTypeOK, Generator!InviteKinds

(* The strands the list is told of are its own. *)
HomeTyped == HomeInv /\ revived \in BOOLEAN /\ openedSince \in SUBSET HomeStrands

LEMMA HomeTypedStep == HomeTyped /\ [Home!ListingNext]_(Home!listingVars) => HomeTyped'
<1> SUFFICES ASSUME HomeTyped, [Home!ListingNext]_(Home!listingVars) PROVE HomeTyped'
  OBVIOUS
<1>1. HomeInv'
  BY ListingStep DEF HomeTyped
<1>2. revived' \in {revived, TRUE} /\ openedSince' \in {openedSince, {}} \cup {openedSince \cup {s} : s \in HomeStrands}
  <2>1. CASE Home!Started \/ Home!StartFails \/ Home!Revived \/ UNCHANGED Home!listingVars
    BY <2>1 DEF Home!Started, Home!StartFails, Home!Revived, Home!listingVars
  <2>2. ASSUME NEW s \in HomeStrands, Home!Opens(s) \/ Home!Closes(s)
        PROVE  revived' = revived /\ openedSince' \in {openedSince, openedSince \cup {s}}
    BY <2>2 DEF Home!Opens, Home!Closes
  <2>3. CASE Home!Focus \/ Home!Blur \/ Home!Poll \/ Home!Lists \/ Home!Asks \/ Home!ReadFails
    BY <2>3 DEF Home!Focus, Home!Blur, Home!Poll, Home!Lists, Home!Asks, Home!ReadFails
  <2>4. CASE Home!ActionFails \/ Home!Reload \/ Home!RetryBoot \/ \E works \in BOOLEAN : Home!Retried(works)
    BY <2>4 DEF Home!ActionFails, Home!Reload, Home!RetryBoot, Home!Retried
  <2> QED BY <2>1, <2>2, <2>3, <2>4 DEF Home!ListingNext
<1>3. revived' \in BOOLEAN /\ openedSince' \in SUBSET HomeStrands
  BY <1>2 DEF HomeTyped
<1> QED BY <1>1, <1>3 DEF HomeTyped

LEMMA MembersTyped ==
    Spec => [](Inviting!InvitationsTypeOK /\ Member!RegistrationTypeOK /\ Compose!ComposerTypeOK
               /\ Acceptance!AcceptingTypeOK /\ Tables!WritingTypeOK)
<1>1. M!InvitationConstants /\ M!RegistrationConstants /\ M!ComposerConstants /\ M!WritingConstants
  BY ScreensConstants DEF ScreensConstants, Inviting!InvitationConstants, M!InvitationConstants,
         Member!RegistrationConstants, M!RegistrationConstants, Compose!ComposerConstants, M!ComposerConstants,
         Tables!WritingConstants, M!WritingConstants
<1>2. M!InvitingSpec => []M!InvitationsTypeOK
  BY <1>1, M!InvitationsTyped
<1>3. M!RegistrationSpec => []M!RegistrationTypeOK
  BY <1>1, M!RegistrationTyped
<1>4. M!ComposerSpec => []M!ComposerTypeOK
  BY <1>1, M!ComposerTyped
<1>5. M!AcceptingSpec => []M!AcceptingTypeOK
  BY M!AcceptingTyped
<1>6. M!WritingSpec => []M!WritingTypeOK
  BY <1>1, M!WritingTyped
<1>7. M!InvitationsTypeOK => Inviting!InvitationsTypeOK
  BY DEF M!InvitationsTypeOK, Inviting!InvitationsTypeOK, M!Slot, Inviting!Slot, M!Conversations, Inviting!Conversations
<1>8. M!RegistrationTypeOK => Member!RegistrationTypeOK
  BY DEF M!RegistrationTypeOK, Member!RegistrationTypeOK, M!Tasks, Member!Tasks, M!Syncs, Member!Syncs
<1>9. M!ComposerTypeOK => Compose!ComposerTypeOK
  BY DEF M!ComposerTypeOK, Compose!ComposerTypeOK, M!Texts, Compose!Texts, M!Message, Compose!Message, M!Flight, Compose!Flight
<1>10. M!AcceptingTypeOK => Acceptance!AcceptingTypeOK
  BY DEF M!AcceptingTypeOK, Acceptance!AcceptingTypeOK
<1>11. M!WritingTypeOK => Tables!WritingTypeOK
  BY DEF M!WritingTypeOK, Tables!WritingTypeOK, M!Writing, Tables!Writing, M!Rows, Tables!Rows, M!Calls, Tables!Calls,
         M!NoRow, Tables!NoRow
<1> QED BY <1>2, <1>3, <1>4, <1>5, <1>6, <1>7, <1>8, <1>9, <1>10, <1>11, InvitationsIsPart, RegistrationIsPart,
           ComposerIsPart, AcceptingIsPart, WritingIsPart, PTL

LEMMA SlotsTyped == Spec => [](WatchingTypeOK /\ SummariesTypeOK)
<1>1. WatchingConstants
  BY ScreensConstants DEF ScreensConstants
<1>2. WatchingInit => WatchingInv
  BY <1>1, WatchingInitInv
<1>3. WatchingInv /\ [WatchingNext]_watchingVars => WatchingInv'
  BY <1>1, WatchingNextInv
<1>4. WatchingInv => WatchingTypeOK
  BY DEF WatchingInv
<1>5. SummariesInv => SummariesTypeOK
  BY DEF SummariesInv
<1>6. WatchingSpec => []WatchingTypeOK
  BY <1>2, <1>3, <1>4, PTL DEF WatchingSpec
<1>7. SummariesSpec => []SummariesTypeOK
  BY <1>5, SummariesInitInv, SummariesNextInv, PTL DEF SummariesSpec
<1> QED BY <1>6, <1>7, WatchingIsPart, SummariesIsPart, PTL

LEMMA DialogsTyped ==
    Spec => [](Manager!ClaimingTypeOK /\ Search!SearchTypeOK /\ Generator!InviteScreenTypeOK)
<1> DEFINE Inv == ClaimTyped /\ SearchTyped /\ ScreenTyped /\ PanelInv /\ result \in Results
<1>1. Manager!ClaimingConstants /\ Search!SearchConstants /\ Generator!InviteScreenConstants
  BY ScreensConstants DEF ScreensConstants
<1>2. Init => Inv
  <2>1. Generator!InviteScreenInit => result \in Results
    BY DEF Generator!InviteScreenInit, Results
  <2> QED BY <1>1, <2>1, ClaimTypedInit, SearchTypedInit, ScreenTypedInit, PanelInitInv DEF Init
<1>3. [Next]_vars => /\ [Manager!ClaimingNext]_(Manager!claimingVars) /\ [Search!SearchNext]_(Search!searchVars)
  BY DEF Next, vars, SlotsNext, DialogsNext, ChatNext, dialogVars, claimingVars, Manager!claimingVars,
         searchVars, Search!searchVars
<1>4. [Next]_vars => [Generator!InviteScreenNext]_(Generator!screenVars) /\ [Generator!PanelNext]_(Generator!panelVars)
  BY DEF Next, vars, SlotsNext, DialogsNext, ChatNext, dialogVars, inviteScreenVars, Generator!screenVars,
         panelVars, Generator!panelVars, Generator!historyVars
<1>5. Inv /\ [Next]_vars => Inv'
  <2>1. [Next]_vars /\ result \in Results => result' \in Results'
    BY <1>4, ResultStep DEF Results
  <2> QED BY <1>1, <1>3, <1>4, <2>1, ClaimTypedStep, SearchTypedStep, ScreenTypedStep, PanelStep
<1>6. Inv => Manager!ClaimingTypeOK /\ Generator!InviteScreenTypeOK
  BY <1>1, ScreenTypesAre DEF ClaimTyped
<1>7. Inv => Search!SearchTypeOK
  <2> SUFFICES ASSUME SearchTyped PROVE Search!SearchTypeOK
    OBVIOUS
  <2>1. sweeps \subseteq Search!Sweep
    <3>1. ASSUME NEW w \in sweeps PROVE w \in Search!Sweep
      <4>1. w \in SweepSet /\ Bounded(w)
        BY DEF SearchTyped, SearchBounds, SearchInv, SearchTypes
      <4>2. w.searched \in Search!Counts /\ w.skipped \in Search!Counts /\ w.q \in Search!Queries
        BY <1>1, <4>1, BoundedCounts DEF Bounded
      <4> QED BY <4>1, <4>2 DEF SweepSet, Search!Sweep
    <3> QED BY <3>1
  <2> QED BY <2>1 DEF SearchTyped, SearchBounds, SearchInv, SearchTypes, Search!SearchTypeOK
<1> QED BY <1>2, <1>5, <1>6, <1>7, PTL DEF Spec

LEMMA ChatTyped == Spec => [](Layout!RowsTypeOK /\ Home!ListingTypeOK /\ Prefs!PreferencesTypeOK)
<1>1. Init => HomeTyped
  <2>1. Home!ListingInit => revived \in BOOLEAN /\ openedSince \in SUBSET HomeStrands
    BY DEF Home!ListingInit
  <2> QED BY <2>1, HomeInitInv DEF Init, HomeTyped
<1>2. [Next]_vars => [Home!ListingNext]_(Home!listingVars)
  BY DEF Next, vars, SlotsNext, DialogsNext, ChatNext, chatVars, listingVars, Home!listingVars
<1>3. HomeTyped /\ [Next]_vars => HomeTyped'
  BY <1>2, HomeTypedStep
<1>4. Spec => []HomeTyped
  BY <1>1, <1>3, PTL DEF Spec
<1>5. HomeTyped => Home!ListingTypeOK
  BY DEF HomeTyped, HomeInv, HomeTypes, Home!ListingTypeOK
<1>6. SettingsInv => Prefs!PreferencesTypeOK
  BY DEF SettingsInv, SettingsTypes, Prefs!PreferencesTypeOK
<1>7. RowsInv => Layout!RowsTypeOK
  BY DEF RowsInv
<1> QED BY <1>4, <1>5, <1>6, <1>7, RowsStay, SettingsInvStays, PTL

(* Every variable of the screens keeps its type: what is shown, noted, asked for and stored are  *)
(* texts, codes, strands and conversations there are, and every count stays within its bound,    *)
(* for any values of the constants.                                                              *)
THEOREM ScreensWellTyped == Spec => []TypeOK
<1>1. Spec => [](subject \in Subjects)
  <2>1. Init => subject \in Subjects
    BY DEF Init
  <2>2. [Next]_vars => UNCHANGED subject
    BY DEF Next, vars
  <2>3. subject \in Subjects /\ [Next]_vars => (subject \in Subjects)'
    BY <2>2 DEF Subjects
  <2> QED BY <2>1, <2>3, PTL DEF Spec
<1> QED BY <1>1, MembersTyped, SlotsTyped, DialogsTyped, ChatTyped, PTL DEF TypeOK
=============================================================================
