----------------------------- MODULE Watching -----------------------------
(***************************************************************************)
(* How the strand list hears of changes: the store keeps a watch of each   *)
(* strand it lists, and a watch follows its strand as its database opens,  *)
(* is replaced, hibernates, or goes with a rebuilt node.                   *)
(*                                                                         *)
(* The node is external: a database that changes is followed by its event; *)
(* a node that is stopped may take its databases without one.  The reads   *)
(* are the module Loader's: one at a time, begun while somebody watches.   *)
(***************************************************************************)
EXTENDS Naturals

CONSTANTS
    Watchable,
    MaxBases,       \* bound on databases opened
    None

\* What the constants have to be; the modules that compose this one assume it.
WatchingConstants == MaxBases \in Nat /\ None \notin Nat /\ \A strands \in SUBSET Watchable : strands # None

VARIABLES
    known,          \* the strands this device lists
    base,           \* the database of each strand on the node that runs, 0 when none
    bases,          \* how many were opened
    due,            \* the event that follows a change of it
    watch,          \* each strand's watch: the database attached to, 0 detached, None no watch
    blind,          \* strands whose database could not be watched
    subscribed,     \* somebody watches the list
    latest,         \* the list last read, or None
    read,           \* the list a read in flight will return, or None
    unheard         \* history: strands changed since the store was last told to read

watchingVars == <<known, base, bases, due, watch, blind, subscribed, latest, read, unheard>>

WatchingTypeOK ==
    /\ known \subseteq Watchable /\ base \in [Watchable -> 0 .. MaxBases] /\ bases \in 0 .. MaxBases
    /\ due \in [Watchable -> {"none", "up", "down"}]
    /\ watch \in [Watchable -> 0 .. MaxBases \cup {None}]
    /\ blind \subseteq Watchable /\ subscribed \in BOOLEAN
    /\ latest \in (SUBSET Watchable) \cup {None} /\ read \in (SUBSET Watchable) \cup {None}
    /\ unheard \subseteq Watchable

WatchingInit ==
    /\ known = {} /\ base = [s \in Watchable |-> 0] /\ bases = 0
    /\ due = [s \in Watchable |-> "none"]
    /\ watch = [s \in Watchable |-> None] /\ blind = {} /\ subscribed = FALSE
    /\ latest = None /\ read = None /\ unheard = {}

(***************************************************************************)
(* The watch of a strand.                                                  *)
(***************************************************************************)

\* attach: to the database there now, if it can be watched; those of bad cannot.
attach(s, bad) == IF s \in bad THEN 0 ELSE base[s]

\* Watches begin for the strands of new and end for those not in ids.
Watches(ids) ==
    LET new == {s \in ids : watch[s] = None} IN
    \E bad \in SUBSET {s \in new : base[s] # 0} :
       /\ watch' = [s \in Watchable |-> IF s \in new THEN attach(s, bad)
                                      ELSE IF s \in ids THEN watch[s] ELSE None]
       /\ blind' = (blind \cap ids) \cup bad

\* Mutant: a watch that is attached stays on its database.
Up_KeepsOld(s) ==
    /\ due[s] = "up" /\ due' = [due EXCEPT ![s] = "none"]
    /\ IF watch[s] = 0
       THEN watch' = [watch EXCEPT ![s] = base[s]] /\ blind' = blind \ {s} /\ unheard' = unheard \ {s}
       ELSE UNCHANGED <<watch, blind, unheard>>
    /\ UNCHANGED <<known, base, bases, subscribed, latest, read>>

\* An up event: attach, and report a change when that is another database than before.
Up(s) ==
    /\ due[s] = "up" /\ due' = [due EXCEPT ![s] = "none"]
    /\ \/ watch[s] \in {None, base[s]} /\ UNCHANGED <<watch, blind, unheard>>
       \/ /\ watch[s] \notin {None, base[s]}
          /\ watch' = [watch EXCEPT ![s] = base[s]] /\ blind' = blind \ {s}
          /\ unheard' = unheard \ {s}
       \/ /\ watch[s] \notin {None, base[s]}
          /\ watch' = [watch EXCEPT ![s] = 0] /\ blind' = blind \cup {s}
          /\ UNCHANGED unheard
    /\ UNCHANGED <<known, base, bases, subscribed, latest, read>>

Down(s) ==
    /\ due[s] = "down" /\ due' = [due EXCEPT ![s] = "none"]
    /\ watch' = [watch EXCEPT ![s] = IF @ = None THEN None ELSE 0]
    /\ UNCHANGED <<known, base, bases, blind, subscribed, latest, read, unheard>>

\* Something is committed in a strand: a watch of its database tells the store.
Commit(s) ==
    /\ base[s] # 0 /\ watch[s] \notin {None, base[s]}
    /\ unheard' = unheard \cup {s}
    /\ UNCHANGED <<known, base, bases, due, watch, blind, subscribed, latest, read>>

(***************************************************************************)
(* The store.                                                              *)
(***************************************************************************)

\* A strand is listed that was not, or no longer is: a join, a founding or a leave.
Listed(s) ==
    /\ known' = IF s \in known THEN known \ {s} ELSE known \cup {s}
    /\ UNCHANGED <<base, bases, due, watch, blind, subscribed, latest, read, unheard>>

Subscribe ==
    /\ ~subscribed /\ subscribed' = TRUE
    /\ IF latest = None THEN UNCHANGED <<watch, blind>> ELSE Watches(latest)
    /\ unheard' = {}
    /\ UNCHANGED <<known, base, bases, due, latest, read>>

Unsubscribe ==
    /\ subscribed /\ subscribed' = FALSE
    /\ watch' = [s \in Watchable |-> None] /\ blind' = {} /\ unheard' = {}
    /\ UNCHANGED <<known, base, bases, due, latest, read>>

ReadBegins ==
    /\ subscribed /\ read = None /\ read' = known /\ unheard' = {}
    /\ UNCHANGED <<known, base, bases, due, watch, blind, subscribed, latest>>

\* The watches follow the list, if somebody still watches it.
ReadReturns ==
    /\ read # None /\ latest' = read /\ read' = None
    /\ IF subscribed THEN Watches(read) ELSE UNCHANGED <<watch, blind>>
    /\ unheard' = unheard \cap read
    /\ UNCHANGED <<known, base, bases, due, subscribed>>

ReadFails ==
    /\ read # None /\ read' = None
    /\ UNCHANGED <<known, base, bases, due, watch, blind, subscribed, latest, unheard>>

(***************************************************************************)
(* The node.                                                               *)
(***************************************************************************)

\* A strand's database appears, or is replaced.
Published(s) ==
    /\ due[s] = "none" /\ bases < MaxBases
    /\ bases' = bases + 1 /\ base' = [base EXCEPT ![s] = bases']
    /\ due' = [due EXCEPT ![s] = "up"]
    /\ UNCHANGED <<known, watch, blind, subscribed, latest, read, unheard>>

\* It hibernates, or is stopped.
Closes(s) ==
    /\ due[s] = "none" /\ base[s] # 0
    /\ base' = [base EXCEPT ![s] = 0] /\ due' = [due EXCEPT ![s] = "down"]
    /\ UNCHANGED <<known, bases, watch, blind, subscribed, latest, read, unheard>>

\* The host stops its node, to build another one.
NodeStops ==
    /\ \E s \in Watchable : base[s] # 0
    /\ base' = [s \in Watchable |-> 0]
    /\ due' \in {[s \in Watchable |-> "none"], [s \in Watchable |-> IF base[s] # 0 THEN "down" ELSE "none"]}
    /\ UNCHANGED <<known, bases, watch, blind, subscribed, latest, read, unheard>>

WatchingNext ==
    \/ Subscribe \/ Unsubscribe \/ ReadBegins \/ ReadReturns \/ ReadFails \/ NodeStops
    \/ \E s \in Watchable :
         Up(s) \/ Down(s) \/ Commit(s) \/ Listed(s) \/ Published(s) \/ Closes(s)

WatchingSpec == WatchingInit /\ [][WatchingNext]_watchingVars

\* Once an open database was announced, every watch of its strand is on it and no other one,
\* and the store has been told to read whatever was committed before the watch was there
\* (model.ts:935-939), through replaced databases and rebuilt nodes; but for a database that
\* could not be watched.  The strands watched are those last listed, and none when nobody
\* watches the list.
WatchesFollow ==
    /\ \A s \in Watchable :
         watch[s] # None /\ base[s] # 0 /\ due[s] = "none" /\ s \notin blind
             => watch[s] = base[s] /\ s \notin unheard
    /\ {s \in Watchable : watch[s] # None} = IF subscribed /\ latest # None THEN latest ELSE {}
=============================================================================
