----------------------------- MODULE LazyStores -----------------------------
(***************************************************************************)
(* The two stores that open on first use, each to be opened once however   *)
(* many use it at once: the private tables of the phone, and the block     *)
(* storage of the NativeScript app.  They share no state.                  *)
(***************************************************************************)
EXTENDS Naturals

-----------------------------------------------------------------------------
(***************************************************************************)
(* The private tables (nicknames) in the control database of the cadre's   *)
(* own machines.  Every node has to apply the schema before its tables can *)
(* be read or written; the store applies it on first use of each node.     *)
(* The node is the host's: node is the number of the one that runs, or 0;  *)
(* no step here changes it.                                                *)
(***************************************************************************)
CONSTANTS
    Users,      \* operations that may run at once
    MaxUses     \* bound on operations begun

\* What the constants have to be; the modules that compose this one assume it.
StoreConstants == MaxUses \in Nat

VARIABLES
    node,       \* the host's node
    appliedOn,  \* the node the schema was last applied on, 0 when none
    applying,   \* the node of the application in flight, 0 when none
    uses,       \* where each operation is, its node and the application it awaits
    begun,      \* how many operations were begun
    hasSchema   \* history: the nodes whose database has the schema

storeVars == <<appliedOn, applying, uses, begun, hasSchema>>

NotInUse == [pc |-> "idle", node |-> 0, awaits |-> 0]

StoreTypeOK ==
    /\ appliedOn \in Nat /\ applying \in Nat /\ begun \in 0 .. MaxUses
    /\ \A u \in Users :
         /\ uses[u].pc \in {"idle", "starting", "waiting", "using"}
         /\ uses[u].node \in Nat /\ uses[u].awaits \in Nat
    /\ hasSchema \subseteq Nat

StoreInit ==
    /\ appliedOn = 0 /\ applying = 0 /\ begun = 0 /\ hasSchema = {}
    /\ uses = [u \in Users |-> NotInUse]

\* Mutant: the schema is applied once per process, not once per node.
Ready_OncePerProcess(u) ==
    /\ node # 0
    /\ IF appliedOn # 0
       THEN /\ uses' = [uses EXCEPT ![u] = [pc |-> "using", node |-> node, awaits |-> 0]]
            /\ UNCHANGED applying
       ELSE /\ applying' = IF applying = 0 THEN node ELSE applying
            /\ uses' = [uses EXCEPT ![u] = [pc |-> "waiting", node |-> node, awaits |-> applying']]

\* ready() with a node: use it if the schema was applied on it, else apply the
\* schema, or await the application in flight, whichever node that is of.
Ready(u) ==
    /\ node # 0
    /\ IF appliedOn = node
       THEN /\ uses' = [uses EXCEPT ![u] = [pc |-> "using", node |-> node, awaits |-> 0]]
            /\ UNCHANGED applying
       ELSE /\ applying' = IF applying = 0 THEN node ELSE applying
            /\ uses' = [uses EXCEPT ![u] = [pc |-> "waiting", node |-> node, awaits |-> applying']]

\* A nickname operation begins: it waits for the node to have started.
Begin(u) ==
    /\ uses[u].pc = "idle" /\ begun < MaxUses
    /\ begun' = begun + 1
    /\ \/ Ready(u)
       \/ /\ node = 0 /\ uses' = [uses EXCEPT ![u].pc = "starting"]
          /\ UNCHANGED applying
    /\ UNCHANGED <<appliedOn, hasSchema>>

Started(u) ==
    /\ uses[u].pc = "starting" /\ Ready(u)
    /\ UNCHANGED <<appliedOn, begun, hasSchema>>

\* The DDL has run: those who await it go on, each with the node it found.
Applied ==
    /\ applying # 0
    /\ hasSchema' = hasSchema \cup {applying}
    /\ appliedOn' = applying /\ applying' = 0
    /\ uses' = [u \in Users |->
                  IF uses[u].pc = "waiting" THEN [uses[u] EXCEPT !.pc = "using"] ELSE uses[u]]
    /\ UNCHANGED <<begun>>

\* It fails, as it does when its node stops: those who await it fail too.
ApplyFails ==
    /\ applying # 0
    /\ applying' = 0
    /\ uses' = [u \in Users |-> IF uses[u].pc = "waiting" THEN NotInUse ELSE uses[u]]
    /\ UNCHANGED <<appliedOn, begun, hasSchema>>

\* The read or write itself, on the node ready() returned.
Use(u) ==
    /\ uses[u].pc = "using"
    /\ uses' = [uses EXCEPT ![u] = NotInUse]
    /\ UNCHANGED <<appliedOn, applying, begun, hasSchema>>

\* The process dies, and the operations with it.
StoreDies ==
    /\ appliedOn' = 0 /\ applying' = 0 /\ uses' = [u \in Users |-> NotInUse]
    /\ UNCHANGED <<begun, hasSchema>>

StoreNext ==
    \/ Applied \/ ApplyFails
    \/ \E u \in Users : Begin(u) \/ Started(u) \/ Use(u)

\* On its own: over a node that changes at any time, the process dying with its operations.
StoreSpec == StoreInit /\ [][StoreNext \/ StoreDies]_storeVars

\* Whatever was rebuilt meanwhile, an operation uses a node only once that node's database
\* has the schema (private-store.ts:41-54).  Except one that awaited the application on a
\* node that was replaced: it goes on without, and finds no table.
SchemaBeforeUse ==
    \A u \in Users : uses[u].pc = "using" /\ uses[u].awaits \in {0, uses[u].node}
                     => uses[u].node \in hasSchema

-----------------------------------------------------------------------------
(***************************************************************************)
(* The block storage of one strand on NativeScript: a lazy proxy over a    *)
(* database that opens asynchronously.  The opening is cached by the name  *)
(* of the database; an opening that failed is forgotten; close() forgets   *)
(* it and closes it once open.                                             *)
(***************************************************************************)
CONSTANTS
    Operations,     \* calls of the proxy's methods that may run at once
    MaxOpens        \* bound on openings

\* What the constants have to be; the modules that compose this one assume it.
StorageConstants == MaxOpens \in Nat

VARIABLES
    cached,         \* openByDbName, for this name: the opening, or 0
    state,          \* of each opening
    calls,          \* the opening each call awaits or uses, or 0
    closing         \* the openings a close() awaits

storageVars == <<cached, state, calls, closing>>

Openings == 1 .. MaxOpens

StorageTypeOK ==
    /\ cached \in 0 .. MaxOpens
    /\ state \in [Openings -> {"none", "opening", "open", "failed", "closed"}]
    /\ calls \in [Operations -> 0 .. MaxOpens] /\ closing \subseteq Openings

StorageInit ==
    /\ cached = 0 /\ state = [o \in Openings |-> "none"]
    /\ calls = [c \in Operations |-> 0] /\ closing = {}

\* openStorage: the cached opening, or one that begins.
openStorage(o) ==
    \/ cached # 0 /\ o = cached /\ UNCHANGED <<cached, state>>
    \/ /\ cached = 0 /\ state[o] = "none" /\ \A p \in 1 .. o - 1 : state[p] # "none"
       /\ cached' = o /\ state' = [state EXCEPT ![o] = "opening"]

\* A method of the proxy: reading, saving, listing, flushing, measuring.
Operate(c) ==
    /\ calls[c] = 0
    /\ \E o \in Openings : openStorage(o) /\ calls' = [calls EXCEPT ![c] = o]
    /\ UNCHANGED closing

\* It goes on once open, or fails with the opening; a storage closed meanwhile refuses it.
Ends(c) ==
    /\ calls[c] # 0 /\ state[calls[c]] # "opening"
    /\ calls' = [calls EXCEPT ![c] = 0]
    /\ UNCHANGED <<cached, state, closing>>

Opened(o) ==
    /\ state[o] = "opening" /\ state' = [state EXCEPT ![o] = "open"]
    /\ UNCHANGED <<cached, calls, closing>>

\* Mutant: an opening that failed stays cached.
OpenFails_StaysCached(o) ==
    state[o] = "opening" /\ state' = [state EXCEPT ![o] = "failed"] /\ UNCHANGED <<cached, calls, closing>>

\* Forgotten before anyone who awaits it goes on, unless a later one took its place.
OpenFails(o) ==
    /\ state[o] = "opening" /\ state' = [state EXCEPT ![o] = "failed"]
    /\ cached' = IF cached = o THEN 0 ELSE cached
    /\ UNCHANGED <<calls, closing>>

\* Mutant: a storage never opened is closed all the same.
close_Unopened ==
    closing' = closing \cup {cached} /\ cached' = 0 /\ UNCHANGED <<state, calls>>

\* close(): a storage never opened holds nothing.
close ==
    /\ cached # 0
    /\ closing' = closing \cup {cached} /\ cached' = 0
    /\ UNCHANGED <<state, calls>>

Closes(o) ==
    /\ o \in closing /\ state[o] \in {"open", "failed"}
    /\ closing' = closing \ {o}
    /\ state' = [state EXCEPT ![o] = IF @ = "open" THEN "closed" ELSE @]
    /\ UNCHANGED <<cached, calls>>

StorageNext ==
    \/ close
    \/ \E c \in Operations : Operate(c) \/ Ends(c)
    \/ \E o \in Openings : Opened(o) \/ OpenFails(o) \/ Closes(o)

StorageSpec == StorageInit /\ [][StorageNext]_storageVars

\* Every connection is the cached one or is about to be closed, so none is left open behind
\* the others' back, and at most one is in use; and an opening that failed is not kept, so the
\* next call tries again (ns-storage.ts:33-43).  Whatever failed, closed and opened meanwhile.
ConnectionIsHeld ==
    /\ \A o \in Openings : state[o] \in {"opening", "open"} => o = cached \/ o \in closing
    /\ cached # 0 => state[cached] \in {"opening", "open"} /\ cached \notin closing
=============================================================================
