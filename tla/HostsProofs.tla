---------------------------- MODULE HostsProofs ----------------------------
(***************************************************************************)
(* Theorems about Hosts: what its parts promise holds in the whole.  Ten   *)
(* parts are proved here: the private store, the lock on a profile, the    *)
(* storage of the NativeScript host, the batching of its WebSocket, the    *)
(* phone's node and its settings, the choices of the user, what a profile  *)
(* of serchat is configured with, the marks of writes, a session of        *)
(* serchat, and the texts of invitations and node codes.                   *)
(***************************************************************************)
EXTENDS Hosts, SequenceTheorems, FiniteSetTheorems, TLAPS

-----------------------------------------------------------------------------
(***************************************************************************)
(* LazyStores, the private tables.                                         *)
(* SchemaBeforeUse, for any number of operations and over a node that may  *)
(* change at any time.  The inductive invariant adds that the node the     *)
(* schema was applied on has it, and that whoever waits awaits the         *)
(* application in flight.                                                  *)
(***************************************************************************)
AppliedHasSchema == appliedOn # 0 => appliedOn \in hasSchema

WaitersAwait == \A u \in Users : uses[u].pc = "waiting" => applying # 0 /\ uses[u].awaits = applying

UsesAreRecords ==
    uses \in [Users -> [pc : {"idle", "starting", "waiting", "using"}, node : Nat, awaits : Nat]]

StoreInv == UsesAreRecords /\ applying \in Nat /\ AppliedHasSchema /\ WaitersAwait /\ SchemaBeforeUse

(* An operation begins to use, or to wait for, a node that is there. *)
LEMMA ReadyKeeps ==
    ASSUME StoreInv, node \in Nat, NEW u \in Users, Ready(u),
           UNCHANGED <<appliedOn, hasSchema>>, uses[u].pc # "waiting"
    PROVE  StoreInv'
<1>1. CASE /\ appliedOn = node /\ UNCHANGED applying
           /\ uses' = [uses EXCEPT ![u] = [pc |-> "using", node |-> node, awaits |-> 0]]
  BY <1>1 DEF Ready, StoreInv, UsesAreRecords, AppliedHasSchema, WaitersAwait, SchemaBeforeUse
<1>2. CASE /\ applying' = (IF applying = 0 THEN node ELSE applying)
           /\ uses' = [uses EXCEPT ![u] = [pc |-> "waiting", node |-> node, awaits |-> applying']]
  <2>1. applying' # 0 /\ applying' \in Nat /\ (applying # 0 => applying' = applying)
    BY <1>2 DEF Ready, StoreInv
  <2>2. QED BY <1>2, <2>1 DEF StoreInv, UsesAreRecords, AppliedHasSchema, WaitersAwait, SchemaBeforeUse
<1>3. QED BY <1>1, <1>2 DEF Ready

LEMMA BeginKeeps ==
    ASSUME StoreInv, node \in Nat, NEW u \in Users, Begin(u) \/ Started(u) PROVE StoreInv'
<1>1. CASE Ready(u)
  BY <1>1, ReadyKeeps DEF Begin, Started
<1>2. CASE uses' = [uses EXCEPT ![u].pc = "starting"] /\ UNCHANGED <<applying, appliedOn, hasSchema>>
  BY <1>2 DEF StoreInv, UsesAreRecords, AppliedHasSchema, WaitersAwait, SchemaBeforeUse
<1>3. QED BY <1>1, <1>2 DEF Begin, Started

(* Those who awaited the application on their own node find the schema there. *)
LEMMA AppliedKeeps ==
    ASSUME StoreInv, Applied PROVE StoreInv'
<1>1. /\ applying # 0 /\ hasSchema' = hasSchema \cup {applying} /\ appliedOn' = applying /\ applying' = 0
      /\ uses' = [u \in Users |->
                    IF uses[u].pc = "waiting" THEN [uses[u] EXCEPT !.pc = "using"] ELSE uses[u]]
  BY DEF Applied
<1>2. ASSUME NEW u \in Users
      PROVE  /\ uses'[u].node = uses[u].node /\ uses'[u].awaits = uses[u].awaits
             /\ uses'[u].pc = IF uses[u].pc = "waiting" THEN "using" ELSE uses[u].pc
             /\ uses[u].pc = "waiting" => uses[u].awaits = applying
  BY <1>1 DEF StoreInv, UsesAreRecords, WaitersAwait
<1>3. UsesAreRecords' /\ applying' \in Nat /\ AppliedHasSchema'
  BY <1>1 DEF StoreInv, UsesAreRecords, AppliedHasSchema
<1>4. WaitersAwait' /\ SchemaBeforeUse'
  BY <1>1, <1>2 DEF StoreInv, WaitersAwait, SchemaBeforeUse
<1>5. QED BY <1>3, <1>4 DEF StoreInv

LEMMA ApplyFailsKeeps ==
    ASSUME StoreInv, ApplyFails PROVE StoreInv'
<1>1. /\ applying' = 0 /\ UNCHANGED <<appliedOn, hasSchema>>
      /\ uses' = [u \in Users |-> IF uses[u].pc = "waiting" THEN NotInUse ELSE uses[u]]
  BY DEF ApplyFails
<1>2. \A u \in Users : uses'[u].pc # "waiting" /\ (uses'[u].pc = "using" => uses'[u] = uses[u])
  BY <1>1 DEF NotInUse
<1>3. UsesAreRecords' /\ applying' \in Nat
  BY <1>1 DEF StoreInv, UsesAreRecords, NotInUse
<1>4. AppliedHasSchema' /\ WaitersAwait' /\ SchemaBeforeUse'
  BY <1>1, <1>2 DEF StoreInv, AppliedHasSchema, WaitersAwait, SchemaBeforeUse
<1>5. QED BY <1>3, <1>4 DEF StoreInv

LEMMA UseKeeps ==
    ASSUME StoreInv, NEW u \in Users, Use(u) PROVE StoreInv'
BY DEF Use, NotInUse, StoreInv, UsesAreRecords, AppliedHasSchema, WaitersAwait, SchemaBeforeUse

LEMMA StoreDiesKeeps ==
    ASSUME StoreInv, StoreDies PROVE StoreInv'
BY DEF StoreDies, NotInUse, StoreInv, UsesAreRecords, AppliedHasSchema, WaitersAwait, SchemaBeforeUse

LEMMA StoreNextInv == StoreInv /\ node \in Nat /\ [StoreNext \/ StoreDies]_storeVars => StoreInv'
<1> SUFFICES ASSUME StoreInv, node \in Nat, [StoreNext \/ StoreDies]_storeVars PROVE StoreInv'
  OBVIOUS
<1>1. CASE Applied \/ ApplyFails \/ StoreDies
  BY <1>1, AppliedKeeps, ApplyFailsKeeps, StoreDiesKeeps
<1>2. ASSUME NEW u \in Users, Begin(u) \/ Started(u) \/ Use(u) PROVE StoreInv'
  BY <1>2, BeginKeeps, UseKeeps
<1>3. CASE UNCHANGED storeVars
  BY <1>3 DEF storeVars, StoreInv, UsesAreRecords, AppliedHasSchema, WaitersAwait, SchemaBeforeUse
<1>4. QED BY <1>1, <1>2, <1>3 DEF StoreNext

(* Whatever nodes replace each other meanwhile, a nickname is read or written on a node that   *)
(* has the schema (private-store.ts:41-54), but after an application awaited on another one.   *)
LEMMA SchemaAppliedAlone == StoreSpec /\ [](node \in Nat) => []SchemaBeforeUse
<1>1. StoreInit => StoreInv
  BY DEF StoreInit, NotInUse, StoreInv, UsesAreRecords, AppliedHasSchema, WaitersAwait, SchemaBeforeUse
<1>2. StoreInv => SchemaBeforeUse
  BY DEF StoreInv
<1>3. QED BY <1>1, <1>2, StoreNextInv, PTL DEF StoreSpec

-----------------------------------------------------------------------------
(***************************************************************************)
(* ProfileLock.                                                            *)
(* OneProcess, for any number of processes.  While no takeover raced, the  *)
(* lock file is the one of the process that creates or holds it; a file    *)
(* that is about to be taken over was of a process that is gone, and stays *)
(* so.                                                                     *)
(***************************************************************************)
FileIsOwn ==
    ~raced => \A p \in Processes :
        proc[p].pc \in {"write", "holds"} =>
            file = [by |-> p, attempt |-> proc[p].attempt, written |-> proc[p].pc = "holds"]

SeenIsGone ==
    \A p \in Processes :
        proc[p].pc = "take" /\ proc[p].seen # None /\ proc[p].seen.written =>
            proc[p].seen.by = p \/ proc[proc[p].seen.by].pc = "gone"

CreatorBegan == file # None => proc[file.by].pc # "idle"

LockInv == LockTypeOK /\ FileIsOwn /\ SeenIsGone /\ CreatorBegan

LEMMA FileIsThere ==
    ASSUME LockConstants, NEW p \in Processes, NEW a \in 1 .. 2, NEW w \in BOOLEAN
    PROVE  /\ [by |-> p, attempt |-> a, written |-> w] \in Files
           /\ [by |-> p, attempt |-> a, written |-> w] # None
<1>1. [by |-> p, attempt |-> a, written |-> w] \in Files
  BY DEF Files
<1>2. QED BY <1>1 DEF LockConstants

LEMMA PlaceTypes ==
    ASSUME LockTypeOK, NEW p \in Processes
    PROVE  proc[p].attempt \in 1 .. 2
BY DEF LockTypeOK

LEMMA LockInitInv == ASSUME LockConstants PROVE LockInit => LockInv
<1> SUFFICES ASSUME LockInit PROVE LockInv
  OBVIOUS
<1>1. LockTypeOK
  <2> DEFINE idle == [pc |-> "idle", attempt |-> 1, seen |-> None]
  <2>1. idle \in [pc : {"idle", "create", "write", "read", "take", "holds", "gone"},
                  attempt : 1 .. 2, seen : Files \cup {None}]
    OBVIOUS
  <2> HIDE DEF idle
  <2>2. proc \in [Processes -> [pc : {"idle", "create", "write", "read", "take", "holds", "gone"},
                                attempt : 1 .. 2, seen : Files \cup {None}]]
    <3>1. proc = [p \in Processes |-> idle]
      BY DEF LockInit, idle
    <3>2. QED BY <2>1, <3>1
  <2>3. QED BY <2>2 DEF LockInit, LockTypeOK
<1>2. FileIsOwn /\ SeenIsGone /\ CreatorBegan
  BY DEF LockInit, FileIsOwn, SeenIsGone, CreatorBegan
<1>3. QED BY <1>1, <1>2 DEF LockInv

LEMMA TypeKeeps ==
    ASSUME LockConstants, LockTypeOK, [LockNext]_lockVars PROVE LockTypeOK'
<1>1. CASE UNCHANGED lockVars
  BY <1>1 DEF lockVars, LockTypeOK
<1>2. ASSUME NEW p \in Processes, Starts(p) \/ Dies(p) \/ Exit(p) PROVE LockTypeOK'
  BY <1>2 DEF Starts, Dies, Exit, Goes, LockTypeOK
<1>3. ASSUME NEW p \in Processes, Create(p) PROVE LockTypeOK'
  <2>1. file' \in Files \cup {None} /\ raced' \in BOOLEAN
    BY <1>3, FileIsThere, PlaceTypes DEF Create, LockTypeOK
  <2>2. PICK pc \in {"write", "read"} : Goes(p, pc)
    BY <1>3 DEF Create
  <2>3. QED BY <2>1, <2>2 DEF Goes, LockTypeOK
<1>4. ASSUME NEW p \in Processes, Write(p) PROVE LockTypeOK'
  <2>1. file' \in Files \cup {None}
    BY <1>4 DEF Write, LockTypeOK, Files
  <2>2. QED BY <1>4, <2>1 DEF Write, Goes, LockTypeOK
<1>5. ASSUME NEW p \in Processes, Read(p) PROVE LockTypeOK'
  BY <1>5 DEF Read, Goes, LockTypeOK
<1>6. ASSUME NEW p \in Processes, Take(p) PROVE LockTypeOK'
  BY <1>6 DEF Take, LockTypeOK
<1>7. QED BY <1>1, <1>2, <1>3, <1>4, <1>5, <1>6 DEF LockNext

(* A process moves on: its place changes and the others stay. *)
LEMMA GoesOnly ==
    ASSUME LockTypeOK, NEW p \in Processes, NEW pc, Goes(p, pc)
    PROVE  /\ proc'[p].pc = pc /\ proc'[p].attempt = proc[p].attempt /\ proc'[p].seen = proc[p].seen
           /\ \A q \in Processes \ {p} : proc'[q] = proc[q]
BY DEF Goes, LockTypeOK

LEMMA CreateKeeps ==
    ASSUME LockConstants, LockInv, NEW p \in Processes, Create(p)
    PROVE  FileIsOwn' /\ SeenIsGone' /\ CreatorBegan'
<1>1. CASE file = None /\ file' = [by |-> p, attempt |-> proc[p].attempt, written |-> FALSE]
           /\ Goes(p, "write") /\ UNCHANGED raced
  <2>1. file' \in Files /\ file' # None
    BY <1>1, FileIsThere, PlaceTypes DEF LockInv
  <2>2. ~raced => \A q \in Processes : proc[q].pc \notin {"write", "holds"}
    <3> SUFFICES ASSUME ~raced, NEW q \in Processes, proc[q].pc \in {"write", "holds"} PROVE FALSE
      OBVIOUS
    <3>1. file = [by |-> q, attempt |-> proc[q].attempt, written |-> proc[q].pc = "holds"]
      BY DEF LockInv, FileIsOwn
    <3>2. QED BY <1>1, <3>1, FileIsThere, PlaceTypes DEF LockInv
  <2>3. FileIsOwn'
    BY <1>1, <2>2, GoesOnly DEF LockInv, FileIsOwn
  <2>4. SeenIsGone'
    BY <1>1, GoesOnly DEF Create, LockInv, SeenIsGone, LockTypeOK, Files
  <2>5. CreatorBegan'
    BY <1>1, GoesOnly DEF LockInv, CreatorBegan
  <2>6. QED BY <2>3, <2>4, <2>5
<1>2. CASE file # None /\ Goes(p, "read") /\ UNCHANGED <<file, raced>>
  BY <1>2, GoesOnly DEF Create, LockInv, FileIsOwn, SeenIsGone, CreatorBegan, LockTypeOK, Files
<1>3. QED BY <1>1, <1>2 DEF Create

LEMMA WriteKeeps ==
    ASSUME LockConstants, LockInv, NEW p \in Processes, Write(p)
    PROVE  FileIsOwn' /\ SeenIsGone' /\ CreatorBegan'
<1>1. proc[p].pc = "write" /\ Goes(p, "holds") /\ UNCHANGED raced
  BY DEF Write
<1>2. ASSUME ~raced PROVE file' = [by |-> p, attempt |-> proc[p].attempt, written |-> TRUE]
  <2>1. file = [by |-> p, attempt |-> proc[p].attempt, written |-> FALSE]
    BY <1>1, <1>2 DEF LockInv, FileIsOwn
  <2>2. file # None
    BY <2>1, FileIsThere, PlaceTypes DEF LockInv
  <2>3. QED BY <2>1, <2>2 DEF Write
<1>3. ASSUME ~raced, NEW q \in Processes \ {p} PROVE proc[q].pc \notin {"write", "holds"}
  BY <1>1, <1>3 DEF LockInv, FileIsOwn
<1>4. FileIsOwn'
  BY <1>1, <1>2, <1>3, GoesOnly DEF LockInv, FileIsOwn
<1>5. SeenIsGone'
  BY <1>1, GoesOnly DEF LockInv, SeenIsGone, LockTypeOK, Files
<1>6. CreatorBegan'
  <2>1. file # None => file \in Files
    BY DEF LockInv, LockTypeOK
  <2>2. file' # None => file # None /\ file'.by = file.by
    BY <2>1 DEF Write, Files
  <2>3. QED BY <1>1, <2>1, <2>2, GoesOnly DEF LockInv, CreatorBegan, Files
<1>7. QED BY <1>4, <1>5, <1>6

(* What is read of a file whose creator does not run is that of one that is gone. *)
LEMMA ReadKeeps ==
    ASSUME LockConstants, LockInv, NEW p \in Processes, Read(p)
    PROVE  FileIsOwn' /\ SeenIsGone' /\ CreatorBegan'
<1>0. UNCHANGED <<file, raced>> /\ proc[p].pc = "read" /\ (file # None => file \in Files)
  BY DEF Read, LockInv, LockTypeOK
<1>1. CASE Goes(p, "gone")
  BY <1>0, <1>1, GoesOnly DEF LockInv, FileIsOwn, SeenIsGone, CreatorBegan, LockTypeOK, Files
<1>2. CASE /\ ~(file # None /\ file.written /\ file.by # p /\ isRunning(file.by))
           /\ proc' = [proc EXCEPT ![p].pc = "take", ![p].seen = file]
  <2>1. /\ proc'[p].pc = "take" /\ proc'[p].seen = file
        /\ \A q \in Processes \ {p} : proc'[q] = proc[q]
    BY <1>2 DEF LockInv, LockTypeOK
  <2>2. file # None /\ file.written /\ file.by # p => proc[file.by].pc = "gone"
    BY <1>0, <1>2 DEF isRunning, LockInv, CreatorBegan
  <2>3. SeenIsGone'
    BY <1>0, <2>1, <2>2 DEF LockInv, SeenIsGone, LockTypeOK, Files
  <2>4. FileIsOwn'
    BY <1>0, <2>1 DEF LockInv, FileIsOwn
  <2>5. CreatorBegan'
    BY <1>0, <2>1 DEF LockInv, CreatorBegan, Files
  <2>6. QED BY <2>3, <2>4, <2>5
<1>3. QED BY <1>1, <1>2 DEF Read

(* A takeover that removes the file of a running process raced. *)
LEMMA TakeKeeps ==
    ASSUME LockConstants, LockInv, NEW p \in Processes, Take(p)
    PROVE  FileIsOwn' /\ SeenIsGone' /\ CreatorBegan'
<1>1. /\ proc[p].pc = "take" /\ file' = None
      /\ proc'[p].pc \in {"create", "gone"} /\ \A q \in Processes \ {p} : proc'[q] = proc[q]
  BY DEF Take, LockInv, LockTypeOK
<1>2. ASSUME ~raced', NEW q \in Processes, proc[q].pc \in {"write", "holds"} PROVE FALSE
  <2>1. ~raced
    BY <1>2 DEF Take
  <2>2. file = [by |-> q, attempt |-> proc[q].attempt, written |-> proc[q].pc = "holds"]
    BY <1>2, <2>1 DEF LockInv, FileIsOwn
  <2>3. file # None /\ file.by = q /\ isRunning(q) /\ q # p
    <3>1. file # None
      BY <2>2, FileIsThere, PlaceTypes DEF LockInv
    <3>2. file.by = q /\ isRunning(q) /\ q # p
      BY <1>1, <1>2, <2>2 DEF isRunning
    <3>3. QED BY <3>1, <3>2
  <2>4. file = proc[p].seen /\ proc[p].seen.written
    BY <1>2, <2>3 DEF Take
  <2>5. proc[q].pc = "gone"
    BY <1>1, <2>3, <2>4 DEF LockInv, SeenIsGone
  <2>6. QED BY <1>2, <2>5
<1>3. FileIsOwn'
  BY <1>1, <1>2 DEF FileIsOwn
<1>4. SeenIsGone'
  BY <1>1 DEF LockInv, SeenIsGone, LockTypeOK, Files
<1>5. CreatorBegan'
  BY <1>1 DEF CreatorBegan
<1>6. QED BY <1>3, <1>4, <1>5

LEMMA ExitKeeps ==
    ASSUME LockConstants, LockInv, NEW p \in Processes, Exit(p)
    PROVE  FileIsOwn' /\ SeenIsGone' /\ CreatorBegan'
<1>1. proc[p].pc = "holds" /\ Goes(p, "gone") /\ file' = None /\ UNCHANGED raced
  BY DEF Exit
<1>2. ASSUME ~raced, NEW q \in Processes \ {p} PROVE proc[q].pc \notin {"write", "holds"}
  BY <1>1, <1>2 DEF LockInv, FileIsOwn
<1>3. FileIsOwn' /\ CreatorBegan'
  BY <1>1, <1>2, GoesOnly DEF FileIsOwn, CreatorBegan, LockInv
<1>4. SeenIsGone'
  BY <1>1, GoesOnly DEF LockInv, SeenIsGone, LockTypeOK, Files
<1>5. QED BY <1>3, <1>4

LEMMA StartsAndDiesKeep ==
    ASSUME LockConstants, LockInv, NEW p \in Processes, Starts(p) \/ Dies(p)
    PROVE  FileIsOwn' /\ SeenIsGone' /\ CreatorBegan'
<1>1. CASE Starts(p)
  BY <1>1, GoesOnly DEF Starts, LockInv, FileIsOwn, SeenIsGone, CreatorBegan, LockTypeOK, Files
<1>2. CASE Dies(p)
  BY <1>2, GoesOnly DEF Dies, LockInv, FileIsOwn, SeenIsGone, CreatorBegan, LockTypeOK, Files
<1>3. QED BY <1>1, <1>2

LEMMA LockNextInv ==
    ASSUME LockConstants PROVE LockInv /\ [LockNext]_lockVars => LockInv'
<1> SUFFICES ASSUME LockInv, [LockNext]_lockVars PROVE LockInv'
  OBVIOUS
<1>1. LockTypeOK'
  BY TypeKeeps DEF LockInv
<1>2. CASE UNCHANGED lockVars
  BY <1>1, <1>2 DEF lockVars, LockInv, FileIsOwn, SeenIsGone, CreatorBegan
<1>3. ASSUME NEW p \in Processes,
             Starts(p) \/ Create(p) \/ Write(p) \/ Read(p) \/ Take(p) \/ Exit(p) \/ Dies(p)
      PROVE  FileIsOwn' /\ SeenIsGone' /\ CreatorBegan'
  BY <1>3, CreateKeeps, WriteKeeps, ReadKeeps, TakeKeeps, ExitKeeps, StartsAndDiesKeep
<1>4. QED BY <1>1, <1>2, <1>3 DEF LockNext, LockInv

LEMMA OneHolds == LockInv => OneProcess
<1> SUFFICES ASSUME LockInv, ~raced
             PROVE  Cardinality({p \in Processes : proc[p].pc = "holds"}) <= 1
  BY DEF OneProcess
<1> DEFINE Holders == {p \in Processes : proc[p].pc = "holds"}
<1>1. \A p, q \in Holders : p = q
  BY DEF LockInv, FileIsOwn
<1>2. CASE Holders = {}
  BY <1>2, FS_EmptySet
<1>3. CASE Holders # {}
  <2>1. PICK p \in Holders : TRUE
    BY <1>3
  <2>2. Holders = {p}
    BY <1>1, <2>1
  <2>3. Cardinality({p}) = 1
    BY FS_Singleton
  <2> HIDE DEF Holders
  <2>4. Cardinality(Holders) <= 1
    BY <2>2, <2>3
  <2>5. QED BY <2>4 DEF Holders
<1>4. QED BY <1>2, <1>3

(* At most one process has a profile (home.ts:122), for any number of them, unless a takeover *)
(* removed the file of a process that runs.                                                    *)
LEMMA OneProcessAlone == ASSUME LockConstants PROVE LockSpec => []OneProcess
BY LockInitInv, LockNextInv, OneHolds, PTL DEF LockSpec

-----------------------------------------------------------------------------
(***************************************************************************)
(* LazyStores, the block storage.                                          *)
(* ConnectionIsHeld, for any number of operations and openings.  The       *)
(* inductive invariant adds that what is to be closed was opened.          *)
(***************************************************************************)
ClosingBegan == \A o \in closing : state[o] # "none"

StorageInv == StorageTypeOK /\ ConnectionIsHeld /\ ClosingBegan

(* The opening a call gets is the cached one, or a new one that is cached. *)
LEMMA OpenKeeps ==
    ASSUME MaxOpens \in Nat, StorageInv, NEW o \in Openings, openStorage(o), UNCHANGED closing
    PROVE  /\ cached' \in 0 .. MaxOpens /\ ConnectionIsHeld' /\ ClosingBegan'
           /\ state' \in [Openings -> {"none", "opening", "open", "failed", "closed"}]
<1>1. CASE UNCHANGED <<cached, state>>
  BY <1>1 DEF StorageInv, StorageTypeOK, ConnectionIsHeld, ClosingBegan
<1>2. CASE cached = 0 /\ state[o] = "none" /\ cached' = o /\ state' = [state EXCEPT ![o] = "opening"]
  BY <1>2 DEF StorageInv, StorageTypeOK, ConnectionIsHeld, ClosingBegan, Openings
<1>3. QED BY <1>1, <1>2 DEF openStorage

LEMMA StorageNextInv ==
    ASSUME MaxOpens \in Nat PROVE StorageInv /\ [StorageNext]_storageVars => StorageInv'
<1> SUFFICES ASSUME StorageInv, [StorageNext]_storageVars PROVE StorageInv'
  OBVIOUS
<1>1. CASE close
  BY <1>1 DEF close, StorageInv, StorageTypeOK, ConnectionIsHeld, ClosingBegan, Openings
<1>2. ASSUME NEW c \in Operations, Operate(c) PROVE StorageInv'
  <2>1. PICK o \in Openings : openStorage(o) /\ calls' = [calls EXCEPT ![c] = o]
    BY <1>2 DEF Operate
  <2>2. calls' \in [Operations -> 0 .. MaxOpens]
    BY <2>1 DEF StorageInv, StorageTypeOK, Openings
  <2>3. QED BY <1>2, <2>1, <2>2, OpenKeeps DEF Operate, StorageInv, StorageTypeOK
<1>3. ASSUME NEW c \in Operations, Ends(c) PROVE StorageInv'
  BY <1>3 DEF Ends, StorageInv, StorageTypeOK, ConnectionIsHeld, ClosingBegan
<1>4. ASSUME NEW o \in Openings, Opened(o) PROVE StorageInv'
  BY <1>4 DEF Opened, StorageInv, StorageTypeOK, ConnectionIsHeld, ClosingBegan, Openings
<1>5. ASSUME NEW o \in Openings, OpenFails(o) PROVE StorageInv'
  BY <1>5 DEF OpenFails, StorageInv, StorageTypeOK, ConnectionIsHeld, ClosingBegan, Openings
<1>6. ASSUME NEW o \in Openings, Closes(o) PROVE StorageInv'
  BY <1>6 DEF Closes, StorageInv, StorageTypeOK, ConnectionIsHeld, ClosingBegan, Openings
<1>7. CASE UNCHANGED storageVars
  BY <1>7 DEF storageVars, StorageInv, StorageTypeOK, ConnectionIsHeld, ClosingBegan
<1>8. QED BY <1>1, <1>2, <1>3, <1>4, <1>5, <1>6, <1>7 DEF StorageNext

LEMMA StorageInitInv == ASSUME MaxOpens \in Nat PROVE StorageInit => StorageInv
BY DEF StorageInit, StorageInv, StorageTypeOK, ConnectionIsHeld, ClosingBegan, Openings

(* No connection is left open behind the cache, and a failed opening is not kept               *)
(* (ns-storage.ts:33-43), however many calls, failures and closings there are.                 *)
LEMMA ConnectionHeldAlone == ASSUME StorageConstants PROVE StorageSpec => []ConnectionIsHeld
<1>1. StorageInv => ConnectionIsHeld
  BY DEF StorageInv
<1>2. MaxOpens \in Nat
  BY DEF StorageConstants
<1>3. QED BY <1>1, <1>2, StorageInitInv, StorageNextInv, PTL DEF StorageSpec

-----------------------------------------------------------------------------
(***************************************************************************)
(* Batching.                                                               *)
(* StreamIsKept, for any sockets and chunks and any number of sends.  The  *)
(* inductive invariant adds that nothing waits on a closed socket, whose   *)
(* native send would drop it.                                              *)
(***************************************************************************)
ClosedIsFlushed == \A ws \in closed : waiting[ws] = <<>>

BatchInv == BatchTypeOK /\ Ordered /\ Scheduled /\ ClosedIsFlushed

-----------------------------------------------------------------------------
(* The effects the actions share. *)

LEMMA Associative ==
    ASSUME NEW s \in Seq(Chunks), NEW t \in Seq(Chunks), NEW u \in Seq(Chunks)
    PROVE  s \o (t \o u) = (s \o t) \o u
BY ConcatAssociative

(* A flush puts out what waited and what follows it. *)
LEMMA FlushOrder ==
    ASSUME BatchInv, NEW ws \in Sockets, NEW next \in Seq(Chunks),
           flush(ws, next), ws \in closed => next = <<>>
    PROVE  /\ out' \in [Sockets -> Seq(Chunks)] /\ waiting' \in [Sockets -> Seq(Chunks)]
           /\ waiting' = [waiting EXCEPT ![ws] = <<>>]
           /\ out'[ws] \o waiting'[ws] = written[ws] \o next
           /\ \A u \in Sockets \ {ws} : out'[u] = out[u] /\ waiting'[u] = waiting[u]
<1>1. /\ waiting[ws] \in Seq(Chunks) /\ out[ws] \in Seq(Chunks)
      /\ written[ws] = out[ws] \o waiting[ws]
  BY DEF BatchInv, BatchTypeOK, Ordered
<1>2. waiting[ws] \o next \in Seq(Chunks)
  BY <1>1, ConcatProperties
<1>3. waiting' = [waiting EXCEPT ![ws] = <<>>] /\ waiting' \in [Sockets -> Seq(Chunks)]
  <2>1. <<>> \in Seq(Chunks)
    BY EmptySeq
  <2>2. QED BY <2>1 DEF flush, BatchInv, BatchTypeOK
<1>4. CASE ws \in closed
  <2>1. waiting[ws] = <<>> /\ next = <<>> /\ out' = out
    BY <1>4 DEF flush, nativeSend, BatchInv, ClosedIsFlushed
  <2>2. out'[ws] \o waiting'[ws] = out[ws] /\ written[ws] \o next = out[ws]
    BY <1>1, <1>3, <2>1, ConcatEmptySeq DEF BatchInv, BatchTypeOK
  <2>3. QED BY <1>3, <2>1, <2>2 DEF BatchInv, BatchTypeOK
<1>5. CASE ws \notin closed
  <2>1. out' = [out EXCEPT ![ws] = @ \o (waiting[ws] \o next)]
    BY <1>5 DEF flush, nativeSend
  <2>2. out[ws] \o (waiting[ws] \o next) \in Seq(Chunks)
    BY <1>1, <1>2, ConcatProperties
  <2>3. out'[ws] = written[ws] \o next /\ out' \in [Sockets -> Seq(Chunks)]
    <3>1. out[ws] \o (waiting[ws] \o next) = (out[ws] \o waiting[ws]) \o next
      BY <1>1, Associative, Zenon
    <3>2. QED BY <1>1, <2>1, <2>2, <3>1 DEF BatchInv, BatchTypeOK
  <2>4. out'[ws] \o waiting'[ws] = out'[ws]
    BY <1>3, <2>3, ConcatEmptySeq DEF BatchInv, BatchTypeOK
  <2>5. QED BY <1>3, <2>1, <2>3, <2>4 DEF BatchInv, BatchTypeOK
<1>6. QED BY <1>4, <1>5

(* A caller's send is recorded last. *)
LEMMA WritesOrder ==
    ASSUME BatchInv, NEW ws \in Sockets, NEW c \in Chunks, Writes(ws, c)
    PROVE  /\ ws \notin closed /\ written' \in [Sockets -> Seq(Chunks)]
           /\ written'[ws] = written[ws] \o <<c>>
           /\ \A u \in Sockets \ {ws} : written'[u] = written[u]
<1>1. written[ws] \in Seq(Chunks)
  BY DEF BatchInv, BatchTypeOK
<1>2. Append(written[ws], c) = written[ws] \o <<c>> /\ Append(written[ws], c) \in Seq(Chunks)
  BY <1>1, AppendIsConcat, AppendProperties
<1>3. QED BY <1>2 DEF Writes, BatchInv, BatchTypeOK

(* A new flush to come adds to those there. *)
LEMMA AppendSchedules ==
    ASSUME tasks \in Seq(Sockets), NEW ws \in Sockets, tasks' = Append(tasks, ws)
    PROVE  /\ tasks' \in Seq(Sockets)
           /\ \E i \in 1 .. Len(tasks') : tasks'[i] = ws
           /\ \A u \in Sockets : (\E i \in 1 .. Len(tasks) : tasks[i] = u)
                                    => \E i \in 1 .. Len(tasks') : tasks'[i] = u
<1>1. /\ tasks' \in Seq(Sockets) /\ Len(tasks') = Len(tasks) + 1
      /\ \A i \in 1 .. Len(tasks) : tasks'[i] = tasks[i]
      /\ tasks'[Len(tasks) + 1] = ws
  BY AppendProperties
<1>2. Len(tasks) \in Nat
  BY LenProperties
<1>3. QED BY <1>1, <1>2

(* The flush that ran is the only one that is no longer to come. *)
LEMMA TailSchedules ==
    ASSUME tasks \in Seq(Sockets), tasks # <<>>, tasks' = Tail(tasks)
    PROVE  /\ tasks' \in Seq(Sockets) /\ Head(tasks) \in Sockets
           /\ \A u \in Sockets \ {Head(tasks)} : (\E i \in 1 .. Len(tasks) : tasks[i] = u)
                                    => \E i \in 1 .. Len(tasks') : tasks'[i] = u
<1>1. /\ Head(tasks) \in Sockets /\ tasks' \in Seq(Sockets) /\ Len(tasks') = Len(tasks) - 1
      /\ \A i \in 1 .. Len(tasks') : tasks'[i] = tasks[i + 1]
      /\ Head(tasks) = tasks[1] /\ Len(tasks) \in Nat \ {0}
  BY HeadTailProperties, LenProperties
<1>2. ASSUME NEW u \in Sockets \ {Head(tasks)}, NEW i \in 1 .. Len(tasks), tasks[i] = u
      PROVE  \E j \in 1 .. Len(tasks') : tasks'[j] = u
  <2>1. i # 1 /\ i - 1 \in 1 .. Len(tasks')
    BY <1>1, <1>2
  <2>2. tasks'[i - 1] = u
    BY <1>1, <1>2, <2>1
  <2>3. QED BY <2>1, <2>2
<1>3. QED BY <1>1, <1>2

-----------------------------------------------------------------------------
(* Each action keeps the invariant. *)

LEMMA SendBinaryKeeps ==
    ASSUME BatchInv, NEW ws \in Sockets, NEW c \in Chunks, SendBinary(ws, c)
    PROVE  BatchInv'
<1>1. /\ waiting[ws] \in Seq(Chunks) /\ out[ws] \in Seq(Chunks)
      /\ Append(waiting[ws], c) \in Seq(Chunks) /\ Append(waiting[ws], c) # <<>>
      /\ Append(waiting[ws], c) = waiting[ws] \o <<c>> /\ <<c>> \in Seq(Chunks)
  BY AppendProperties, AppendIsConcat DEF BatchInv, BatchTypeOK
<1>2. /\ waiting' \in [Sockets -> Seq(Chunks)] /\ waiting'[ws] = waiting[ws] \o <<c>>
      /\ \A u \in Sockets \ {ws} : waiting'[u] = waiting[u]
      /\ out' = out /\ closed' = closed /\ Writes(ws, c)
  BY <1>1 DEF SendBinary, BatchInv, BatchTypeOK
<1>3. /\ tasks' \in Seq(Sockets)
      /\ \A u \in Sockets : (u = ws \/ waiting[u] # <<>>)
                              => \E i \in 1 .. Len(tasks') : tasks'[i] = u
  <2>1. CASE waiting[ws] = <<>>
    BY <2>1, AppendSchedules DEF SendBinary, BatchInv, BatchTypeOK, Scheduled
  <2>2. CASE waiting[ws] # <<>>
    BY <2>2 DEF SendBinary, BatchInv, BatchTypeOK, Scheduled
  <2>3. QED BY <2>1, <2>2
<1>4. BatchTypeOK'
  BY <1>2, <1>3, WritesOrder DEF BatchInv, BatchTypeOK
<1>5. Ordered'
  <2>1. out[ws] \o (waiting[ws] \o <<c>>) = (out[ws] \o waiting[ws]) \o <<c>>
    BY <1>1, Associative, Zenon
  <2>2. out[ws] \o waiting[ws] = written[ws]
    BY DEF BatchInv, Ordered
  <2>3. out'[ws] \o waiting'[ws] = written'[ws]
    BY <1>2, <2>1, <2>2, WritesOrder
  <2>4. \A u \in Sockets \ {ws} : out'[u] \o waiting'[u] = written'[u]
    BY <1>2, WritesOrder DEF BatchInv, Ordered
  <2>5. QED BY <2>3, <2>4 DEF Ordered
<1>6. Scheduled'
  BY <1>2, <1>3 DEF Scheduled
<1>7. ClosedIsFlushed'
  BY <1>2, WritesOrder DEF BatchInv, BatchTypeOK, ClosedIsFlushed
<1>8. QED BY <1>4, <1>5, <1>6, <1>7 DEF BatchInv

LEMMA SendTextKeeps ==
    ASSUME BatchInv, NEW ws \in Sockets, NEW c \in Chunks, SendText(ws, c)
    PROVE  BatchInv'
<1>1. ws \notin closed /\ <<c>> \in Seq(Chunks) /\ tasks' = tasks /\ closed' = closed
  BY WritesOrder DEF SendText
<1>2. /\ out' \in [Sockets -> Seq(Chunks)] /\ waiting' \in [Sockets -> Seq(Chunks)]
      /\ waiting' = [waiting EXCEPT ![ws] = <<>>]
      /\ out'[ws] \o waiting'[ws] = written[ws] \o <<c>>
      /\ \A u \in Sockets \ {ws} : out'[u] = out[u] /\ waiting'[u] = waiting[u]
  BY <1>1, FlushOrder DEF SendText
<1>3. /\ written' \in [Sockets -> Seq(Chunks)] /\ written'[ws] = written[ws] \o <<c>>
      /\ \A u \in Sockets \ {ws} : written'[u] = written[u]
  BY WritesOrder DEF SendText
<1>4. BatchTypeOK'
  BY <1>1, <1>2, <1>3 DEF BatchInv, BatchTypeOK
<1>5. Ordered'
  BY <1>2, <1>3 DEF BatchInv, Ordered
<1>6. Scheduled' /\ ClosedIsFlushed'
  BY <1>1, <1>2 DEF BatchInv, BatchTypeOK, Scheduled, ClosedIsFlushed
<1>7. QED BY <1>4, <1>5, <1>6 DEF BatchInv

LEMMA CloseKeeps ==
    ASSUME BatchInv, NEW ws \in Sockets, Close(ws)
    PROVE  BatchInv'
<1>1. <<>> \in Seq(Chunks) /\ tasks' = tasks /\ written' = written /\ closed' = closed \cup {ws}
  BY EmptySeq DEF Close
<1>2. written[ws] \o <<>> = written[ws]
  BY ConcatEmptySeq DEF BatchInv, BatchTypeOK
<1>3. /\ out' \in [Sockets -> Seq(Chunks)] /\ waiting' \in [Sockets -> Seq(Chunks)]
      /\ waiting' = [waiting EXCEPT ![ws] = <<>>]
      /\ out'[ws] \o waiting'[ws] = written[ws]
      /\ \A u \in Sockets \ {ws} : out'[u] = out[u] /\ waiting'[u] = waiting[u]
  BY <1>1, <1>2, FlushOrder DEF Close
<1>4. BatchTypeOK' /\ Ordered' /\ Scheduled' /\ ClosedIsFlushed'
  BY <1>1, <1>3 DEF BatchInv, BatchTypeOK, Ordered, Scheduled, ClosedIsFlushed
<1>5. QED BY <1>4 DEF BatchInv

LEMMA MicrotaskKeeps ==
    ASSUME BatchInv, Microtask
    PROVE  BatchInv'
<1> DEFINE ws == Head(tasks)
<1>1. /\ ws \in Sockets /\ tasks' \in Seq(Sockets) /\ written' = written /\ closed' = closed
      /\ \A u \in Sockets \ {ws} : (\E i \in 1 .. Len(tasks) : tasks[i] = u)
                                    => \E i \in 1 .. Len(tasks') : tasks'[i] = u
  BY TailSchedules DEF Microtask, BatchInv, BatchTypeOK
<1>2. <<>> \in Seq(Chunks) /\ written[ws] \o <<>> = written[ws]
  BY <1>1, EmptySeq, ConcatEmptySeq DEF BatchInv, BatchTypeOK
<1>3. /\ out' \in [Sockets -> Seq(Chunks)] /\ waiting' \in [Sockets -> Seq(Chunks)]
      /\ waiting' = [waiting EXCEPT ![ws] = <<>>]
      /\ out'[ws] \o waiting'[ws] = written[ws]
      /\ \A u \in Sockets \ {ws} : out'[u] = out[u] /\ waiting'[u] = waiting[u]
  BY <1>1, <1>2, FlushOrder DEF Microtask
<1>4. BatchTypeOK' /\ Ordered' /\ ClosedIsFlushed'
  BY <1>1, <1>3 DEF BatchInv, BatchTypeOK, Ordered, ClosedIsFlushed
<1>5. Scheduled'
  BY <1>1, <1>3 DEF BatchInv, BatchTypeOK, Scheduled
<1>6. QED BY <1>4, <1>5 DEF BatchInv

-----------------------------------------------------------------------------

LEMMA BatchInitInv == BatchInit => BatchInv
<1> SUFFICES ASSUME BatchInit PROVE BatchInv
  OBVIOUS
<1>1. <<>> \in Seq(Chunks) /\ <<>> \in Seq(Sockets) /\ <<>> \o <<>> = <<>>
  BY EmptySeq, ConcatEmptySeq
<1>2. QED BY <1>1 DEF BatchInit, BatchInv, BatchTypeOK, Ordered, Scheduled, ClosedIsFlushed

LEMMA BatchNextInv == BatchInv /\ [BatchNext]_batchVars => BatchInv'
<1> SUFFICES ASSUME BatchInv, [BatchNext]_batchVars PROVE BatchInv'
  OBVIOUS
<1>1. CASE Microtask
  BY <1>1, MicrotaskKeeps
<1>2. ASSUME NEW ws \in Sockets, NEW c \in Chunks, SendBinary(ws, c) \/ SendText(ws, c)
      PROVE  BatchInv'
  BY <1>2, SendBinaryKeeps, SendTextKeeps
<1>3. ASSUME NEW ws \in Sockets, Close(ws) PROVE BatchInv'
  BY <1>3, CloseKeeps
<1>4. CASE UNCHANGED batchVars
  BY <1>4 DEF batchVars, BatchInv, BatchTypeOK, Ordered, Scheduled, ClosedIsFlushed
<1>5. QED BY <1>1, <1>2, <1>3, <1>4 DEF BatchNext

(* A socket carries what its callers sent, in order, and nothing waits without a flush to  *)
(* come (websocket-batching.ts:9-11), for every number of sockets and sends.               *)
LEMMA StreamKeptAlone == BatchSpec => []StreamIsKept
<1>1. BatchInv => StreamIsKept
  BY DEF BatchInv, StreamIsKept
<1>2. QED BY <1>1, BatchInitInv, BatchNextInv, PTL DEF BatchSpec

-----------------------------------------------------------------------------
(***************************************************************************)
(* PhoneHost.                                                              *)
(* SettingsAreInUse, for any settings, callers and number of changes and   *)
(* of nodes.  The inductive invariant says, unless a setting changed       *)
(* during a rebuild, what the settings asked for are in each phase of the  *)
(* host: while it is stopped those pending or else known, while a node is  *)
(* built those it is built with unless pending ones are newer, while one   *)
(* runs its own; and that what stays pending then is what a step under way *)
(* clears.  Each pending setting has a number of its own: that is why      *)
(* clearing by identity keeps a later one.                                 *)
(***************************************************************************)
(* What a start finds where nothing is pending. *)
Known == IF saved # None THEN [relays |-> saved.relays, noise |-> saved.noise]
         ELSE [relays |-> FirstRelays, noise |-> FirstMode]

(* How the parts of the host stand to each other, whatever was asked for. *)
Restarting == {c \in Callers : change[c].pc = "restart"}
Old(setting) == setting # None => setting.n <= changes

Phases ==
    /\ boot.pc = "reading" => kit = "stopped"
    /\ boot.pc \in {"starting", "late"} => kit = "starting" /\ Restarting = {}
    /\ kit = "starting" => boot.pc \in {"starting", "late"} \/ Restarting # {}
    /\ Restarting # {} => kit = "starting"
    /\ \A c, d \in Restarting : c = d
    /\ boot.pc \in {"idle", "reading"} => boot.relays = None /\ boot.noise = None
    /\ \A c \in Callers : change[c].pc = "idle" => change[c] = Phone!NoChange

OptionsAreKnown ==
    /\ options # None => options.relays = Known.relays /\ options.noise = Known.noise
    /\ kit # "stopped" \/ boot.pc \notin {"idle", "reading"} \/ (\E c \in Callers : change[c].pc # "idle")
        => options # None /\ (kit # "stopped" => built # None)

ReadersAreEarly ==
    (\E c \in Callers : reading[c] # None) =>
        /\ kit # "running" /\ boot.pc \notin {"late", "hooks"}
        /\ \A c \in Callers : change[c].pc = "idle"

Numbered ==
    /\ Old(pendingRelays) /\ Old(pendingNoise) /\ Old(boot.relays) /\ Old(boot.noise)
    /\ \A c \in Callers : Old(change[c].relays)

(* The settings asked for: those pending, or else known. *)
AskedNext ==
    /\ asked.relays = IF pendingRelays # None THEN pendingRelays.value ELSE Known.relays
    /\ asked.noise = IF pendingNoise # None /\ ~(boot.pc = "hooks" /\ pendingNoise = boot.noise)
                     THEN pendingNoise.value ELSE Known.noise

AskedRuns ==
    /\ asked.relays = built.relays /\ asked.noise = built.noise

(* The settings pending are those of a rebuild, whose end clears them. *)
PendingIsUsed ==
    /\ pendingRelays \in {None, boot.relays} \cup {change[c].relays : c \in Callers}
    /\ pendingNoise \in {None, boot.noise}

HooksClear ==
    /\ \A c \in Callers : change[c].pc = "hooks" /\ pendingRelays = change[c].relays /\ pendingRelays # None
            => pendingRelays.value = Known.relays
    /\ boot.pc = "hooks" /\ pendingRelays = boot.relays /\ pendingRelays # None
            => pendingRelays.value = Known.relays

Starting == kit = "starting" /\ boot.pc = "starting" =>
    /\ AskedNext
    /\ built.relays = IF boot.relays # None THEN boot.relays.value ELSE Known.relays
    /\ built.noise = IF boot.noise # None THEN boot.noise.value ELSE Known.noise
    /\ pendingNoise = None => boot.noise = None
    /\ pendingRelays \notin {None, boot.relays} => \A c \in Callers : change[c].relays # pendingRelays
    /\ \/ boot.relays = None \/ boot.relays.value = Known.relays
       \/ pendingRelays # None /\ \A c \in Callers : change[c].relays # pendingRelays

Settled ==
    /\ asked.mode = sendMode
    /\ kit # "stopped" => built.mode = sendMode
    /\ kit = "stopped" => AskedNext
    /\ Starting
    /\ kit = "starting" /\ boot.pc = "late" =>
          AskedNext /\ AskedRuns /\ pendingRelays \in {None, boot.relays} /\ pendingNoise = boot.noise
    /\ kit = "running" => AskedRuns /\ PendingIsUsed /\ built.relays = Known.relays /\ built.noise = Known.noise
    /\ \A c \in Restarting :
          /\ AskedRuns /\ PendingIsUsed
          /\ IF change[c].relays = None THEN built.relays = Known.relays
             ELSE pendingRelays \in {None, change[c].relays} /\ change[c].relays.value = built.relays
    /\ HooksClear

PhoneInv ==
    /\ Phone!PhoneTypeOK /\ Phases /\ OptionsAreKnown /\ ReadersAreEarly /\ Numbered
    /\ late \/ Settled

LEMMA NoOptionsIsNone ==
    ASSUME Phone!PhoneConstants
    PROVE  None \notin Phone!Options /\ None \notin Phone!Pending(Relays) /\ None \notin Phone!Pending(Modes)
BY DEF Phone!PhoneConstants

LEMMA KnownOptions ==
    ASSUME Phone!PhoneConstants, Phone!PhoneTypeOK
    PROVE  /\ Phone!knownOptions \in Phone!Options /\ Phone!knownOptions # None
           /\ Phone!knownOptions.relays = Known.relays /\ Phone!knownOptions.noise = Known.noise
<1>1. Phone!knownOptions \in Phone!Options
  BY DEF Phone!PhoneConstants, Phone!PhoneTypeOK, Phone!knownOptions, Phone!Options
<1>2. Phone!knownOptions.relays = Known.relays /\ Phone!knownOptions.noise = Known.noise
  BY DEF Phone!knownOptions, Known
<1> QED BY <1>1, <1>2, NoOptionsIsNone

LEMMA StartWithBuilds ==
    ASSUME Phone!PhoneConstants, Phone!PhoneTypeOK, NEW known \in Phone!Options, Phone!StartWith(known)
    PROVE  /\ kit' = "starting" /\ gen' \in 0 .. MaxNodes /\ boot' \in Phone!Boots
              /\ built' \in Phone!Options /\ built' # None
           /\ built'.relays = IF pendingRelays # None THEN pendingRelays.value ELSE known.relays
           /\ built'.noise = IF pendingNoise # None THEN pendingNoise.value ELSE known.noise
           /\ built'.mode = sendMode
           /\ boot'.pc = "starting" /\ boot'.relays = pendingRelays /\ boot'.noise = pendingNoise
<1>1. boot' = [pc |-> "starting", relays |-> pendingRelays, noise |-> pendingNoise] /\ kit' = "starting"
  BY DEF Phone!StartWith, Phone!Build
<1>2. boot' \in Phone!Boots
  BY <1>1 DEF Phone!PhoneTypeOK, Phone!Boots
<1>3. gen' \in 0 .. MaxNodes
  BY DEF Phone!StartWith, Phone!Build, Phone!PhoneTypeOK, Phone!PhoneConstants
<1> DEFINE r == IF pendingRelays # None THEN pendingRelays.value ELSE known.relays
           m == IF pendingNoise # None THEN pendingNoise.value ELSE known.noise
<1>4. r \in Relays /\ m \in Modes
  BY DEF Phone!PhoneTypeOK, Phone!Pending, Phone!Options
<1>5. built' = [known EXCEPT !.relays = r, !.noise = m, !.mode = sendMode]
  BY DEF Phone!StartWith, Phone!Build
<1> HIDE DEF r, m
<1>6. built' \in Phone!Options /\ built'.relays = r /\ built'.noise = m /\ built'.mode = sendMode
  BY <1>4, <1>5 DEF Phone!Options, Phone!PhoneTypeOK
<1> QED BY <1>1, <1>2, <1>3, <1>6, NoOptionsIsNone DEF r, m

LEMMA StartKeeps == ASSUME Phone!PhoneConstants, PhoneInv, Phone!ensureStarted PROVE PhoneInv'
<1>0. Phone!PhoneTypeOK /\ Phases /\ OptionsAreKnown /\ ReadersAreEarly /\ Numbered /\ (late \/ Settled)
  BY DEF PhoneInv
<1>a. kit = "stopped" /\ boot.pc = "idle"
        /\ UNCHANGED <<saved, parties, options, pendingRelays, pendingNoise, sendMode, change, reading,
              changes, late, asked>>
  BY DEF Phone!ensureStarted
<1>b. CASE options # None /\ Phone!StartWith(options)
  <2>1. options \in Phone!Options
    BY <1>0, <1>b DEF Phone!PhoneTypeOK
  <2>2. Phone!PhoneTypeOK'
    BY <1>0, <1>a, <1>b, <2>1, StartWithBuilds DEF Phone!PhoneTypeOK
  <2>3. Phases' /\ ReadersAreEarly'
    BY <1>0, <1>a, <1>b, <2>1, StartWithBuilds DEF Phases, ReadersAreEarly, Restarting
  <2>4. OptionsAreKnown' /\ Numbered' /\ Known' = Known
    BY <1>0, <1>a, <1>b, <2>1, StartWithBuilds DEF OptionsAreKnown, Numbered, Known, Old
  <2>5. (late \/ Settled)'
    <3>1. SUFFICES ASSUME ~late PROVE Settled'
      BY <1>a
    <3>2. AskedNext /\ asked.mode = sendMode /\ HooksClear /\ Restarting = {}
      BY <1>0, <1>a, <3>1 DEF Settled, Phases
    <3>3. AskedNext' /\ Restarting' = {}
      BY <1>0, <1>a, <1>b, <2>1, <2>4, <3>2, StartWithBuilds DEF AskedNext, Restarting
    <3>4. HooksClear'
      BY <1>0, <1>a, <1>b, <2>1, <2>4, <3>2, StartWithBuilds DEF HooksClear
    <3>5. /\ built'.relays = IF boot'.relays # None THEN boot'.relays.value ELSE Known.relays
          /\ built'.noise = IF boot'.noise # None THEN boot'.noise.value ELSE Known.noise
      BY <1>0, <1>a, <1>b, <2>1, StartWithBuilds DEF OptionsAreKnown
    <3>6. \/ boot'.relays = None \/ boot'.relays.value = Known.relays
          \/ pendingRelays # None /\ \A c \in Callers : change[c].relays # pendingRelays
      BY <1>0, <1>a, <1>b, <2>1, <3>2, StartWithBuilds DEF HooksClear, Phases, Restarting, Phone!NoChange,
         Phone!PhoneTypeOK, Phone!Changes
    <3>7. Starting'
      BY <1>0, <1>a, <1>b, <2>1, <2>4, <3>3, <3>5, <3>6, StartWithBuilds DEF Starting
    <3> QED BY <1>0, <1>a, <1>b, <2>1, <3>2, <3>3, <3>4, <3>7, StartWithBuilds DEF Settled
  <2> QED BY <2>2, <2>3, <2>4, <2>5 DEF PhoneInv
<1>c. CASE options = None /\ boot' = [Phone!NotBooting EXCEPT !.pc = "reading"] /\ UNCHANGED <<kit, gen, built>>
  <2>1. boot'.pc = "reading" /\ boot'.relays = None /\ boot'.noise = None /\ boot' \in Phone!Boots
    BY <1>c DEF Phone!NotBooting, Phone!Boots
  <2>2. Phone!PhoneTypeOK'
    BY <1>0, <1>a, <1>c, <2>1 DEF Phone!PhoneTypeOK
  <2>3. Phases' /\ ReadersAreEarly'
    BY <1>0, <1>a, <1>c, <2>1 DEF Phases, ReadersAreEarly, Restarting
  <2>4. OptionsAreKnown' /\ Numbered' /\ Known' = Known
    BY <1>0, <1>a, <1>c, <2>1 DEF OptionsAreKnown, Numbered, Known, Old
  <2>5. (late \/ Settled)'
    BY <1>0, <1>a, <1>c, <2>1, <2>4 DEF Phases, OptionsAreKnown, Restarting, Settled, AskedNext, HooksClear,
       Starting
  <2> QED BY <2>2, <2>3, <2>4, <2>5 DEF PhoneInv
<1> QED BY <1>b, <1>c DEF Phone!ensureStarted

LEMMA StartReadsKeeps == ASSUME Phone!PhoneConstants, PhoneInv, Phone!StartReads PROVE PhoneInv'
<1>0. Phone!PhoneTypeOK /\ Phases /\ OptionsAreKnown /\ ReadersAreEarly /\ Numbered /\ (late \/ Settled)
  BY DEF PhoneInv
<1>a. /\ boot.pc = "reading" /\ options' = Phone!knownOptions /\ Phone!StartWith(Phone!knownOptions)
         /\ parties' \in Nat /\ kit = "stopped"
      /\ UNCHANGED <<saved, pendingRelays, pendingNoise, sendMode, change, reading, changes, late, asked>>
  BY <1>0 DEF Phone!StartReads, Phone!PhoneTypeOK, Phases
<1>b. /\ Phone!knownOptions \in Phone!Options /\ Phone!knownOptions # None
      /\ Phone!knownOptions.relays = Known.relays /\ Phone!knownOptions.noise = Known.noise
  BY <1>0, KnownOptions
<1>2. Phone!PhoneTypeOK'
  BY <1>0, <1>a, <1>b, StartWithBuilds DEF Phone!PhoneTypeOK
<1>3. Phases' /\ ReadersAreEarly'
  BY <1>0, <1>a, <1>b, StartWithBuilds DEF Phases, ReadersAreEarly, Restarting
<1>4. OptionsAreKnown' /\ Numbered' /\ Known' = Known
  BY <1>0, <1>a, <1>b, StartWithBuilds DEF OptionsAreKnown, Numbered, Known, Old
<1>5. (late \/ Settled)'
  <2>1. SUFFICES ASSUME ~late PROVE Settled'
    BY <1>a
  <2>2. AskedNext /\ asked.mode = sendMode /\ HooksClear /\ Restarting = {}
    BY <1>0, <1>a, <2>1 DEF Settled, Phases
  <2>3. AskedNext' /\ Restarting' = {}
    BY <1>0, <1>a, <1>b, <1>4, <2>2, StartWithBuilds DEF AskedNext, Restarting
  <2>4. HooksClear'
    BY <1>0, <1>a, <1>b, <1>4, <2>2, StartWithBuilds DEF HooksClear
  <2>5. /\ built'.relays = IF boot'.relays # None THEN boot'.relays.value ELSE Known.relays
        /\ built'.noise = IF boot'.noise # None THEN boot'.noise.value ELSE Known.noise
    BY <1>0, <1>a, <1>b, StartWithBuilds
  <2>6. \/ boot'.relays = None \/ boot'.relays.value = Known.relays
        \/ pendingRelays # None /\ \A c \in Callers : change[c].relays # pendingRelays
    BY <1>0, <1>a, <1>b, <2>2, StartWithBuilds DEF HooksClear, Phases, Restarting, Phone!NoChange,
       Phone!PhoneTypeOK, Phone!Changes
  <2>7. Starting'
    BY <1>0, <1>a, <1>b, <1>4, <2>3, <2>5, <2>6, StartWithBuilds DEF Starting
  <2> QED BY <1>0, <1>a, <1>b, <2>2, <2>3, <2>4, <2>7, StartWithBuilds DEF Settled
<1> QED BY <1>2, <1>3, <1>4, <1>5 DEF PhoneInv

LEMMA StartEndsKeeps == ASSUME Phone!PhoneConstants, PhoneInv, Phone!StartEnds PROVE PhoneInv'
<1>0. Phone!PhoneTypeOK /\ Phases /\ OptionsAreKnown /\ ReadersAreEarly /\ Numbered /\ (late \/ Settled)
  BY DEF PhoneInv
<1>a. /\ kit = "starting" /\ boot.pc = "starting" /\ (\A c \in Callers : reading[c] = None)
      /\ saved' = built /\ options' = built
      /\ pendingRelays' = IF pendingRelays = boot.relays THEN None ELSE pendingRelays
      /\ pendingNoise' = IF pendingNoise = boot.noise THEN None ELSE pendingNoise
      /\ UNCHANGED <<parties, sendMode, change, reading, changes, late, asked>>
  BY DEF Phone!StartEnds, Phone!Cleared
<1>b. built \in Phone!Options /\ built # None /\ Restarting = {}
  BY <1>0, <1>a DEF OptionsAreKnown, Phone!PhoneTypeOK, Phases
<1>c. Known'.relays = built.relays /\ Known'.noise = built.noise
  BY <1>a, <1>b DEF Known
<1>d. /\ pendingRelays' \in Phone!Pending(Relays) \cup {None}
         /\ pendingNoise' \in Phone!Pending(Modes) \cup {None}
      /\ Old(pendingRelays') /\ Old(pendingNoise')
  BY <1>0, <1>a DEF Phone!PhoneTypeOK, Numbered, Old
<1>e. ~late => /\ AskedNext /\ asked.mode = sendMode /\ built.mode = sendMode /\ HooksClear
               /\ built.relays = IF boot.relays # None THEN boot.relays.value ELSE Known.relays
               /\ built.noise = IF boot.noise # None THEN boot.noise.value ELSE Known.noise
               /\ pendingNoise = None => boot.noise = None
               /\ pendingRelays \notin {None, boot.relays}
                     => \A c \in Callers : change[c].relays # pendingRelays
               /\ \/ boot.relays = None \/ boot.relays.value = Known.relays
                  \/ pendingRelays # None
  BY <1>0, <1>a DEF Settled, Starting
<1>f. ~late => /\ asked.relays = IF pendingRelays' # None THEN pendingRelays'.value ELSE built.relays
               /\ asked.noise = IF pendingNoise' # None THEN pendingNoise'.value ELSE built.noise
               /\ pendingRelays' # None => \A c \in Callers : change[c].relays # pendingRelays'
  BY <1>0, <1>a, <1>e DEF AskedNext
<1>g. ReadersAreEarly'
  BY <1>a DEF ReadersAreEarly
<1>h. Restarting' = {}
  BY <1>a, <1>b DEF Restarting
<1>1. CASE /\ pendingRelays' = None /\ pendingNoise' = None
           /\ kit' = "running" /\ boot' = Phone!NotBooting /\ UNCHANGED <<gen, built>>
  <2>1. boot' \in Phone!Boots /\ boot'.pc = "idle" /\ boot'.relays = None /\ boot'.noise = None
    BY <1>1 DEF Phone!Boots, Phone!NotBooting
  <2>2. Phone!PhoneTypeOK'
    BY <1>0, <1>a, <1>b, <1>1, <2>1 DEF Phone!PhoneTypeOK
  <2>3. Phases'
    BY <1>0, <1>a, <1>h, <1>1, <2>1 DEF Phases
  <2>4. OptionsAreKnown' /\ Numbered'
    BY <1>0, <1>a, <1>b, <1>c, <1>1, <2>1 DEF OptionsAreKnown, Numbered, Old
  <2>5. (late \/ Settled)'
    <3>1. SUFFICES ASSUME ~late PROVE Settled'
      BY <1>a
    <3> QED BY <1>a, <1>c, <1>e, <1>f, <1>h, <1>1, <2>1, <3>1 DEF Settled, Starting, AskedRuns,
               PendingIsUsed, HooksClear
  <2> QED BY <1>g, <2>2, <2>3, <2>4, <2>5 DEF PhoneInv
<1>2. CASE /\ Phone!Build([built EXCEPT
                        !.relays = IF pendingRelays' # None THEN pendingRelays'.value ELSE @,
                        !.noise = IF pendingNoise' # None THEN pendingNoise'.value ELSE @])
           /\ boot' = [pc |-> "late", relays |-> pendingRelays', noise |-> pendingNoise']
  <2> DEFINE r == IF pendingRelays' # None THEN pendingRelays'.value ELSE built.relays
             m == IF pendingNoise' # None THEN pendingNoise'.value ELSE built.noise
  <2>1. r \in Relays /\ m \in Modes
    BY <1>b, <1>d DEF Phone!Pending, Phone!Options
  <2>2. kit' = "starting" /\ gen' = gen + 1 /\ gen < MaxNodes
          /\ built' = [built EXCEPT !.relays = r, !.noise = m]
    BY <1>2 DEF Phone!Build
  <2> HIDE DEF r, m
  <2>3. built' \in Phone!Options /\ built' # None /\ built'.relays = r /\ built'.noise = m
          /\ built'.mode = built.mode
    BY <1>b, <2>1, <2>2, NoOptionsIsNone DEF Phone!Options
  <2>4. boot' \in Phone!Boots /\ boot'.pc = "late" /\ boot'.relays = pendingRelays'
          /\ boot'.noise = pendingNoise'
    BY <1>2, <1>d DEF Phone!Boots
  <2>5. Phone!PhoneTypeOK'
    BY <1>0, <1>a, <1>b, <1>d, <2>2, <2>3, <2>4 DEF Phone!PhoneTypeOK, Phone!PhoneConstants
  <2>6. Phases'
    BY <1>0, <1>a, <1>h, <2>2, <2>4 DEF Phases
  <2>7. OptionsAreKnown' /\ Numbered'
    BY <1>0, <1>a, <1>b, <1>c, <1>d, <2>3, <2>4 DEF OptionsAreKnown, Numbered, Old
  <2>8. (late \/ Settled)'
    <3>1. SUFFICES ASSUME ~late PROVE Settled'
      BY <1>a
    <3>2. AskedNext' /\ AskedRuns'
      BY <1>a, <1>c, <1>f, <2>3, <2>4, <3>1 DEF AskedNext, AskedRuns, r, m
    <3>3. HooksClear' /\ Starting'
      BY <1>a, <1>f, <2>4, <3>1 DEF HooksClear, Starting
    <3> QED BY <1>a, <1>e, <1>h, <2>2, <2>3, <2>4, <3>1, <3>2, <3>3 DEF Settled
  <2> QED BY <1>g, <2>5, <2>6, <2>7, <2>8 DEF PhoneInv
<1> QED BY <1>1, <1>2 DEF Phone!StartEnds

LEMMA ModeKeeps ==
    ASSUME Phone!PhoneConstants, PhoneInv, NEW m \in Phone!SendModes, Phone!setSendMode(m)
    PROVE  PhoneInv'
<1>0. Phone!PhoneTypeOK /\ Phases /\ OptionsAreKnown /\ ReadersAreEarly /\ Numbered /\ (late \/ Settled)
  BY DEF PhoneInv
<1>a. /\ changes' \in 0 .. MaxChanges /\ changes < changes' /\ sendMode' = m
         /\ asked' = [asked EXCEPT !.mode = m]
      /\ late' = (late \/ kit = "starting") /\ late' \in BOOLEAN
      /\ UNCHANGED <<kit, gen, saved, parties, options, pendingRelays, pendingNoise, boot, change, reading>>
  <2>1. changes' \in 0 .. MaxChanges /\ changes < changes'
    BY <1>0 DEF Phone!setSendMode, Phone!PhoneTypeOK, Phone!PhoneConstants
  <2>2. late' = (late \/ kit = "starting") /\ late' \in BOOLEAN
    BY DEF Phone!setSendMode
  <2> QED BY <2>1, <2>2 DEF Phone!setSendMode
<1>b. asked' \in [relays : Relays, noise : Modes, mode : Phone!SendModes] /\ asked'.relays = asked.relays
        /\ asked'.noise = asked.noise /\ asked'.mode = m
  BY <1>0, <1>a DEF Phone!PhoneTypeOK
<1>c. /\ built' \in Phone!Options \cup {None} /\ (built # None => built' # None
         /\ built'.relays = built.relays /\ built'.noise = built.noise)
      /\ kit = "running" => built'.mode = m
  <2>1. CASE ~Phone!running
    BY <1>0, <2>1 DEF Phone!setSendMode, Phone!PhoneTypeOK, Phone!running
  <2>2. CASE Phone!running
    <3>1. built \in Phone!Options
      BY <1>0, <2>2 DEF Phone!running, OptionsAreKnown, Phone!PhoneTypeOK
    <3>2. built' = [built EXCEPT !.mode = m]
      BY <2>2 DEF Phone!setSendMode
    <3>3. built' \in Phone!Options /\ built'.relays = built.relays /\ built'.noise = built.noise
            /\ built'.mode = m
      BY <3>1, <3>2 DEF Phone!Options
    <3> QED BY <3>3, NoOptionsIsNone
  <2> QED BY <2>1, <2>2
<1>1. Phone!PhoneTypeOK'
  BY <1>0, <1>a, <1>b, <1>c DEF Phone!PhoneTypeOK
<1>2. Phases' /\ ReadersAreEarly' /\ Restarting' = Restarting
  BY <1>0, <1>a DEF Phases, ReadersAreEarly, Restarting
<1>3. OptionsAreKnown' /\ Known' = Known
  BY <1>0, <1>a, <1>c DEF OptionsAreKnown, Known
<1>4. Numbered'
  BY <1>0, <1>a DEF Numbered, Old, Phone!PhoneTypeOK, Phone!Pending, Phone!Boots, Phone!Changes
<1>5. (late \/ Settled)'
  <2>1. SUFFICES ASSUME ~late, kit # "starting" PROVE Settled'
    BY <1>a
  <2>2. Restarting = {} /\ Settled
    BY <1>0, <2>1 DEF Phases
  <2>3. kit = "stopped" \/ (kit = "running" /\ built # None)
    BY <1>0, <2>1 DEF Phone!PhoneTypeOK, OptionsAreKnown
  <2>4. AskedNext' <=> AskedNext
    BY <1>a, <1>b, <1>3 DEF AskedNext
  <2>5. HooksClear'
    BY <1>a, <1>3, <2>2 DEF Settled, HooksClear
  <2>6. kit = "running" => AskedRuns' /\ PendingIsUsed' /\ built'.relays = Known.relays
          /\ built'.noise = Known.noise
    BY <1>a, <1>b, <1>c, <2>2, <2>3 DEF Settled, AskedRuns, PendingIsUsed
  <2> QED BY <1>a, <1>b, <1>c, <1>2, <1>3, <2>1, <2>2, <2>3, <2>4, <2>5, <2>6 DEF Settled, Starting
<1> QED BY <1>1, <1>2, <1>3, <1>4, <1>5 DEF PhoneInv

(* Relays asked for while no node runs wait.                                *)
LEMMA RelaysWait ==
    ASSUME Phone!PhoneConstants, PhoneInv, NEW c \in Callers, NEW a \in Relays, kit # "running",
           change[c].pc = "idle", changes' \in changes .. MaxChanges,
           changes' = changes => boot.pc # "hooks" /\ \A d \in Callers : change[d].pc = "idle",
           pendingRelays' = [value |-> a, n |-> changes'], asked' = [asked EXCEPT !.relays = a],
           late' = (late \/ Phone!Rebuilding), UNCHANGED <<kit, gen, built, change, saved, pendingNoise,
              sendMode, boot>>,
           parties' \in Nat, options' \in Phone!Options \cup {None},
           options' = options \/ (options' # None /\ options'.relays = Known.relays
             /\ options'.noise = Known.noise),
           reading' \in [Callers -> Relays \cup {None}],
              \A d \in Callers : reading'[d] # None => reading[d] # None
    PROVE  PhoneInv'
<1>0. Phone!PhoneTypeOK /\ Phases /\ OptionsAreKnown /\ ReadersAreEarly /\ Numbered /\ (late \/ Settled)
  BY DEF PhoneInv
<1>a. /\ pendingRelays' \in Phone!Pending(Relays) /\ pendingRelays' # None /\ pendingRelays'.value = a
         /\ pendingRelays'.n = changes'
      /\ asked' \in [relays : Relays, noise : Modes, mode : Phone!SendModes]
      /\ asked'.relays = a /\ asked'.noise = asked.noise /\ asked'.mode = asked.mode
      /\ changes \in Nat /\ changes' \in Nat /\ changes <= changes' /\ changes' <= MaxChanges
         /\ late' \in BOOLEAN
  <2>1. changes \in Nat /\ changes' \in Nat /\ changes <= changes' /\ changes' <= MaxChanges
    BY <1>0 DEF Phone!PhoneTypeOK, Phone!PhoneConstants
  <2>2. pendingRelays' \in Phone!Pending(Relays) /\ pendingRelays'.value = a /\ pendingRelays'.n = changes'
    BY <2>1 DEF Phone!Pending
  <2>3. late' \in BOOLEAN
    BY <1>0 DEF Phone!PhoneTypeOK, Phone!Rebuilding
  <2> QED BY <1>0, <2>1, <2>2, <2>3, NoOptionsIsNone DEF Phone!PhoneTypeOK
<1>b. \A d \in Callers : change[d].relays # pendingRelays'
  <2>1. CASE changes' = changes
    BY <1>0, <1>a, <2>1 DEF Phases, Phone!NoChange
  <2>2. CASE changes' # changes
    <3> SUFFICES ASSUME NEW d \in Callers, change[d].relays = pendingRelays' PROVE FALSE
      OBVIOUS
    <3>1. change[d].relays.n = changes' /\ change[d].relays.n <= changes
      BY <1>0, <1>a DEF Numbered, Old
    <3> QED BY <1>a, <2>2, <3>1
  <2> QED BY <2>1, <2>2
<1>1. Phone!PhoneTypeOK'
  BY <1>0, <1>a DEF Phone!PhoneTypeOK
<1>2. Phases' /\ ReadersAreEarly' /\ Restarting' = Restarting
  BY <1>0, <1>a DEF Phases, ReadersAreEarly, Restarting
<1>3. OptionsAreKnown' /\ Known' = Known
  BY <1>0, <1>a, NoOptionsIsNone DEF OptionsAreKnown, Known
<1>4. Numbered'
  BY <1>0, <1>a DEF Numbered, Old, Phone!PhoneTypeOK, Phone!Pending, Phone!Boots, Phone!Changes
<1>5. (late \/ Settled)'
  <2>1. SUFFICES ASSUME ~late, ~Phone!Rebuilding PROVE Settled'
    OBVIOUS
  <2>2. Restarting = {} /\ Settled /\ ~(kit = "starting" /\ boot.pc = "late")
    BY <1>0, <2>1 DEF Phases, Phone!Rebuilding, Restarting
  <2>3. kit = "stopped" \/ (kit = "starting" /\ boot.pc = "starting")
    BY <1>0, <2>1 DEF Phone!PhoneTypeOK, Phone!Rebuilding
  <2>4. AskedNext'
    BY <1>a, <1>3, <2>2, <2>3 DEF AskedNext, Settled, Starting
  <2>5. HooksClear'
    <3>1. boot.pc = "hooks" => boot.relays # pendingRelays'
      <4> SUFFICES ASSUME boot.pc = "hooks", boot.relays = pendingRelays' PROVE FALSE
        OBVIOUS
      <4>1. boot.relays.n = changes' /\ boot.relays.n <= changes /\ changes' # changes
        BY <1>0, <1>a DEF Numbered, Old
      <4> QED BY <1>a, <4>1
    <3> QED BY <1>b, <3>1 DEF HooksClear
  <2>6. Starting'
    BY <1>a, <1>b, <1>3, <2>2, <2>3, <2>4 DEF Settled, Starting
  <2> QED BY <1>a, <1>2, <2>1, <2>2, <2>3, <2>4, <2>5, <2>6 DEF Settled
<1> QED BY <1>1, <1>2, <1>3, <1>4, <1>5 DEF PhoneInv


(* A change that is only counted, or has its settings read. *)
LEMMA CountKeeps ==
    ASSUME Phone!PhoneConstants, PhoneInv, changes' \in changes .. MaxChanges,
           UNCHANGED <<kit, gen, built, saved, pendingRelays, pendingNoise, sendMode, boot, change, late,
              asked>>,
           parties' \in Nat, options' \in Phone!Options \cup {None},
           options' = options \/ (options' # None /\ options'.relays = Known.relays
             /\ options'.noise = Known.noise),
           reading' \in [Callers -> Relays \cup {None}],
           (\E c \in Callers : reading'[c] # None) => (\E c \in Callers : reading[c] # None) \/ options = None
    PROVE  PhoneInv'
<1>0. Phone!PhoneTypeOK /\ Phases /\ OptionsAreKnown /\ ReadersAreEarly /\ Numbered /\ (late \/ Settled)
  BY DEF PhoneInv
<1>a. changes \in Nat /\ changes' \in 0 .. MaxChanges /\ changes <= changes'
  BY <1>0 DEF Phone!PhoneTypeOK, Phone!PhoneConstants
<1>1. Phone!PhoneTypeOK'
  BY <1>0, <1>a DEF Phone!PhoneTypeOK
<1>2. Phases' /\ Restarting' = Restarting /\ Known' = Known
  BY <1>0 DEF Phases, Restarting, Known
<1>3. OptionsAreKnown'
  BY <1>0, <1>2 DEF OptionsAreKnown
<1>4. ReadersAreEarly'
  BY <1>0 DEF ReadersAreEarly, OptionsAreKnown, Phone!PhoneTypeOK
<1>5. Numbered'
  BY <1>0, <1>a DEF Numbered, Old, Phone!PhoneTypeOK, Phone!Pending, Phone!Boots, Phone!Changes
<1>6. (late \/ Settled)'
  BY <1>0, <1>2 DEF Settled, Starting, AskedNext, AskedRuns, PendingIsUsed, HooksClear
<1> QED BY <1>1, <1>2, <1>3, <1>4, <1>5, <1>6 DEF PhoneInv

(* What a rebuild of the node that runs begins with. *)
LEMMA RunsSettled ==
    ASSUME PhoneInv, kit = "running"
    PROVE  /\ built \in Phone!Options /\ built # None /\ options # None /\ Restarting = {}
           /\ boot.pc \in {"idle", "hooks"} /\ \A c \in Callers : reading[c] = None
           /\ boot.pc = "idle" => boot.relays = None /\ boot.noise = None
           /\ ~late => Settled /\ AskedRuns /\ PendingIsUsed /\ HooksClear /\ built.relays = Known.relays
                       /\ built.noise = Known.noise /\ asked.mode = sendMode /\ built.mode = sendMode
<1>1. built \in Phone!Options /\ built # None /\ options # None
  BY DEF PhoneInv, OptionsAreKnown, Phone!PhoneTypeOK
<1>2. Restarting = {} /\ boot.pc \in {"idle", "hooks"} /\ \A c \in Callers : reading[c] = None
  BY DEF PhoneInv, Phases, ReadersAreEarly, Phone!PhoneTypeOK, Phone!Boots
<1>3. boot.pc = "idle" => boot.relays = None /\ boot.noise = None
  BY DEF PhoneInv, Phases
<1>4. ~late => Settled /\ AskedRuns /\ PendingIsUsed /\ HooksClear /\ built.relays = Known.relays
               /\ built.noise = Known.noise /\ asked.mode = sendMode /\ built.mode = sendMode
  BY DEF PhoneInv, Settled
<1> QED BY <1>1, <1>2, <1>3, <1>4

(* A node is built for relays, or for a mode, asked for while one runs. *)
LEMMA RebuildKeeps ==
    ASSUME Phone!PhoneConstants, PhoneInv, NEW c \in Callers, kit = "running", kit' = "starting",
           change[c].pc = "idle",
           gen' \in 0 .. MaxNodes, built' \in Phone!Options, built'.mode = built.mode, late' = late,
           NEW mine \in Phone!Pending(Relays) \cup {None},
           change' = [change EXCEPT ![c] = [pc |-> "restart", relays |-> mine]],
           changes' \in 0 .. MaxChanges, changes < changes', mine # None => mine.n = changes',
           pendingRelays' = IF mine = None THEN pendingRelays ELSE mine,
           mine = None => built'.relays = built.relays, mine # None => built'.relays = mine.value,
           asked' \in [relays : Relays, noise : Modes, mode : Phone!SendModes], asked'.mode = asked.mode,
           asked.relays = built.relays => asked'.relays = built'.relays,
           asked.noise = built.noise => asked'.noise = built'.noise,
           mine # None => asked'.relays = built'.relays,
           UNCHANGED <<saved, parties, options, pendingNoise, sendMode, boot, reading>>
    PROVE  PhoneInv'
<1>0. Phone!PhoneTypeOK /\ Phases /\ OptionsAreKnown /\ ReadersAreEarly /\ Numbered /\ (late \/ Settled)
  BY DEF PhoneInv
<1>a. /\ changes \in Nat /\ changes' \in Nat /\ (mine # None => mine.n = changes')
      /\ change'[c].pc = "restart" /\ change'[c].relays = mine /\ change' \in [Callers -> Phone!Changes]
      /\ \A d \in Callers : d # c => change'[d] = change[d]
  BY <1>0 DEF Phone!PhoneTypeOK, Phone!Changes, Phone!PhoneConstants
<1>b. \A d \in Callers : mine # None => change[d].relays # mine
  <2> SUFFICES ASSUME NEW d \in Callers, mine # None, change[d].relays = mine PROVE FALSE
    OBVIOUS
  <2>1. change[d].relays.n = changes' /\ change[d].relays.n <= changes
    BY <1>0, <1>a DEF Numbered, Old
  <2> QED BY <1>a, <2>1
<1>c. mine # None => boot.relays # mine
  <2> SUFFICES ASSUME mine # None, boot.relays = mine PROVE FALSE
    OBVIOUS
  <2>1. boot.relays.n = changes' /\ boot.relays.n <= changes
    BY <1>0, <1>a DEF Numbered, Old
  <2> QED BY <1>a, <2>1
<1>d. Restarting' = {c} /\ Known' = Known
  BY <1>0, <1>a, RunsSettled DEF Restarting, Known
<1>1. Phone!PhoneTypeOK'
  BY <1>0, <1>a DEF Phone!PhoneTypeOK
<1>2. Phases'
  BY <1>0, <1>a, <1>d, RunsSettled DEF Phases
<1>3. OptionsAreKnown' /\ ReadersAreEarly'
  BY <1>0, <1>a, <1>d, RunsSettled, NoOptionsIsNone DEF OptionsAreKnown, ReadersAreEarly
<1>4. Numbered'
  <2>1. \A d \in Callers : change'[d].relays # None => change'[d].relays.n <= changes'
    BY <1>0, <1>a DEF Numbered, Old, Phone!PhoneTypeOK, Phone!Pending, Phone!Changes
  <2>2. pendingRelays' # None => pendingRelays'.n <= changes'
    BY <1>0, <1>a DEF Numbered, Old, Phone!PhoneTypeOK, Phone!Pending
  <2>3. (pendingNoise # None => pendingNoise.n <= changes') /\ (boot.relays # None => boot.relays.n <= changes')
        /\ (boot.noise # None => boot.noise.n <= changes')
    BY <1>0, <1>a DEF Numbered, Old, Phone!PhoneTypeOK, Phone!Pending, Phone!Boots
  <2> QED BY <2>1, <2>2, <2>3 DEF Numbered, Old
<1>5. (late \/ Settled)'
  <2>1. SUFFICES ASSUME ~late PROVE Settled'
    OBVIOUS
  <2>2. AskedRuns'
    BY <2>1, RunsSettled DEF AskedRuns
  <2>3. PendingIsUsed'
    BY <1>0, <1>a, <2>1, RunsSettled DEF PendingIsUsed, Phases, Phone!NoChange
  <2>4. HooksClear'
    BY <1>a, <1>b, <1>c, <1>d, <2>1, RunsSettled DEF HooksClear
  <2>5. IF mine = None THEN built'.relays = Known.relays
        ELSE pendingRelays' \in {None, mine} /\ mine.value = built'.relays
    BY <2>1, RunsSettled
  <2> QED BY <1>a, <1>d, <2>1, <2>2, <2>3, <2>4, <2>5, RunsSettled DEF Settled, Starting
<1> QED BY <1>1, <1>2, <1>3, <1>4, <1>5 DEF PhoneInv

LEMMA RelaysKeep ==
    ASSUME Phone!PhoneConstants, PhoneInv, NEW c \in Callers, NEW a \in Relays, Phone!applyRelays(c, a)
    PROVE  PhoneInv'
<1>0. Phone!PhoneTypeOK /\ Phases /\ OptionsAreKnown /\ ReadersAreEarly /\ Numbered /\ (late \/ Settled)
  BY DEF PhoneInv
<1>a. /\ change[c].pc = "idle" /\ reading[c] = None /\ changes' = changes + 1 /\ changes < MaxChanges
      /\ UNCHANGED <<saved, parties, options, pendingNoise, sendMode, boot>>
  BY DEF Phone!applyRelays, Phone!Asks
<1>b. changes' \in changes .. MaxChanges /\ changes' \in 0 .. MaxChanges /\ changes < changes'
        /\ parties \in Nat
  BY <1>0, <1>a DEF Phone!PhoneTypeOK, Phone!PhoneConstants
<1>c. parties' \in Nat /\ options' \in Phone!Options \cup {None} /\ reading \in [Callers -> Relays \cup {None}]
  BY <1>0, <1>a DEF Phone!PhoneTypeOK
<1>1. CASE /\ options = None /\ reading' = [reading EXCEPT ![c] = a]
           /\ UNCHANGED <<kit, gen, built, pendingRelays, change, late, asked>>
  <2>1. reading' \in [Callers -> Relays \cup {None}]
    BY <1>c, <1>1
  <2> QED BY <1>a, <1>b, <1>c, <1>1, <2>1, CountKeeps
<1>2. CASE UNCHANGED <<kit, gen, built, pendingRelays, change, late, asked>> /\ UNCHANGED reading
  BY <1>a, <1>b, <1>c, <1>2, CountKeeps
<1>3. CASE /\ pendingRelays' = [value |-> a, n |-> changes'] /\ asked' = [asked EXCEPT !.relays = a]
           /\ late' = (late \/ Phone!Rebuilding) /\ ~Phone!running /\ UNCHANGED <<kit, gen, built, change>>
              /\ UNCHANGED reading
  BY <1>a, <1>b, <1>c, <1>3, RelaysWait DEF Phone!running
<1>4. CASE /\ pendingRelays' = [value |-> a, n |-> changes'] /\ asked' = [asked EXCEPT !.relays = a]
           /\ late' = (late \/ Phone!Rebuilding) /\ Phone!running /\ UNCHANGED reading
           /\ Phone!Build([built EXCEPT !.relays = a])
           /\ change' = [change EXCEPT ![c] = [pc |-> "restart", relays |-> pendingRelays']]
  <2>1. kit = "running" /\ kit' = "starting" /\ gen' \in 0 .. MaxNodes /\ late' = late
    BY <1>0, <1>4 DEF Phone!running, Phone!Build, Phone!Rebuilding, Phone!PhoneTypeOK, Phone!PhoneConstants
  <2>2. built' = [built EXCEPT !.relays = a]
    BY <1>4 DEF Phone!Build
  <2>3. built' \in Phone!Options /\ built'.relays = a /\ built'.noise = built.noise /\ built'.mode = built.mode
    BY <2>1, <2>2, RunsSettled DEF Phone!Options
  <2>4. pendingRelays' \in Phone!Pending(Relays) /\ pendingRelays' # None /\ pendingRelays'.value = a
          /\ pendingRelays'.n = changes'
    BY <1>b, <1>4, NoOptionsIsNone DEF Phone!Pending
  <2>5. asked' \in [relays : Relays, noise : Modes, mode : Phone!SendModes] /\ asked'.relays = a
          /\ asked'.noise = asked.noise
        /\ asked'.mode = asked.mode
    BY <1>0, <1>4 DEF Phone!PhoneTypeOK
  <2>6. PICK mine \in Phone!Pending(Relays) \cup {None} : mine = pendingRelays'
    BY <2>4
  <2> QED BY <1>a, <1>b, <1>4, <2>1, <2>3, <2>4, <2>5, <2>6, RebuildKeeps
<1> QED BY <1>1, <1>2, <1>3, <1>4 DEF Phone!applyRelays, Phone!Apply, Phone!Asks

LEMMA RelaysReadKeeps ==
    ASSUME Phone!PhoneConstants, PhoneInv, NEW c \in Callers, Phone!RelaysRead(c)
    PROVE  PhoneInv'
<1>0. Phone!PhoneTypeOK /\ Phases /\ OptionsAreKnown /\ ReadersAreEarly /\ Numbered /\ (late \/ Settled)
  BY DEF PhoneInv
<1>a. /\ reading[c] # None /\ reading[c] \in Relays /\ options' = Phone!knownOptions /\ parties' \in Nat
         /\ changes' = changes
      /\ reading' = [reading EXCEPT ![c] = None] /\ reading' \in [Callers -> Relays \cup {None}]
      /\ UNCHANGED <<saved, pendingNoise, sendMode, boot>>
  BY <1>0 DEF Phone!RelaysRead, Phone!PhoneTypeOK
<1>b. /\ kit # "running" /\ boot.pc # "hooks" /\ \A d \in Callers : change[d].pc = "idle"
      /\ changes' \in changes .. MaxChanges
  BY <1>0, <1>a DEF ReadersAreEarly, Phone!PhoneTypeOK, Phone!PhoneConstants
<1>c. Phone!knownOptions \in Phone!Options /\ Phone!knownOptions # None
      /\ Phone!knownOptions.relays = Known.relays /\ Phone!knownOptions.noise = Known.noise
  BY <1>0, KnownOptions
<1>d. \A d \in Callers : reading'[d] # None => reading[d] # None
  BY <1>0, <1>a DEF Phone!PhoneTypeOK
<1>1. CASE UNCHANGED <<kit, gen, built, pendingRelays, change, late, asked>>
  BY <1>0, <1>a, <1>b, <1>c, <1>d, <1>1, CountKeeps
<1>2. CASE /\ pendingRelays' = [value |-> reading[c], n |-> changes']
              /\ asked' = [asked EXCEPT !.relays = reading[c]]
           /\ late' = (late \/ Phone!Rebuilding) /\ UNCHANGED <<kit, gen, built, change>>
  BY <1>0, <1>a, <1>b, <1>c, <1>d, <1>2, RelaysWait
<1> QED BY <1>b, <1>1, <1>2 DEF Phone!RelaysRead, Phone!Apply, Phone!running

LEMMA NoiseKeeps ==
    ASSUME Phone!PhoneConstants, PhoneInv, NEW c \in Callers, NEW m \in Modes, Phone!setNoiseCryptoMode(c, m)
    PROVE  PhoneInv'
<1>0. Phone!PhoneTypeOK /\ Phases /\ OptionsAreKnown /\ ReadersAreEarly /\ Numbered /\ (late \/ Settled)
  BY DEF PhoneInv
<1>a. /\ change[c].pc = "idle" /\ asked' = [asked EXCEPT !.noise = m] /\ late' = (late \/ Phone!Rebuilding)
      /\ UNCHANGED <<saved, parties, options, pendingRelays, sendMode, boot, reading>>
  BY DEF Phone!setNoiseCryptoMode, Phone!Asks
<1>b. changes \in Nat /\ changes' \in 0 .. MaxChanges /\ changes < changes'
  BY <1>0 DEF Phone!PhoneTypeOK, Phone!PhoneConstants, Phone!setNoiseCryptoMode, Phone!Asks
<1>c. asked' \in [relays : Relays, noise : Modes, mode : Phone!SendModes] /\ asked'.noise = m
        /\ asked'.relays = asked.relays
      /\ asked'.mode = asked.mode
  BY <1>0, <1>a DEF Phone!PhoneTypeOK
<1>1. CASE Phone!running /\ Phone!Build([built EXCEPT !.noise = m]) /\ UNCHANGED pendingNoise
           /\ change' = [change EXCEPT ![c] = [pc |-> "restart", relays |-> None]]
  <2>1. kit = "running" /\ kit' = "starting" /\ gen' \in 0 .. MaxNodes /\ late' = late
    BY <1>0, <1>a, <1>1 DEF Phone!running, Phone!Build, Phone!Rebuilding, Phone!PhoneTypeOK,
       Phone!PhoneConstants
  <2>2. built' = [built EXCEPT !.noise = m]
    BY <1>1 DEF Phone!Build
  <2>3. built' \in Phone!Options /\ built'.noise = m /\ built'.relays = built.relays /\ built'.mode = built.mode
    BY <2>1, <2>2, RunsSettled DEF Phone!Options
  <2>4. PICK mine \in Phone!Pending(Relays) \cup {None} : mine = None
    OBVIOUS
  <2> QED BY <1>a, <1>b, <1>c, <1>1, <2>1, <2>3, <2>4, RebuildKeeps
<1>2. CASE ~Phone!running /\ pendingNoise' = [value |-> m, n |-> changes']
             /\ UNCHANGED <<kit, gen, built, change>>
  <2>1. pendingNoise' \in Phone!Pending(Modes) /\ pendingNoise' # None /\ pendingNoise'.value = m
          /\ pendingNoise'.n = changes'
    BY <1>b, <1>2, NoOptionsIsNone DEF Phone!Pending
  <2>2. Phone!PhoneTypeOK'
    BY <1>0, <1>a, <1>b, <1>c, <1>2, <2>1 DEF Phone!PhoneTypeOK, Phone!Rebuilding
  <2>3. Phases' /\ ReadersAreEarly' /\ Restarting' = Restarting
    BY <1>0, <1>a, <1>2 DEF Phases, ReadersAreEarly, Restarting
  <2>4. OptionsAreKnown' /\ Known' = Known
    BY <1>0, <1>a, <1>2 DEF OptionsAreKnown, Known
  <2>5. Numbered'
    BY <1>0, <1>a, <1>b, <1>2, <2>1 DEF Numbered, Old, Phone!PhoneTypeOK, Phone!Pending, Phone!Boots,
       Phone!Changes
  <2>6. pendingNoise' # boot.noise
    <3> SUFFICES ASSUME boot.noise = pendingNoise' PROVE FALSE
      OBVIOUS
    <3>1. boot.noise.n = changes' /\ boot.noise.n <= changes
      BY <1>0, <2>1 DEF Numbered, Old
    <3> QED BY <1>b, <3>1
  <2>7. (late \/ Settled)'
    <3>1. SUFFICES ASSUME ~late, ~Phone!Rebuilding PROVE Settled'
      BY <1>a
    <3>2. Restarting = {} /\ Settled /\ ~(kit = "starting" /\ boot.pc = "late")
      BY <1>0, <3>1 DEF Phases, Phone!Rebuilding, Restarting
    <3>3. kit = "stopped" \/ (kit = "starting" /\ boot.pc = "starting")
      BY <1>0, <1>2, <3>1 DEF Phone!PhoneTypeOK, Phone!Rebuilding, Phone!running
    <3>4. AskedNext'
      BY <1>a, <1>c, <2>1, <2>4, <2>6, <3>2, <3>3 DEF AskedNext, Settled, Starting
    <3>5. HooksClear' /\ Starting'
      BY <1>a, <1>2, <2>1, <2>4, <3>2, <3>4 DEF HooksClear, Settled, Starting
    <3> QED BY <1>a, <1>c, <1>2, <2>3, <3>1, <3>2, <3>3, <3>4, <3>5 DEF Settled
  <2> QED BY <2>2, <2>3, <2>4, <2>5, <2>7 DEF PhoneInv
<1> QED BY <1>1, <1>2 DEF Phone!setNoiseCryptoMode

LEMMA RestartFailsKeeps ==
    ASSUME Phone!PhoneConstants, PhoneInv, NEW c \in Callers, Phone!RestartFails(c)
    PROVE  PhoneInv'
<1>0. Phone!PhoneTypeOK /\ Phases /\ OptionsAreKnown /\ ReadersAreEarly /\ Numbered /\ (late \/ Settled)
  BY DEF PhoneInv
<1>a. /\ kit = "starting" /\ change[c].pc = "restart" /\ kit' = "stopped"
      /\ pendingRelays' = (IF pendingRelays = change[c].relays THEN None ELSE pendingRelays)
      /\ change' = [change EXCEPT ![c] = Phone!NoChange]
      /\ UNCHANGED <<gen, built, saved, parties, options, pendingNoise, sendMode, boot, reading, changes, late>>
  BY DEF Phone!RestartFails, Phone!Cleared
<1>b. Restarting = {c} /\ boot.pc \in {"idle", "hooks"} /\ options \in Phone!Options
  BY <1>0, <1>a DEF Phases, Restarting, Phone!PhoneTypeOK, Phone!Boots, OptionsAreKnown
<1>c. options.relays = Known.relays /\ options.noise = Known.noise
  BY <1>0, <1>a, <1>b DEF OptionsAreKnown
<1> DEFINE r == IF pendingRelays' \in {None, boot.relays} \cup {change[d].relays : d \in Callers}
                THEN options.relays ELSE asked.relays
           m == IF pendingNoise \in {None, boot.noise} THEN options.noise ELSE asked.noise
<1>d. asked' = [asked EXCEPT !.relays = r, !.noise = m] /\ r \in Relays /\ m \in Modes
  BY <1>0, <1>b DEF Phone!RestartFails, Phone!PhoneTypeOK, Phone!Options
<1>e. pendingRelays' \in {None, boot.relays} \cup {change[d].relays : d \in Callers} => r = Known.relays
  BY <1>c
<1>f. pendingNoise \in {None, boot.noise} => m = Known.noise
  BY <1>c
<1> HIDE DEF r, m
<1>g. asked' \in [relays : Relays, noise : Modes, mode : Phone!SendModes] /\ asked'.relays = r
        /\ asked'.noise = m
      /\ asked'.mode = asked.mode
  BY <1>0, <1>d DEF Phone!PhoneTypeOK
<1>h. change' \in [Callers -> Phone!Changes] /\ change'[c] = Phone!NoChange
        /\ \A d \in Callers : d # c => change'[d] = change[d]
  BY <1>0, <1>a DEF Phone!PhoneTypeOK, Phone!Changes, Phone!NoChange
<1>i. Phone!NoChange.pc = "idle" /\ Phone!NoChange.relays = None
  BY DEF Phone!NoChange
<1>1. Phone!PhoneTypeOK'
  BY <1>0, <1>a, <1>g, <1>h DEF Phone!PhoneTypeOK
<1>2. Phases' /\ ReadersAreEarly' /\ Restarting' = {}
  BY <1>0, <1>a, <1>b, <1>h, <1>i DEF Phases, ReadersAreEarly, Restarting
<1>3. OptionsAreKnown' /\ Known' = Known
  BY <1>0, <1>a, <1>b DEF OptionsAreKnown, Known
<1>4. Numbered'
  BY <1>0, <1>a, <1>h, <1>i DEF Numbered, Old
<1>5. (late \/ Settled)'
  <2>1. SUFFICES ASSUME ~late PROVE Settled'
    BY <1>a
  <2>2. /\ PendingIsUsed /\ HooksClear /\ asked.mode = sendMode
        /\ change[c].relays # None => pendingRelays \in {None, change[c].relays}
    BY <1>0, <1>b, <2>1 DEF Settled
  <2>3. pendingRelays' \in {None, boot.relays} \cup {change[d].relays : d \in Callers}
          /\ pendingNoise \in {None, boot.noise}
    BY <1>a, <2>2 DEF PendingIsUsed
  <2>4. r = Known.relays /\ m = Known.noise
    BY <1>e, <1>f, <2>3
  <2>5. pendingRelays' # None => pendingRelays'.value = Known.relays
    BY <1>0, <1>a, <1>b, <2>2, <2>3 DEF HooksClear, Phases, Restarting, Phone!NoChange, Phone!PhoneTypeOK,
       Phone!Changes
  <2>6. pendingNoise # None => boot.pc = "hooks" /\ pendingNoise = boot.noise
    BY <1>0, <1>b, <2>3 DEF Phases
  <2>7. AskedNext'
    BY <1>a, <1>3, <1>g, <2>4, <2>5, <2>6 DEF AskedNext
  <2>8. HooksClear' /\ Starting'
    BY <1>a, <1>3, <2>5 DEF HooksClear, Starting
  <2> QED BY <1>a, <1>2, <1>g, <2>2, <2>7, <2>8 DEF Settled
<1> QED BY <1>1, <1>2, <1>3, <1>4, <1>5 DEF PhoneInv

LEMMA LateEndsKeeps == ASSUME Phone!PhoneConstants, PhoneInv, Phone!LateRestartEnds PROVE PhoneInv'
<1>1. Phone!PhoneTypeOK'
  BY DEF PhoneInv, Phone!PhoneTypeOK, Phone!LateRestartEnds, Phone!Boots, Phone!Changes, Phone!NoChange,
     Phone!NotBooting
<1>2. Phases' /\ ReadersAreEarly'
  BY DEF PhoneInv, Phone!PhoneTypeOK, Phases, ReadersAreEarly, Phone!LateRestartEnds, Phone!NoChange,
     Phone!NotBooting, Restarting, Phone!Boots, Phone!Changes
<1>3. OptionsAreKnown'
  BY DEF PhoneInv, Phone!PhoneTypeOK, Phases, OptionsAreKnown, Phone!LateRestartEnds, Phone!NoChange,
     Phone!NotBooting, Restarting, Known, Phone!Changes
<1>4. Numbered'
  BY DEF PhoneInv, Phone!PhoneTypeOK, Numbered, Phone!LateRestartEnds, Phone!NoChange, Phone!NotBooting, Old,
     Phone!Pending, Phone!Boots, Phone!Changes
<1>5. (late \/ Settled)'
  BY DEF PhoneInv, Phone!PhoneTypeOK, Phases, OptionsAreKnown, Phone!LateRestartEnds, Phone!NoChange,
     Phone!NotBooting, Restarting, Settled, AskedNext, AskedRuns,
     PendingIsUsed, HooksClear, Starting, Known, Phone!Pending, Phone!Boots, Phone!Changes, Phone!Options
<1> QED BY <1>1, <1>2, <1>3, <1>4, <1>5 DEF PhoneInv

LEMMA LateHooksKeep == ASSUME Phone!PhoneConstants, PhoneInv, Phone!LateHooksEnd PROVE PhoneInv'
<1>1. Phone!PhoneTypeOK'
  BY DEF PhoneInv, Phone!PhoneTypeOK, Phone!LateHooksEnd, Phone!Cleared, Phone!Boots, Phone!Changes,
     Phone!NoChange, Phone!NotBooting
<1>2. Phases' /\ ReadersAreEarly'
  BY DEF PhoneInv, Phone!PhoneTypeOK, Phases, ReadersAreEarly, Phone!LateHooksEnd, Phone!Cleared,
     Phone!NoChange, Phone!NotBooting, Restarting, Phone!Boots, Phone!Changes
<1>3. OptionsAreKnown'
  BY DEF PhoneInv, Phone!PhoneTypeOK, Phases, OptionsAreKnown, Phone!LateHooksEnd, Phone!Cleared,
     Phone!NoChange, Phone!NotBooting, Restarting, Known, Phone!Changes
<1>4. Numbered'
  BY DEF PhoneInv, Phone!PhoneTypeOK, Numbered, Phone!LateHooksEnd, Phone!Cleared, Phone!NoChange,
     Phone!NotBooting, Old, Phone!Pending, Phone!Boots, Phone!Changes
<1>5. (late \/ Settled)'
  BY DEF PhoneInv, Phone!PhoneTypeOK, Phases, OptionsAreKnown, Phone!LateHooksEnd, Phone!Cleared,
     Phone!NoChange, Phone!NotBooting, Restarting, Settled, AskedNext, AskedRuns,
     PendingIsUsed, HooksClear, Starting, Known, Phone!Pending, Phone!Boots, Phone!Changes, Phone!Options
<1> QED BY <1>1, <1>2, <1>3, <1>4, <1>5 DEF PhoneInv

LEMMA StartFailsKeeps == ASSUME Phone!PhoneConstants, PhoneInv, Phone!StartFails PROVE PhoneInv'
<1>1. Phone!PhoneTypeOK'
  BY DEF PhoneInv, Phone!PhoneTypeOK, Phone!StartFails, Phone!Boots, Phone!Changes, Phone!NoChange,
     Phone!NotBooting
<1>2. Phases' /\ ReadersAreEarly'
  BY DEF PhoneInv, Phone!PhoneTypeOK, Phases, ReadersAreEarly, Phone!StartFails, Phone!NoChange,
     Phone!NotBooting, Restarting, Phone!Boots, Phone!Changes
<1>3. OptionsAreKnown'
  BY DEF PhoneInv, Phone!PhoneTypeOK, Phases, OptionsAreKnown, Phone!StartFails, Phone!NoChange,
     Phone!NotBooting, Restarting, Known, Phone!Changes
<1>4. Numbered'
  BY DEF PhoneInv, Phone!PhoneTypeOK, Numbered, Phone!StartFails, Phone!NoChange, Phone!NotBooting, Old,
     Phone!Pending, Phone!Boots, Phone!Changes
<1>5. (late \/ Settled)'
  BY DEF PhoneInv, Phone!PhoneTypeOK, Phases, OptionsAreKnown, Phone!StartFails, Phone!NoChange,
     Phone!NotBooting, Restarting, Settled, AskedNext, AskedRuns,
     PendingIsUsed, HooksClear, Starting, Known, Phone!Pending, Phone!Boots, Phone!Changes, Phone!Options
<1> QED BY <1>1, <1>2, <1>3, <1>4, <1>5 DEF PhoneInv

LEMMA StopKeeps == ASSUME Phone!PhoneConstants, PhoneInv, Phone!stop PROVE PhoneInv'
<1>1. Phone!PhoneTypeOK'
  BY DEF PhoneInv, Phone!PhoneTypeOK, Phone!stop, Phone!running, Phone!Boots, Phone!Changes, Phone!NoChange,
     Phone!NotBooting
<1>2. Phases' /\ ReadersAreEarly'
  BY DEF PhoneInv, Phone!PhoneTypeOK, Phases, ReadersAreEarly, Phone!stop, Phone!running, Phone!NoChange,
     Phone!NotBooting, Restarting, Phone!Boots, Phone!Changes
<1>3. OptionsAreKnown'
  BY DEF PhoneInv, Phone!PhoneTypeOK, Phases, OptionsAreKnown, Phone!stop, Phone!running, Phone!NoChange,
     Phone!NotBooting, Restarting, Known, Phone!Changes
<1>4. Numbered'
  BY DEF PhoneInv, Phone!PhoneTypeOK, Numbered, Phone!stop, Phone!running, Phone!NoChange, Phone!NotBooting,
     Old, Phone!Pending, Phone!Boots, Phone!Changes
<1>5. (late \/ Settled)'
  BY DEF PhoneInv, Phone!PhoneTypeOK, Phases, OptionsAreKnown, Phone!stop, Phone!running, Phone!NoChange,
     Phone!NotBooting, Restarting, Settled, AskedNext, AskedRuns,
     PendingIsUsed, HooksClear, Starting, Known, Phone!Pending, Phone!Boots, Phone!Changes, Phone!Options
<1> QED BY <1>1, <1>2, <1>3, <1>4, <1>5 DEF PhoneInv

LEMMA CrashKeeps == ASSUME Phone!PhoneConstants, PhoneInv, Phone!Crash PROVE PhoneInv'
<1>1. Phone!PhoneTypeOK'
  BY DEF PhoneInv, Phone!PhoneTypeOK, Phone!Crash, Phone!Boots, Phone!Changes, Phone!NoChange,
     Phone!NotBooting, Phone!PhoneConstants, Phone!Options
<1>2. Phases' /\ ReadersAreEarly'
  BY DEF PhoneInv, Phone!PhoneTypeOK, Phases, ReadersAreEarly, Phone!Crash, Phone!NoChange, Phone!NotBooting,
     Restarting, Phone!Boots, Phone!Changes
<1>3. OptionsAreKnown'
  BY DEF PhoneInv, Phone!PhoneTypeOK, Phases, OptionsAreKnown, Phone!Crash, Phone!NoChange, Phone!NotBooting,
     Restarting, Known, Phone!Changes
<1>4. Numbered'
  BY DEF PhoneInv, Phone!PhoneTypeOK, Numbered, Phone!Crash, Phone!NoChange, Phone!NotBooting, Old,
     Phone!Pending, Phone!Boots, Phone!Changes
<1>5. (late \/ Settled)'
  BY DEF PhoneInv, Phone!PhoneTypeOK, Phases, OptionsAreKnown, Phone!Crash, Phone!NoChange, Phone!NotBooting,
     Restarting, Settled, AskedNext, AskedRuns,
     PendingIsUsed, HooksClear, Starting, Known, Phone!Pending, Phone!Boots, Phone!Changes, Phone!Options
<1> QED BY <1>1, <1>2, <1>3, <1>4, <1>5 DEF PhoneInv

LEMMA RestartEndsKeeps ==
    ASSUME Phone!PhoneConstants, PhoneInv, NEW c \in Callers, Phone!RestartEnds(c)
    PROVE  PhoneInv'
<1>1. Phone!PhoneTypeOK'
  BY DEF PhoneInv, Phone!PhoneTypeOK, Phone!RestartEnds, Phone!Boots, Phone!Changes, Phone!NoChange,
     Phone!NotBooting
<1>2. Phases' /\ ReadersAreEarly'
  BY DEF PhoneInv, Phone!PhoneTypeOK, Phases, ReadersAreEarly, Phone!RestartEnds, Phone!NoChange,
     Phone!NotBooting, Restarting, Phone!Boots, Phone!Changes
<1>3. OptionsAreKnown'
  BY DEF PhoneInv, Phone!PhoneTypeOK, Phases, OptionsAreKnown, Phone!RestartEnds, Phone!NoChange,
     Phone!NotBooting, Restarting, Known, Phone!Changes
<1>4. Numbered'
  BY DEF PhoneInv, Phone!PhoneTypeOK, Numbered, Phone!RestartEnds, Phone!NoChange, Phone!NotBooting, Old,
     Phone!Pending, Phone!Boots, Phone!Changes
<1>5. (late \/ Settled)'
  BY DEF PhoneInv, Phone!PhoneTypeOK, Phases, OptionsAreKnown, Phone!RestartEnds, Phone!NoChange,
     Phone!NotBooting, Restarting, Settled, AskedNext, AskedRuns,
     PendingIsUsed, HooksClear, Starting, Known, Phone!Pending, Phone!Boots, Phone!Changes, Phone!Options
<1> QED BY <1>1, <1>2, <1>3, <1>4, <1>5 DEF PhoneInv

LEMMA HooksEndKeep ==
    ASSUME Phone!PhoneConstants, PhoneInv, NEW c \in Callers, Phone!HooksEnd(c)
    PROVE  PhoneInv'
<1>1. Phone!PhoneTypeOK'
  BY DEF PhoneInv, Phone!PhoneTypeOK, Phone!HooksEnd, Phone!Cleared, Phone!Boots, Phone!Changes,
     Phone!NoChange, Phone!NotBooting
<1>2. Phases' /\ ReadersAreEarly'
  BY DEF PhoneInv, Phone!PhoneTypeOK, Phases, ReadersAreEarly, Phone!HooksEnd, Phone!Cleared, Phone!NoChange,
     Phone!NotBooting, Restarting, Phone!Boots, Phone!Changes
<1>3. OptionsAreKnown'
  BY DEF PhoneInv, Phone!PhoneTypeOK, Phases, OptionsAreKnown, Phone!HooksEnd, Phone!Cleared, Phone!NoChange,
     Phone!NotBooting, Restarting, Known, Phone!Changes
<1>4. Numbered'
  BY DEF PhoneInv, Phone!PhoneTypeOK, Numbered, Phone!HooksEnd, Phone!Cleared, Phone!NoChange,
     Phone!NotBooting, Old, Phone!Pending, Phone!Boots, Phone!Changes
<1>5. (late \/ Settled)'
  BY DEF PhoneInv, Phone!PhoneTypeOK, Phases, OptionsAreKnown, Phone!HooksEnd, Phone!Cleared, Phone!NoChange,
     Phone!NotBooting, Restarting, Settled, AskedNext, AskedRuns,
     PendingIsUsed, HooksClear, Starting, Known, Phone!Pending, Phone!Boots, Phone!Changes, Phone!Options
<1> QED BY <1>1, <1>2, <1>3, <1>4, <1>5 DEF PhoneInv

LEMMA PhoneStepKeeps == ASSUME Phone!PhoneConstants, PhoneInv, [Phone!PhoneNext]_phoneVars PROVE PhoneInv'
<1>1. CASE UNCHANGED phoneVars
  BY <1>1 DEF phoneVars, PhoneInv, Phone!PhoneTypeOK, Phases, OptionsAreKnown, ReadersAreEarly, Numbered,
     Settled, Starting,
     AskedNext, AskedRuns, PendingIsUsed, HooksClear, Known, Old, Restarting
<1>2. CASE Phone!PhoneSteps
  BY <1>2, StartKeeps, StartReadsKeeps, StartEndsKeeps, LateEndsKeeps, LateHooksKeep, StartFailsKeeps,
     StopKeeps,
     ModeKeeps, RelaysKeep, NoiseKeeps, RelaysReadKeeps, RestartEndsKeeps, HooksEndKeep,
     RestartFailsKeeps DEF Phone!PhoneSteps
<1> QED BY <1>1, <1>2, CrashKeeps DEF Phone!PhoneNext

LEMMA PhoneInitInv == Phone!PhoneConstants /\ Phone!PhoneInit => PhoneInv
<1> SUFFICES ASSUME Phone!PhoneConstants, Phone!PhoneInit PROVE PhoneInv
  OBVIOUS
<1>a. Phone!NotBooting \in Phone!Boots /\ Phone!NoChange \in Phone!Changes
  BY DEF Phone!NotBooting, Phone!Boots, Phone!NoChange, Phone!Changes
<1>b. boot \in Phone!Boots /\ change \in [Callers -> Phone!Changes]
        /\ reading \in [Callers -> Relays \cup {None}]
  BY <1>a DEF Phone!PhoneInit
<1>c. asked \in [relays : Relays, noise : Modes, mode : Phone!SendModes]
  BY DEF Phone!PhoneConstants, Phone!PhoneInit, Phone!SendModes
<1>d. gen \in 0 .. MaxNodes /\ changes \in 0 .. MaxChanges /\ parties \in Nat
  BY DEF Phone!PhoneConstants, Phone!PhoneInit
<1>e. /\ built = None /\ saved = None /\ options = None /\ pendingRelays = None /\ pendingNoise = None
      /\ kit = "stopped" /\ sendMode \in Phone!SendModes /\ late \in BOOLEAN
  BY DEF Phone!PhoneInit, Phone!SendModes
<1>1. Phone!PhoneTypeOK
  BY <1>b, <1>c, <1>d, <1>e DEF Phone!PhoneTypeOK
<1>2. Phases /\ ReadersAreEarly /\ Numbered
  BY DEF Phone!PhoneInit, Phases, ReadersAreEarly, Numbered, Old, Phone!NotBooting, Phone!NoChange, Restarting
<1>3. OptionsAreKnown
  BY DEF Phone!PhoneInit, OptionsAreKnown, Phone!NotBooting, Phone!NoChange
<1>4. Settled
  BY DEF Phone!PhoneInit, Settled, Starting, AskedNext, HooksClear, Phone!NotBooting, Phone!NoChange,
     Restarting, Known
<1> QED BY <1>1, <1>2, <1>3, <1>4 DEF PhoneInv

LEMMA InUse == PhoneInv => Phone!SettingsAreInUse
<1> SUFFICES ASSUME PhoneInv, Phone!running, boot.pc = "idle", ~late,
                    \A c \in Callers : change[c].pc = "idle" /\ reading[c] = None
             PROVE  /\ pendingRelays = None /\ pendingNoise = None
                    /\ [relays |-> built.relays, noise |-> built.noise, mode |-> built.mode] = asked
  BY DEF Phone!SettingsAreInUse
<1>1. AskedRuns /\ PendingIsUsed /\ asked.mode = built.mode
  BY DEF PhoneInv, Settled, Phone!running
<1>2. boot.relays = None /\ boot.noise = None /\ \A c \in Callers : change[c].relays = None
  BY DEF PhoneInv, Phases, Phone!NoChange
<1>3. asked \in [relays : Relays, noise : Modes, mode : Phone!SendModes]
  BY DEF PhoneInv, Phone!PhoneTypeOK
<1> QED BY <1>1, <1>2, <1>3 DEF AskedRuns, PendingIsUsed

(* However settings change, starts and rebuilds fail and the process dies. *)
LEMMA SettingsInUseAlone ==
    ASSUME Phone!PhoneConstants
    PROVE  Phone!PhoneInit /\ [][Phone!PhoneNext]_phoneVars => []Phone!SettingsAreInUse
<1> QED BY PhoneInitInv, PhoneStepKeeps, InUse, PTL

-----------------------------------------------------------------------------
(***************************************************************************)
(* AppSettings.                                                            *)
(* ChoicesAreKept, for any preferences, relays and number of changes.  The *)
(* inductive invariant holds at every time what ChoicesAreKept says of     *)
(* rest: the relays set last, applied or not, are those wanted.            *)
(***************************************************************************)
AskedSets == [patch : Choices!Patches, at : {"reading", "saving"}, copy : Choices!Prefs]

(* A change of relays changes no preference.                                *)
OneKind == {k \in AskedSets : k.patch.given => k.patch.field = {}}

ChoicesInv ==
    /\ {prefs, chose, settingsPane} \subseteq Choices!Prefs /\ setCalls \in Seq(OneKind)
    /\ offer \in [Offered -> [at : {"closed", "open", "reading", "read"}, found : SUBSET Offered]]
    /\ {nodeRelays, listed, wanted} \subseteq SUBSET Offered /\ relaysApplying \in Seq(SUBSET Offered)
    /\ overwritten \/ (prefs = chose /\ settingsPane = prefs)
    /\ Choices!RelaysUsed = wanted \/ crossed \/ refused

LEMMA UsedAreRelays == ChoicesInv => Choices!RelaysUsed \in SUBSET Offered
<1> SUFFICES ASSUME ChoicesInv PROVE Choices!RelaysUsed \in SUBSET Offered
  OBVIOUS
<1>1. relaysApplying \in Seq(SUBSET Offered) /\ nodeRelays \in SUBSET Offered
  BY DEF ChoicesInv
<1>2. CASE relaysApplying = <<>>
  BY <1>1, <1>2 DEF Choices!RelaysUsed
<1>3. CASE relaysApplying # <<>>
  <2>1. Len(relaysApplying) \in 1 .. Len(relaysApplying)
    BY <1>1, <1>3, EmptySeq
  <2> QED BY <1>1, <1>3, <2>1, ElementOfSeq DEF Choices!RelaysUsed
<1> QED BY <1>2, <1>3

LEMMA WithoutType ==
    ASSUME NEW S, NEW seq \in Seq(S), NEW i \in DOMAIN seq PROVE Choices!Without(seq, i) \in Seq(S)
<1>1. i \in 1 .. Len(seq) /\ Len(seq) \in Nat
  OBVIOUS
<1>2. SubSeq(seq, 1, i - 1) \in Seq(S)
  BY <1>1, SubSeqProperties
<1>3. SubSeq(seq, i + 1, Len(seq)) \in Seq(S)
  BY <1>1, SubSeqProperties
<1> QED BY <1>2, <1>3, ConcatProperties DEF Choices!Without

LEMMA CallsType ==
    ASSUME ChoicesInv, NEW patch \in Choices!Patches, patch.given => patch.field = {}, Choices!Calls(patch)
    PROVE  setCalls' \in Seq(OneKind)
<1> DEFINE asks == [patch |-> patch, at |-> "reading", copy |-> prefs]
<1>1. asks \in AskedSets
  BY DEF AskedSets, ChoicesInv
<1>2. asks \in OneKind
  BY <1>1 DEF OneKind
<1> HIDE DEF asks
<1>3. setCalls' = Append(setCalls, asks)
  BY DEF Choices!Calls, asks
<1> QED BY <1>2, <1>3, AppendProperties DEF ChoicesInv

(* Screens change no preference and no relay. *)
LEMMA ScreenKeeps ==
    ASSUME ChoicesInv, setCalls' \in Seq(OneKind),
           offer' \in [Offered -> [at : {"closed", "open", "reading", "read"}, found : SUBSET Offered]],
           listed' \in SUBSET Offered,
           UNCHANGED <<prefs, settingsPane, chose, overwritten, nodeRelays, relaysApplying, wanted, crossed,
              refused>>
    PROVE  ChoicesInv'
BY DEF ChoicesInv, Choices!RelaysUsed

LEMMA OfferKeeps ==
    ASSUME ChoicesInv, NEW r \in Offered,
           Choices!OpenOffer(r) \/ Choices!Decline(r) \/ Choices!Accept(r) \/ Choices!AcceptReads(r)
    PROVE  ChoicesInv'
<1>1. Choices!RelaysUsed \in SUBSET Offered
  BY UsedAreRelays
<1>2. UNCHANGED <<Choices!prefVars, setCalls, sets, Choices!relayVars>>
  BY DEF Choices!OpenOffer, Choices!Decline, Choices!Accept, Choices!AcceptReads
<1>3. offer \in [Offered -> [at : {"closed", "open", "reading", "read"}, found : SUBSET Offered]]
  BY DEF ChoicesInv
<1>4. offer' \in [Offered -> [at : {"closed", "open", "reading", "read"}, found : SUBSET Offered]]
  BY <1>1, <1>3 DEF Choices!OpenOffer, Choices!Decline, Choices!Accept, Choices!AcceptReads
<1> QED BY <1>2, <1>4, ScreenKeeps DEF Choices!prefVars, Choices!relayVars, ChoicesInv

LEMMA NowhereIsPatch ==
    /\ Choices!Nowhere \in Choices!Patches
    /\ \A f \in Fields, value \in BOOLEAN :
          /\ [Choices!Nowhere EXCEPT !.field = {f}, !.value = value] \in Choices!Patches
          /\ [Choices!Nowhere EXCEPT !.field = {f}, !.value = value].given = FALSE
    /\ \A base \in SUBSET Offered, new \in SUBSET Offered :
          /\ [Choices!Nowhere EXCEPT !.base = base, !.relays = new, !.given = TRUE] \in Choices!Patches
          /\ [Choices!Nowhere EXCEPT !.base = base, !.relays = new, !.given = TRUE].field = {}
BY DEF Choices!Nowhere, Choices!Patches

LEMMA SetsKeep ==
    ASSUME ChoicesInv, NEW r \in Offered, Choices!AcceptSets(r) \/ Choices!Drop(r) PROVE ChoicesInv'
<1>1. CASE Choices!AcceptSets(r)
  <2>1. offer[r].found \in SUBSET Offered /\ offer[r].found \cup {r} \in SUBSET Offered
    BY DEF ChoicesInv
  <2>2. setCalls' \in Seq(OneKind)
    BY <1>1, <2>1, CallsType, NowhereIsPatch DEF Choices!AcceptSets
  <2>3. offer' \in [Offered -> [at : {"closed", "open", "reading", "read"}, found : SUBSET Offered]]
    BY <1>1 DEF Choices!AcceptSets, ChoicesInv
  <2> QED BY <1>1, <2>2, <2>3, ScreenKeeps DEF Choices!AcceptSets, Choices!prefVars, Choices!relayVars,
             ChoicesInv
<1>2. CASE Choices!Drop(r)
  <2>1. listed \in SUBSET Offered /\ listed \ {r} \in SUBSET Offered
    BY DEF ChoicesInv
  <2>2. setCalls' \in Seq(OneKind)
    BY <1>2, <2>1, CallsType, NowhereIsPatch DEF Choices!Drop
  <2> QED BY <1>2, <2>2, ScreenKeeps DEF Choices!Drop, Choices!prefVars, Choices!relayVars, ChoicesInv
<1> QED BY <1>1, <1>2

LEMMA PatchKeeps ==
    ASSUME ChoicesInv, NEW f \in Fields, NEW value \in BOOLEAN, Choices!Patch(f, value) PROVE ChoicesInv'
<1>1. setCalls' \in Seq(OneKind)
  BY CallsType, NowhereIsPatch DEF Choices!Patch
<1> QED BY <1>1, ScreenKeeps DEF Choices!Patch, Choices!prefVars, Choices!relayVars, ChoicesInv

LEMMA ListKeeps == ASSUME ChoicesInv, Choices!ListReads PROVE ChoicesInv'
BY UsedAreRelays, ScreenKeeps DEF Choices!ListReads, Choices!prefVars, ChoicesInv

LEMMA SetReadsKeep == ASSUME ChoicesInv, NEW i \in DOMAIN setCalls, Choices!SetReads(i) PROVE ChoicesInv'
<1>1. setCalls \in Seq(OneKind) /\ prefs \in Choices!Prefs
  BY DEF ChoicesInv
<1>2. setCalls[i] \in OneKind
  BY <1>1, ElementOfSeq
<1> DEFINE reads == [setCalls[i] EXCEPT !.at = "saving", !.copy = prefs]
<1>3. reads \in OneKind
  BY <1>1, <1>2 DEF OneKind, AskedSets
<1>4. setCalls' = [setCalls EXCEPT ![i] = reads]
  BY <1>1 DEF Choices!SetReads
<1> HIDE DEF reads
<1>5. setCalls' \in Seq(OneKind)
  BY <1>1, <1>3, <1>4, ExceptSeq
<1> QED BY <1>5, ScreenKeeps DEF Choices!SetReads, Choices!prefVars, Choices!relayVars, ChoicesInv

LEMMA SetFailsKeep == ASSUME ChoicesInv, NEW i \in DOMAIN setCalls, Choices!SetFails(i) PROVE ChoicesInv'
<1>1. setCalls' \in Seq(OneKind)
  BY WithoutType DEF Choices!SetFails, ChoicesInv
<1> QED BY <1>1, ScreenKeeps DEF Choices!SetFails, Choices!prefVars, Choices!relayVars, ChoicesInv

(* Those last set are the next ones, and are wanted. *)
LEMMA AppliesKeeps ==
    ASSUME ChoicesInv, NEW patch \in Choices!Patches, Choices!Applies(patch), UNCHANGED <<nodeRelays,
           refused>>
    PROVE  /\ relaysApplying' \in Seq(SUBSET Offered) /\ wanted' \in SUBSET Offered
           /\ Choices!RelaysUsed' = wanted' \/ crossed' \/ refused'
<1>0. /\ relaysApplying \in Seq(SUBSET Offered) /\ wanted \in SUBSET Offered /\ nodeRelays \in SUBSET Offered
      /\ Choices!RelaysUsed = wanted \/ crossed \/ refused
  BY DEF ChoicesInv
<1>1. CASE ~patch.given
  BY <1>0, <1>1 DEF Choices!Applies, Choices!RelaysUsed
<1>2. CASE patch.given
  <2>0. /\ relaysApplying' = IF patch.relays = Choices!RelaysUsed THEN relaysApplying
                                ELSE Append(relaysApplying, patch.relays)
        /\ wanted' = (wanted \ (patch.base \ patch.relays)) \cup (patch.relays \ patch.base)
        /\ crossed' = (crossed \/ patch.base # Choices!RelaysUsed)
        /\ patch.base \in SUBSET Offered /\ patch.relays \in SUBSET Offered
    BY <1>2 DEF Choices!Applies, Choices!Patches
  <2>1. relaysApplying' \in Seq(SUBSET Offered)
    BY <1>0, <2>0, AppendProperties
  <2>2. Choices!RelaysUsed' = patch.relays
    <3>1. CASE patch.relays = Choices!RelaysUsed
      BY <2>0, <3>1 DEF Choices!RelaysUsed
    <3>2. CASE patch.relays # Choices!RelaysUsed
      <4>1. relaysApplying' # <<>> /\ relaysApplying'[Len(relaysApplying')] = patch.relays
        BY <1>0, <2>0, <3>2, AppendProperties
      <4> QED BY <4>1 DEF Choices!RelaysUsed
    <3> QED BY <3>1, <3>2
  <2>3. wanted = patch.base => wanted' = patch.relays
    BY <2>0
  <2>4. wanted' \in SUBSET Offered
    BY <1>0, <2>0
  <2> QED BY <1>0, <2>0, <2>1, <2>2, <2>3, <2>4
<1> QED BY <1>1, <1>2

LEMMA SetSavesKeep == ASSUME ChoicesInv, NEW i \in DOMAIN setCalls, Choices!SetSaves(i) PROVE ChoicesInv'
<1>1. setCalls \in Seq(OneKind) /\ {prefs, chose, settingsPane} \subseteq Choices!Prefs
  BY DEF ChoicesInv
<1>2. setCalls[i] \in OneKind
  BY <1>1, ElementOfSeq
<1>3. PICK patch \in Choices!Patches : patch = setCalls[i].patch
  BY <1>2 DEF OneKind, AskedSets
<1> DEFINE Changed(old) == [f \in Fields |-> IF f \in patch.field THEN patch.value ELSE old[f]]
<1>4. /\ prefs' = Changed(setCalls[i].copy) /\ chose' = Changed(chose)
      /\ overwritten' = (overwritten \/ setCalls[i].copy # prefs)
      /\ settingsPane' = IF patch.given THEN settingsPane ELSE prefs'
      /\ Choices!Applies(patch) /\ UNCHANGED <<offer, nodeRelays, listed, refused>>
  BY <1>3 DEF Choices!SetSaves
<1>5. patch.value \in BOOLEAN /\ (patch.given => patch.field = {}) /\ setCalls[i].copy \in Choices!Prefs
  BY <1>2, <1>3 DEF OneKind, AskedSets, Choices!Patches
<1>6. \A old \in Choices!Prefs : Changed(old) \in Choices!Prefs /\ (patch.given => Changed(old) = old)
  BY <1>5 DEF Choices!Prefs
<1> HIDE DEF Changed
<1>7. {prefs, chose, settingsPane}' \subseteq Choices!Prefs
  BY <1>1, <1>4, <1>5, <1>6
<1>8. (overwritten \/ (prefs = chose /\ settingsPane = prefs))'
  BY <1>1, <1>4, <1>5, <1>6 DEF ChoicesInv
<1>9. setCalls' \in Seq(OneKind)
  BY <1>1, WithoutType DEF Choices!SetSaves
<1>10. /\ relaysApplying' \in Seq(SUBSET Offered) /\ wanted' \in SUBSET Offered
       /\ Choices!RelaysUsed' = wanted' \/ crossed' \/ refused'
  BY <1>4, AppliesKeeps
<1> QED BY <1>4, <1>7, <1>8, <1>9, <1>10 DEF ChoicesInv

LEMMA RelaysAppliedKeep ==
    ASSUME ChoicesInv, NEW rebuilt \in BOOLEAN, Choices!Applied(rebuilt)
    PROVE  ChoicesInv'
<1>1. /\ relaysApplying \in Seq(SUBSET Offered) /\ relaysApplying # <<>> /\ nodeRelays \in SUBSET Offered
      /\ relaysApplying' = Tail(relaysApplying)
         /\ nodeRelays' = (IF rebuilt THEN Head(relaysApplying) ELSE nodeRelays)
      /\ refused' = (refused \/ ~rebuilt)
         /\ UNCHANGED <<Choices!prefVars, setCalls, offer, listed, wanted, crossed>>
  BY DEF Choices!Applied, ChoicesInv
<1>2. /\ Head(relaysApplying) \in SUBSET Offered /\ Head(relaysApplying) = relaysApplying[1]
         /\ Len(relaysApplying) \in Nat \ {0}
      /\ Tail(relaysApplying) \in Seq(SUBSET Offered) /\ Len(Tail(relaysApplying)) = Len(relaysApplying) - 1
      /\ \A j \in 1 .. Len(Tail(relaysApplying)) : Tail(relaysApplying)[j] = relaysApplying[j + 1]
  BY <1>1, HeadTailProperties, EmptySeq
<1>3. PICK rest \in Seq(SUBSET Offered) :
          rest = Tail(relaysApplying) /\ Len(rest) = Len(relaysApplying) - 1
          /\ \A j \in 1 .. Len(rest) : rest[j] = relaysApplying[j + 1]
  BY <1>2
<1>4. rest = <<>> <=> Len(rest) = 0
  BY EmptySeq
<1>5. rebuilt => Choices!RelaysUsed' = Choices!RelaysUsed
  <2>1. CASE Len(relaysApplying) = 1
    BY <1>1, <1>2, <1>3, <1>4, <2>1 DEF Choices!RelaysUsed
  <2>2. CASE Len(relaysApplying) # 1
    <3>1. Len(rest) \in 1 .. Len(rest) /\ Len(rest) + 1 = Len(relaysApplying)
      BY <1>2, <1>3, <2>2
    <3>2. rest # <<>> /\ rest[Len(rest)] = relaysApplying[Len(relaysApplying)]
      BY <1>3, <1>4, <3>1
    <3> QED BY <1>1, <1>3, <3>2 DEF Choices!RelaysUsed
  <2> QED BY <2>1, <2>2
<1> QED BY <1>1, <1>2, <1>5 DEF ChoicesInv, Choices!prefVars

LEMMA SettingsStepKeeps == ASSUME ChoicesInv, [Choices!AppSettingsNext]_settingsVars PROVE ChoicesInv'
<1>1. CASE UNCHANGED settingsVars
  BY <1>1 DEF settingsVars, ChoicesInv, Choices!RelaysUsed
<1> QED BY <1>1, ListKeeps, PatchKeeps, OfferKeeps, SetsKeep, SetReadsKeep, SetSavesKeep, SetFailsKeep,
           RelaysAppliedKeep DEF Choices!AppSettingsNext

LEMMA SettingsInitInv == Choices!AppSettingsInit => ChoicesInv
BY DEF Choices!AppSettingsInit, ChoicesInv, Choices!RelaysUsed, Choices!Prefs

LEMMA ChoicesKept == ChoicesInv => Choices!ChoicesAreKept
BY DEF ChoicesInv, Choices!ChoicesAreKept, Choices!RelaysUsed

(* However many changes are under way at once, and whether the node is rebuilt or not. *)
LEMMA ChoicesKeptAlone ==
    Choices!AppSettingsInit /\ [][Choices!AppSettingsNext]_settingsVars => []Choices!ChoicesAreKept
BY SettingsInitInv, SettingsStepKeeps, ChoicesKept, PTL

-----------------------------------------------------------------------------
(***************************************************************************)
(* Relaying.                                                               *)
(* RelaysAreNamed, for any hosts, peers and processes.  The inductive      *)
(* invariant adds that the list printed last is of the relays saved now,   *)
(* and where each process stands to the file: one that opened it has its   *)
(* party and, unless another saved since, its contents; one that makes it  *)
(* finds none.                                                             *)
(***************************************************************************)
Wherever == [pc : {"lookup", "dial", "resolved"}, form : Adding!Forms, host : RelayHosts,
   peer : Peers \cup {Adding!NoPeer}]

CommandInv ==
    /\ savedRelays \in Seq(Adding!Addresses) /\ printedRelays \in Seq(Adding!Addresses)
    /\ adding = Adding!NotAdding \/ (adding \in Wherever /\ (adding.pc = "resolved" => adding.peer \in Peers))
    /\ printedRelays = <<>> \/ printedRelays = Adding!relays
    /\ Adding!OneEntryPerRelay /\ Adding!RemovedIsPrinted

EachOnce(list) == \A k, l \in DOMAIN list : list[k].peer = list[l].peer => k = l

(* What is left of the saved relays is them, each once more, in their order. *)
LEMMA WithoutKeeps ==
    ASSUME savedRelays \in Seq(Adding!Addresses), NEW target
    PROVE  /\ Adding!Without(target) \in Seq(Adding!Addresses)
           /\ Adding!OneEntryPerRelay => EachOnce(Adding!Without(target))
<1> DEFINE kept == {row \in DOMAIN savedRelays : savedRelays[row] # target}
           rank(row) == Cardinality(kept \cap 1 .. row)
           nth(k) == CHOOSE row \in kept : rank(row) = k
<1>1. Adding!Without(target) = [k \in 1 .. Cardinality(kept) |-> savedRelays[nth(k)]]
  BY DEF Adding!Without, Adding!Cardinality, Cardinality
<1>2. kept \subseteq 1 .. Len(savedRelays) /\ IsFiniteSet(kept) /\ Cardinality(kept) \in Nat
  <2>1. DOMAIN savedRelays = 1 .. Len(savedRelays) /\ Len(savedRelays) \in Nat
    OBVIOUS
  <2>2. IsFiniteSet(1 .. Len(savedRelays))
    BY <2>1, FS_Interval
  <2> QED BY <2>1, <2>2, FS_Subset, FS_CardinalityType
<1>3. ASSUME NEW row \in kept PROVE rank(row) \in 1 .. Cardinality(kept)
  <2>1. IsFiniteSet(kept \cap 1 .. row) /\ rank(row) <= Cardinality(kept)
    BY <1>2, FS_Subset, kept \cap 1 .. row \in SUBSET kept
  <2>2. rank(row) \in Nat
    BY <2>1, FS_CardinalityType
  <2>3. row \in kept \cap 1 .. row
    BY <1>2
  <2>4. rank(row) # 0
    BY <2>1, <2>3, FS_EmptySet
  <2> QED BY <1>2, <2>1, <2>2, <2>4
<1>4. ASSUME NEW a \in kept, NEW b \in kept, a < b PROVE rank(a) # rank(b)
  <2>1. a \in Nat /\ b \in Nat
    BY <1>2
  <2>2. IsFiniteSet(kept \cap 1 .. b)
    BY <1>2, FS_Subset, kept \cap 1 .. b \in SUBSET kept
  <2>3. kept \cap 1 .. a \in SUBSET (kept \cap 1 .. b)
    BY <1>4, <2>1
  <2>4. b \in kept \cap 1 .. b /\ b \notin kept \cap 1 .. a
    BY <1>2, <1>4, <2>1
  <2> HIDE DEF kept
  <2> QED BY <2>2, <2>3, <2>4, FS_Subset
<1>5. ASSUME NEW k \in 1 .. Cardinality(kept) PROVE nth(k) \in kept /\ rank(nth(k)) = k
  <2> DEFINE f == [row \in kept |-> rank(row)]
             N == 1 .. Cardinality(kept)
  <2> HIDE DEF kept, rank, nth
  <2>1. f \in [kept -> N]
    BY <1>3
  <2>2. \A a, b \in kept : f[a] = f[b] => a = b
    <3> SUFFICES ASSUME NEW a \in kept, NEW b \in kept, rank(a) = rank(b) PROVE a = b
      OBVIOUS
    <3>1. a \in Nat /\ b \in Nat
      BY <1>2
    <3> QED BY <1>4, <3>1
  <2>3. IsFiniteSet(N) /\ Cardinality(N) = Cardinality(kept)
    BY <1>2, FS_Interval
  <2>4. f \in Injection(kept, N)
    BY <2>1, <2>2 DEF Injection, IsInjective
  <2>5. f \in Surjection(kept, N)
    BY <2>3, <2>4, FS_Injection
  <2>6. PICK row \in kept : f[row] = k
    BY <2>5 DEF Surjection
  <2>7. \E row2 \in kept : rank(row2) = k
    BY <2>6
  <2> QED BY <2>7 DEF nth
<1> HIDE DEF kept, rank, nth
<1>6. ASSUME NEW k \in 1 .. Cardinality(kept) PROVE savedRelays[nth(k)] \in Adding!Addresses
  <2>1. nth(k) \in DOMAIN savedRelays
    BY <1>5 DEF kept
  <2> QED BY <2>1, ElementOfSeq
<1>7. Adding!Without(target) \in Seq(Adding!Addresses)
  BY <1>1, <1>2, <1>6
<1>8. ASSUME Adding!OneEntryPerRelay, NEW k \in DOMAIN Adding!Without(target),
             NEW l \in DOMAIN Adding!Without(target),
             Adding!Without(target)[k].peer = Adding!Without(target)[l].peer
      PROVE  k = l
  <2>1. k \in 1 .. Cardinality(kept) /\ l \in 1 .. Cardinality(kept)
    BY <1>1
  <2>2. savedRelays[nth(k)].peer = savedRelays[nth(l)].peer
    BY <1>1, <1>8, <2>1
  <2>3. nth(k) \in DOMAIN savedRelays /\ nth(l) \in DOMAIN savedRelays
    BY <1>5, <2>1 DEF kept
  <2>4. nth(k) = nth(l)
    BY <1>8, <2>2, <2>3 DEF Adding!OneEntryPerRelay
  <2> QED BY <1>5, <2>1, <2>4
<1> QED BY <1>7, <1>8 DEF EachOnce

(* Where the relays are saved, the list is printed. *)
LEMMA ApplyKeeps ==
    ASSUME Adding!RelayingConstants, CommandInv, NEW next \in Seq(Adding!Addresses), Adding!Apply(next),
           EachOnce(next)
    PROVE  /\ savedRelays' \in Seq(Adding!Addresses) /\ printedRelays' \in Seq(Adding!Addresses)
           /\ printedRelays' = Adding!relays' /\ Adding!OneEntryPerRelay'
<1>1. savedRelays' = next /\ printedRelays' = Adding!relays'
  BY DEF Adding!Apply
<1>2. Adding!relays' \in Seq(Adding!Addresses)
  BY <1>1, AppendProperties DEF Adding!relays, Adding!RelayingConstants
<1> QED BY <1>1, <1>2 DEF EachOnce, Adding!OneEntryPerRelay

LEMMA AddedKeeps == ASSUME Adding!RelayingConstants, CommandInv, Adding!Added PROVE CommandInv'
<1>0. savedRelays \in Seq(Adding!Addresses) /\ Adding!OneEntryPerRelay
  BY DEF CommandInv
<1>a. UNCHANGED removedRelay /\ adding' = Adding!NotAdding
  BY DEF Adding!Added
<1>b. adding.host \in RelayHosts /\ adding.peer \in Peers
  BY DEF Adding!Added, CommandInv, Adding!NotAdding, Wherever
<1>1. CASE Adding!Apply(savedRelays)
  <2>1. EachOnce(savedRelays)
    BY <1>0 DEF EachOnce, Adding!OneEntryPerRelay
  <2>2. savedRelays' \in Seq(Adding!Addresses) /\ printedRelays' \in Seq(Adding!Addresses)
          /\ printedRelays' = Adding!relays' /\ Adding!OneEntryPerRelay'
    BY <1>0, <1>1, <2>1, ApplyKeeps
  <2> QED BY <1>a, <2>2 DEF CommandInv, Adding!RemovedIsPrinted
<1>2. CASE /\ ~ \E i \in DOMAIN savedRelays : savedRelays[i].peer = adding.peer
           /\ Adding!Apply(Append(savedRelays, [host |-> adding.host, peer |-> adding.peer]))
  <2> DEFINE entry == [host |-> adding.host, peer |-> adding.peer]
             next == Append(savedRelays, entry)
  <2>1. entry \in Adding!Addresses /\ entry.peer = adding.peer
    BY <1>b DEF Adding!Addresses
  <2> HIDE DEF entry
  <2>2. /\ next \in Seq(Adding!Addresses) /\ Len(next) = Len(savedRelays) + 1 /\ Len(savedRelays) \in Nat
        /\ \A i \in 1 .. Len(savedRelays) : next[i] = savedRelays[i]
        /\ next[Len(savedRelays) + 1] = entry
    BY <1>0, <2>1, AppendProperties
  <2> HIDE DEF next
  <2>3. DOMAIN next = 1 .. Len(savedRelays) + 1 /\ DOMAIN savedRelays = 1 .. Len(savedRelays)
    BY <1>0, <2>2
  <2>4. EachOnce(next)
    <3> SUFFICES ASSUME NEW i \in DOMAIN next, NEW j \in DOMAIN next, next[i].peer = next[j].peer PROVE i = j
      BY DEF EachOnce
    <3>1. CASE i \in DOMAIN savedRelays /\ j \in DOMAIN savedRelays
      BY <1>0, <2>2, <2>3, <3>1 DEF Adding!OneEntryPerRelay
    <3>2. CASE i \notin DOMAIN savedRelays /\ j \notin DOMAIN savedRelays
      BY <2>2, <2>3, <3>2
    <3>3. CASE i \notin DOMAIN savedRelays /\ j \in DOMAIN savedRelays
      <4>1. i = Len(savedRelays) + 1
        BY <2>2, <2>3, <3>3
      <4> QED BY <1>2, <2>1, <2>2, <2>3, <3>3, <4>1
    <3>4. CASE i \in DOMAIN savedRelays /\ j \notin DOMAIN savedRelays
      <4>1. j = Len(savedRelays) + 1
        BY <2>2, <2>3, <3>4
      <4> QED BY <1>2, <2>1, <2>2, <2>3, <3>4, <4>1
    <3> QED BY <3>1, <3>2, <3>3, <3>4
  <2>5. Adding!Apply(next)
    BY <1>2 DEF next, entry, Adding!Apply
  <2> QED BY <1>a, <2>2, <2>4, <2>5, ApplyKeeps DEF CommandInv, Adding!RemovedIsPrinted
<1> QED BY <1>1, <1>2 DEF Adding!Added

LEMMA DropKeeps ==
    ASSUME Adding!RelayingConstants, CommandInv, NEW address, Adding!Drop(address),
           Adding!RemovedIsPrinted'
    PROVE  CommandInv'
<1>1. adding = Adding!NotAdding /\ Adding!Apply(Adding!Without(address)) /\ UNCHANGED adding
  BY DEF Adding!Drop
<1>2. Adding!Without(address) \in Seq(Adding!Addresses) /\ EachOnce(Adding!Without(address))
  BY WithoutKeeps DEF CommandInv
<1> QED BY <1>1, <1>2, ApplyKeeps DEF CommandInv

(* A row is of the list printed where that one is as long. *)
LEMMA RemoveRowKeeps ==
    ASSUME Adding!RelayingConstants, CommandInv, NEW row \in 1 .. MaxRelays,
           Adding!RemoveRow(row) PROVE CommandInv'
<1>1. row \in DOMAIN savedRelays /\ savedRelays \in Seq(Adding!Addresses) /\ Adding!Drop(savedRelays[row])
  BY DEF Adding!RemoveRow, CommandInv
<1>2. row \in DOMAIN printedRelays => printedRelays[row] = savedRelays[row]
  <2>1. SUFFICES ASSUME row \in DOMAIN printedRelays PROVE Adding!relays[row] = savedRelays[row]
    BY DEF CommandInv
  <2> QED BY <1>1, AppendProperties DEF Adding!relays, Adding!RelayingConstants
<1>3. Adding!RemovedIsPrinted'
  BY <1>2 DEF Adding!RemoveRow, CommandInv, Adding!RemovedIsPrinted
<1> QED BY <1>1, <1>3, DropKeeps

LEMMA CommandStepKeeps ==
    ASSUME Adding!RelayingConstants, CommandInv,
           Adding!CommandNext \/ UNCHANGED relayCommandVars
    PROVE  CommandInv'
<1>1. CASE UNCHANGED relayCommandVars
  BY <1>1 DEF relayCommandVars, CommandInv, Adding!relays, Adding!OneEntryPerRelay, Adding!RemovedIsPrinted
<1>2. ASSUME UNCHANGED <<savedRelays, printedRelays, removedRelay>>,
             adding' = Adding!NotAdding \/ (adding' \in Wherever
               /\ (adding'.pc = "resolved" => adding'.peer \in Peers))
      PROVE  CommandInv'
  BY <1>2 DEF CommandInv, Adding!relays, Adding!OneEntryPerRelay, Adding!RemovedIsPrinted
<1>3. ASSUME NEW given \in Adding!Forms, NEW host \in RelayHosts, NEW peer \in Peers,
             Adding!Add(given, host, peer)
      PROVE CommandInv'
  BY <1>2, <1>3 DEF Adding!Add, Wherever, Adding!Forms
<1>4. CASE Adding!Published \/ Adding!NotPublished \/ Adding!Learned
  <2>1. adding = Adding!NotAdding \/ adding \in Wherever
    BY DEF CommandInv
  <2>2. adding \in Wherever /\ UNCHANGED <<savedRelays, printedRelays, removedRelay>>
    <3>1. adding.pc \in {"lookup", "dial"} /\ UNCHANGED <<savedRelays, printedRelays, removedRelay>>
      BY <1>4 DEF Adding!Published, Adding!NotPublished, Adding!Learned
    <3>2. Adding!NotAdding.pc = "idle"
      BY DEF Adding!NotAdding
    <3> QED BY <2>1, <3>1, <3>2
  <2>3. ASSUME NEW host \in RelayHosts, NEW peer \in Peers,
               adding' = [adding EXCEPT !.pc = "resolved", !.host = host, !.peer = peer]
        PROVE  CommandInv'
    BY <1>2, <2>2, <2>3 DEF Wherever
  <2>4. CASE Adding!Published
    BY <2>3, <2>4 DEF Adding!Published, Adding!Addresses
  <2>5. CASE Adding!NotPublished
    BY <1>2, <2>2, <2>5 DEF Adding!NotPublished, Wherever
  <2>6. CASE Adding!Learned
    BY <1>2, <2>2, <2>6 DEF Adding!Learned, Wherever
  <2> QED BY <1>4, <2>4, <2>5, <2>6
<1>5. CASE Adding!List
  <2>1. savedRelays \in Seq(Adding!Addresses) /\ EachOnce(savedRelays)
    BY DEF CommandInv, EachOnce, Adding!OneEntryPerRelay
  <2> QED BY <1>5, <2>1, ApplyKeeps DEF Adding!List, CommandInv, Adding!RemovedIsPrinted
<1>6. ASSUME NEW address \in Adding!Addresses, Adding!RemoveAddress(address) PROVE CommandInv'
  BY <1>6, DropKeeps DEF Adding!RemoveAddress, CommandInv, Adding!RemovedIsPrinted
<1> QED BY <1>1, <1>3, <1>4, <1>5, <1>6, AddedKeeps, RemoveRowKeeps DEF Adding!CommandNext
LEMMA CommandInitInv == Adding!RelayingInit => CommandInv
<1> SUFFICES ASSUME Adding!RelayingInit PROVE CommandInv
  OBVIOUS
<1>1. savedRelays = <<>> /\ printedRelays = <<>> /\ adding = Adding!NotAdding
        /\ removedRelay = Adding!NotRemoved
  BY DEF Adding!RelayingInit
<1>2. removedRelay.address = removedRelay.printed
  BY <1>1 DEF Adding!NotRemoved
<1> QED BY <1>1, <1>2 DEF CommandInv, Adding!OneEntryPerRelay, Adding!RemovedIsPrinted

ProfileRuns == [pc : {"none", "creating", "opened", "runs"}, config : Adding!Configs]
OpenedProfiles == {p \in Runs : run[p].pc \in {"opened", "runs"}}
CreatingProfiles == {p \in Runs : run[p].pc = "creating"}

ConfigTypes ==
    /\ profileFile \in Adding!Configs /\ run \in [Runs -> ProfileRuns]
    /\ configured \in Adding!Counts /\ nodeParty \in Adding!Counts /\ lastRelays \in Adding!Counts

PartiesAreDrawn ==
    /\ \A p \in Runs : run[p].pc # "none" => run[p].config.party # 0
    /\ profileFile # Adding!NoFile => profileFile.party # 0
    /\ OpenedProfiles # {} => profileFile # Adding!NoFile
    /\ \A p \in Runs : run[p].pc = "runs" => nodeParty # 0
    /\ \A p \in CreatingProfiles : run[p].config.relays = 0

FileFollows ==
    /\ profileFile.relays = lastRelays
    /\ nodeParty # 0 => profileFile.party = nodeParty
    /\ \A p \in OpenedProfiles : run[p].config.party = profileFile.party
       /\ (p \notin behind => run[p].config = profileFile)
    /\ \A p \in CreatingProfiles \ behind : profileFile \in {Adding!NoFile, run[p].config}

ConfigInv == ConfigTypes /\ PartiesAreDrawn /\ (outrun \/ FileFollows)

LEMMA BecomesOnly ==
    ASSUME Adding!RelayingConstants, ConfigInv, NEW p \in Runs, NEW pc \in {"none", "creating", "opened",
           "runs"}, NEW config \in Adding!Configs,
           Adding!Becomes(p, pc, config)
    PROVE  /\ run' \in [Runs -> ProfileRuns] /\ run'[p].pc = pc /\ run'[p].config = config
           /\ \A q \in Runs : q # p => run'[q] = run[q]
BY DEF ConfigInv, ConfigTypes, Adding!Becomes, ProfileRuns

LEMMA OpenProfileKeeps ==
    ASSUME Adding!RelayingConstants, ConfigInv, NEW p \in Runs, Adding!openProfile(p)
    PROVE  ConfigInv'
<1>a. /\ run[p].pc = "none" /\ behind' = behind \ {p}
      /\ UNCHANGED <<profileFile, nodeParty, lastRelays, outrun>>
      /\ ConfigTypes /\ PartiesAreDrawn /\ (outrun \/ FileFollows)
  BY DEF Adding!openProfile, ConfigInv
<1>1. CASE profileFile # Adding!NoFile /\ Adding!Becomes(p, "opened", profileFile) /\ UNCHANGED configured
  <2>1. profileFile \in Adding!Configs
    BY <1>a DEF ConfigTypes
  <2>2. /\ run' \in [Runs -> ProfileRuns] /\ run'[p].pc = "opened" /\ run'[p].config = profileFile
        /\ \A q \in Runs : q # p => run'[q] = run[q]
    BY <1>1, <2>1, BecomesOnly
  <2>3. profileFile.party # 0
    BY <1>a, <1>1 DEF PartiesAreDrawn
  <2>4. ConfigTypes'
    BY <1>a, <1>1, <2>2 DEF ConfigTypes
  <2>5. PartiesAreDrawn'
    BY <1>a, <1>1, <2>2, <2>3 DEF PartiesAreDrawn, OpenedProfiles, CreatingProfiles
  <2>6. FileFollows => FileFollows'
    BY <1>a, <2>2 DEF FileFollows, OpenedProfiles, CreatingProfiles
  <2> QED BY <1>a, <2>4, <2>5, <2>6 DEF ConfigInv
<1>2. CASE /\ profileFile = Adding!NoFile /\ configured < MaxConfigured /\ configured' = configured + 1
           /\ Adding!Becomes(p, "creating", [Adding!NoFile EXCEPT !.party = configured'])
  <2> DEFINE config == [Adding!NoFile EXCEPT !.party = configured']
  <2>1. configured' \in Adding!Counts /\ configured' # 0
    BY <1>a, <1>2 DEF ConfigTypes, Adding!Counts, Adding!RelayingConstants
  <2>2. config \in Adding!Configs /\ config.party = configured' /\ config.relays = 0
    BY <2>1 DEF Adding!NoFile, Adding!Configs, Adding!Counts, Adding!RelayingConstants
  <2> HIDE DEF config
  <2>3. /\ run' \in [Runs -> ProfileRuns] /\ run'[p].pc = "creating" /\ run'[p].config = config
        /\ \A q \in Runs : q # p => run'[q] = run[q]
    <3>1. Adding!Becomes(p, "creating", config)
      BY <1>2 DEF config
    <3> QED BY <2>2, <3>1, BecomesOnly
  <2>4. ConfigTypes'
    BY <1>a, <2>1, <2>3 DEF ConfigTypes
  <2>5. PartiesAreDrawn'
    BY <1>a, <2>1, <2>2, <2>3 DEF PartiesAreDrawn, OpenedProfiles, CreatingProfiles
  <2>6. FileFollows => FileFollows'
    BY <1>a, <1>2, <2>3 DEF FileFollows, OpenedProfiles, CreatingProfiles
  <2> QED BY <1>a, <2>4, <2>5, <2>6 DEF ConfigInv
<1> QED BY <1>1, <1>2 DEF Adding!openProfile

LEMMA CreatedProfileKeeps ==
    ASSUME Adding!RelayingConstants, ConfigInv, NEW p \in Runs, Adding!Created(p)
    PROVE  ConfigInv'
<1>a. /\ run[p].pc = "creating" /\ Adding!Saves(p, run[p].config) /\ Adding!Becomes(p, "opened", run[p].config)
      /\ UNCHANGED <<configured, nodeParty, lastRelays>>
      /\ ConfigTypes /\ PartiesAreDrawn /\ (outrun \/ FileFollows)
  BY DEF Adding!Created, ConfigInv
<1>b. PICK config \in Adding!Configs : config = run[p].config
  BY <1>a DEF ConfigTypes, ProfileRuns
<1>c. /\ run' \in [Runs -> ProfileRuns] /\ run'[p].pc = "opened" /\ run'[p].config = config
      /\ \A q \in Runs : q # p => run'[q] = run[q]
  BY <1>a, <1>b, BecomesOnly
<1>d. /\ profileFile' = config
         /\ behind' = (behind \ {p}) \cup {q \in Adding!Live \ {p} : run[q].config # config}
      /\ outrun' = (outrun \/ p \in behind)
  BY <1>a, <1>b DEF Adding!Saves
<1>e. config.party # 0 /\ config.relays = 0 /\ Adding!NoFile.party = 0 /\ Adding!NoFile.relays = 0
  BY <1>a, <1>b DEF PartiesAreDrawn, CreatingProfiles, Adding!NoFile
<1>1. ConfigTypes'
  BY <1>a, <1>c, <1>d DEF ConfigTypes
<1>2. PartiesAreDrawn'
  BY <1>a, <1>c, <1>d, <1>e DEF PartiesAreDrawn, OpenedProfiles, CreatingProfiles
<1>3. (outrun \/ FileFollows)'
  <2>1. SUFFICES ASSUME ~outrun, p \notin behind PROVE FileFollows'
    BY <1>d
  <2>2. FileFollows /\ profileFile \in {Adding!NoFile, config}
    BY <1>a, <1>b, <2>1 DEF FileFollows, CreatingProfiles
  <2>3. lastRelays = 0 /\ (nodeParty # 0 => config.party = nodeParty)
    BY <1>e, <2>2 DEF FileFollows
  <2>4. ASSUME NEW q \in OpenedProfiles, q # p PROVE run[q].config.party = config.party
    BY <1>a, <1>e, <2>2 DEF FileFollows, PartiesAreDrawn
  <2>5. \A q \in Runs \ {p} : q \notin behind' => run[q].pc = "none" \/ run[q].config = config
    BY <1>d DEF Adding!Live
  <2> QED BY <1>a, <1>c, <1>d, <1>e, <2>3, <2>4, <2>5 DEF FileFollows, OpenedProfiles, CreatingProfiles
<1> QED BY <1>1, <1>2, <1>3 DEF ConfigInv

LEMMA LocksKeep ==
    ASSUME Adding!RelayingConstants, ConfigInv, NEW p \in Runs, Adding!Locks(p)
    PROVE  ConfigInv'
<1>a. /\ run[p].pc = "opened" /\ Adding!Becomes(p, "runs", run[p].config)
      /\ nodeParty' = IF nodeParty = 0 THEN run[p].config.party ELSE nodeParty
      /\ UNCHANGED <<profileFile, configured, lastRelays, behind, outrun>>
      /\ ConfigTypes /\ PartiesAreDrawn /\ (outrun \/ FileFollows)
  BY DEF Adding!Locks, ConfigInv
<1>b. PICK config \in Adding!Configs : config = run[p].config
  BY <1>a DEF ConfigTypes, ProfileRuns
<1>c. /\ run' \in [Runs -> ProfileRuns] /\ run'[p].pc = "runs" /\ run'[p].config = config
      /\ \A q \in Runs : q # p => run'[q] = run[q]
  BY <1>a, <1>b, BecomesOnly
<1>d. config.party \in Adding!Counts /\ config.party # 0
  BY <1>a, <1>b DEF PartiesAreDrawn, Adding!Configs
<1>1. ConfigTypes'
  BY <1>a, <1>b, <1>c, <1>d DEF ConfigTypes
<1>2. PartiesAreDrawn'
  BY <1>a, <1>b, <1>c, <1>d DEF PartiesAreDrawn, OpenedProfiles, CreatingProfiles
<1>3. FileFollows => FileFollows'
  BY <1>a, <1>b, <1>c DEF FileFollows, OpenedProfiles, CreatingProfiles
<1> QED BY <1>a, <1>1, <1>2, <1>3 DEF ConfigInv

LEMMA ReconfiguresKeeps ==
    ASSUME Adding!RelayingConstants, ConfigInv, NEW p \in Runs, NEW config \in Adding!Configs,
           Adding!Reconfigures(p, config),
           config.party = run[p].config.party, lastRelays' \in Adding!Counts,
           run[p].config.relays = lastRelays => config.relays = lastRelays'
    PROVE  ConfigInv'
<1>a. /\ run[p].pc = "runs" /\ configured < MaxConfigured /\ configured' = configured + 1
      /\ Adding!Saves(p, config) /\ Adding!Becomes(p, "runs", config) /\ UNCHANGED nodeParty
      /\ ConfigTypes /\ PartiesAreDrawn /\ (outrun \/ FileFollows)
  BY DEF Adding!Reconfigures, ConfigInv
<1>c. /\ run' \in [Runs -> ProfileRuns] /\ run'[p].pc = "runs" /\ run'[p].config = config
      /\ \A q \in Runs : q # p => run'[q] = run[q]
  BY <1>a, BecomesOnly
<1>d. /\ profileFile' = config
         /\ behind' = (behind \ {p}) \cup {q \in Adding!Live \ {p} : run[q].config # config}
      /\ outrun' = (outrun \/ p \in behind)
  BY <1>a DEF Adding!Saves
<1>e. config.party # 0 /\ Adding!NoFile.party = 0 /\ configured' \in Adding!Counts
  BY <1>a DEF PartiesAreDrawn, Adding!NoFile, ConfigTypes, Adding!Counts, Adding!RelayingConstants
<1>1. ConfigTypes'
  BY <1>a, <1>c, <1>d, <1>e DEF ConfigTypes
<1>2. PartiesAreDrawn'
  BY <1>a, <1>c, <1>d, <1>e DEF PartiesAreDrawn, OpenedProfiles, CreatingProfiles
<1>3. (outrun \/ FileFollows)'
  <2>1. SUFFICES ASSUME ~outrun, p \notin behind PROVE FileFollows'
    BY <1>d
  <2>2. FileFollows /\ run[p].config = profileFile
    BY <1>a, <2>1 DEF FileFollows, OpenedProfiles
  <2>3. config.relays = lastRelays' /\ (nodeParty # 0 => config.party = nodeParty)
    BY <2>2 DEF FileFollows
  <2>4. \A q \in OpenedProfiles : run[q].config.party = config.party
    BY <2>2 DEF FileFollows
  <2>5. \A q \in Runs \ {p} : q \notin behind' => run[q].pc = "none" \/ run[q].config = config
    BY <1>d DEF Adding!Live
  <2> QED BY <1>a, <1>c, <1>d, <1>e, <2>3, <2>4, <2>5 DEF FileFollows, OpenedProfiles, CreatingProfiles
<1> QED BY <1>1, <1>2, <1>3 DEF ConfigInv

LEMMA ListensKeep ==
    ASSUME Adding!RelayingConstants, ConfigInv, NEW p \in Runs, Adding!Listens(p)
    PROVE  ConfigInv'
<1> DEFINE config == [run[p].config EXCEPT !.port = configured']
<1>1. configured' \in Adding!Counts /\ lastRelays' = lastRelays /\ lastRelays \in Adding!Counts
        /\ Adding!Reconfigures(p, config)
  BY DEF Adding!Listens, Adding!Reconfigures, ConfigInv, ConfigTypes, Adding!Counts, Adding!RelayingConstants
<1>2. run[p].config \in Adding!Configs
  BY DEF ConfigInv, ConfigTypes, ProfileRuns
<1>3. config \in Adding!Configs /\ config.party = run[p].config.party /\ config.relays = run[p].config.relays
  BY <1>1, <1>2 DEF Adding!Configs
<1> QED BY <1>1, <1>3, ReconfiguresKeeps

LEMMA RelayedKeeps ==
    ASSUME Adding!RelayingConstants, ConfigInv, NEW p \in Runs, Adding!Relayed(p)
    PROVE  ConfigInv'
<1> DEFINE config == [run[p].config EXCEPT !.relays = configured']
<1>1. configured' \in Adding!Counts /\ lastRelays' = configured' /\ Adding!Reconfigures(p, config)
  BY DEF Adding!Relayed, Adding!Reconfigures, ConfigInv, ConfigTypes, Adding!Counts, Adding!RelayingConstants
<1>2. run[p].config \in Adding!Configs
  BY DEF ConfigInv, ConfigTypes, ProfileRuns
<1>3. config \in Adding!Configs /\ config.party = run[p].config.party /\ config.relays = configured'
  BY <1>1, <1>2 DEF Adding!Configs
<1> QED BY <1>1, <1>3, ReconfiguresKeeps

LEMMA EndsKeep == ASSUME Adding!RelayingConstants, ConfigInv, NEW p \in Runs, Adding!Ends(p) PROVE ConfigInv'
<1>a. /\ Adding!Becomes(p, "none", Adding!NoFile) /\ behind' = behind \ {p}
      /\ UNCHANGED <<profileFile, configured, nodeParty, lastRelays, outrun>>
      /\ ConfigTypes /\ PartiesAreDrawn /\ (outrun \/ FileFollows)
  BY DEF Adding!Ends, ConfigInv
<1>b. Adding!NoFile \in Adding!Configs
  BY DEF Adding!NoFile, Adding!Configs, Adding!Counts, Adding!RelayingConstants
<1>c. /\ run' \in [Runs -> ProfileRuns] /\ run'[p].pc = "none" /\ \A q \in Runs : q # p => run'[q] = run[q]
  BY <1>a, <1>b, BecomesOnly
<1>1. ConfigTypes'
  BY <1>a, <1>c DEF ConfigTypes
<1>2. PartiesAreDrawn'
  BY <1>a, <1>c DEF PartiesAreDrawn, OpenedProfiles, CreatingProfiles
<1>3. FileFollows => FileFollows'
  BY <1>a, <1>c DEF FileFollows, OpenedProfiles, CreatingProfiles
<1> QED BY <1>a, <1>1, <1>2, <1>3 DEF ConfigInv

LEMMA ConfigStepKeeps ==
    ASSUME Adding!RelayingConstants, ConfigInv, Adding!ConfigNext \/ UNCHANGED configVars
    PROVE  ConfigInv'
<1>1. CASE UNCHANGED configVars
  BY <1>1 DEF configVars, ConfigInv, ConfigTypes, PartiesAreDrawn, FileFollows, OpenedProfiles,
     CreatingProfiles
<1> QED BY <1>1, OpenProfileKeeps, CreatedProfileKeeps, LocksKeep, ListensKeep, RelayedKeeps, EndsKeep
           DEF Adding!ConfigNext

LEMMA ConfigInitInv == Adding!RelayingConstants /\ Adding!RelayingInit => ConfigInv
<1> SUFFICES ASSUME Adding!RelayingConstants, Adding!RelayingInit PROVE ConfigInv
  OBVIOUS
<1>1. Adding!NoFile \in Adding!Configs /\ Adding!NoFile.relays = 0 /\ Adding!NoFile.party = 0
        /\ 0 \in Adding!Counts
  BY DEF Adding!NoFile, Adding!Configs, Adding!Counts, Adding!RelayingConstants
<1>2. profileFile = Adding!NoFile /\ configured = 0 /\ nodeParty = 0 /\ lastRelays = 0
  BY DEF Adding!RelayingInit
<1>3. run \in [Runs -> ProfileRuns] /\ \A p \in Runs : run[p].pc = "none"
  BY <1>1 DEF Adding!RelayingInit, ProfileRuns
<1>4. ConfigTypes
  BY <1>1, <1>2, <1>3 DEF ConfigTypes
<1>5. PartiesAreDrawn /\ FileFollows
  BY <1>1, <1>2, <1>3 DEF PartiesAreDrawn, FileFollows, OpenedProfiles, CreatingProfiles
<1> QED BY <1>4, <1>5 DEF ConfigInv

LEMMA ConfigKept == ConfigInv => Adding!ConfigIsKept
BY DEF ConfigInv, PartiesAreDrawn, FileFollows, Adding!ConfigIsKept, OpenedProfiles

(* However relays are added and removed, and processes come and go. *)
LEMMA RelaysNamedAlone ==
    ASSUME Adding!RelayingConstants
    PROVE  Adding!RelayingInit /\ [][Adding!CommandNext]_relayCommandVars /\ [][Adding!ConfigNext]_configVars
               => []Adding!RelaysAreNamed
<1>1. CommandInv /\ [Adding!CommandNext]_relayCommandVars => CommandInv'
  BY CommandStepKeeps
<1>2. ConfigInv /\ [Adding!ConfigNext]_configVars => ConfigInv'
  BY ConfigStepKeeps
<1>3. CommandInv /\ ConfigInv => Adding!RelaysAreNamed
  BY ConfigKept DEF Adding!RelaysAreNamed, CommandInv
<1> QED BY <1>1, <1>2, <1>3, CommandInitInv, ConfigInitInv, PTL

-----------------------------------------------------------------------------
(***************************************************************************)
(* Marks.                                                                  *)
(* MarksAreRead, for any number of messages and writes and any clock.  The *)
(* inductive invariant says that the writes are followed in the order they *)
(* were made, by clocks that do not fall unless one was set back, and that *)
(* the last write of a thing is one of that thing.  What the two readings  *)
(* and a restart compute, write by write, is proved by counting up.        *)
(***************************************************************************)

(* What holds of 0, and of each number when it does of the one before, holds up to N. *)
LEMMA CountingUp ==
    ASSUME NEW N \in Nat, NEW T, 0 \in T, \A n \in 1 .. N : n - 1 \in T => n \in T
    PROVE  0 .. N \subseteq T
<1> DEFINE Missing == {n \in 0 .. N : n \notin T}
<1>1. SUFFICES ASSUME Missing # {} PROVE FALSE
  OBVIOUS
<1>2. PICK n \in Missing : \A m \in Missing : ~ (<<m, n>> \in OpToRel(<, Nat))
  <2>1. Missing \in SUBSET Nat
    OBVIOUS
  <2> HIDE DEF Missing
  <2> QED BY <1>1, <2>1, NatLessThanWellFounded, WFMin, Zenon
<1>3. n \in 1 .. N /\ n - 1 \in 0 .. N
  OBVIOUS
<1>4. n - 1 \in Missing
  BY <1>2, <1>3
<1>5. ~ (<<n - 1, n>> \in {ss \in Nat \X Nat : ss[1] < ss[2]})
  BY <1>2, <1>4 DEF OpToRel
<1> QED BY <1>3, <1>5

(* A function that takes each value from the one before it exists. *)
BuiltUp(f, A, a, step, N) == f \in [0 .. N -> A] /\ f[0] = a /\ \A n \in 1 .. N : f[n] = step[<<f[n - 1], n>>]

LEMMA FunctionExists ==
    ASSUME NEW N \in Nat, NEW A, NEW a \in A, NEW step \in [A \X (1 .. N) -> A]
    PROVE  \E f : BuiltUp(f, A, a, step, N)
<1> DEFINE T == {n \in 0 .. N : \E f : BuiltUp(f, A, a, step, n)}
<1>1. 0 \in T
  <2> DEFINE f == [i \in 0 .. 0 |-> a]
  <2>1. BuiltUp(f, A, a, step, 0)
    BY DEF BuiltUp
  <2> QED BY <2>1
<1>2. ASSUME NEW n \in 1 .. N, n - 1 \in T PROVE n \in T
  <2>1. PICK f : BuiltUp(f, A, a, step, n - 1)
    BY <1>2
  <2> DEFINE next == step[<<f[n - 1], n>>]
             g == [i \in 0 .. n |-> IF i = n THEN next ELSE f[i]]
  <2>0. f \in [0 .. n - 1 -> A] /\ f[0] = a /\ \A i \in 1 .. n - 1 : f[i] = step[<<f[i - 1], i>>]
    BY <2>1 DEF BuiltUp
  <2>2. n - 1 \in 0 .. n - 1 /\ n \in Nat /\ f[n - 1] \in A /\ 0 \in 0 .. n /\ n # 0 /\ 0 \in 0 .. n - 1
    BY <2>0
  <2>3. next \in A
    BY <2>2
  <2> HIDE DEF next
  <2>4. ASSUME NEW i \in 0 .. n PROVE g[i] \in A
    <3>1. i = n \/ i \in 0 .. n - 1
      BY <2>2
    <3> QED BY <2>0, <2>3, <3>1
  <2>5. g \in [0 .. n -> A] /\ g[0] = a
    BY <2>0, <2>2, <2>4
  <2>6. ASSUME NEW i \in 1 .. n PROVE g[i] = step[<<g[i - 1], i>>]
    <3>1. i \in 0 .. n /\ i - 1 \in 0 .. n /\ i - 1 # n /\ g[i - 1] = f[i - 1]
      BY <2>2
    <3>2. CASE i = n
      BY <3>1, <3>2 DEF next
    <3>3. CASE i # n
      <4>1. i \in 1 .. n - 1
        BY <2>2, <3>3
      <4> QED BY <2>0, <3>1, <3>3, <4>1
    <3> QED BY <3>2, <3>3
  <2> HIDE DEF g
  <2>7. BuiltUp(g, A, a, step, n)
    BY <2>5, <2>6 DEF BuiltUp
  <2> QED BY <2>7
<1> HIDE DEF T
<1>3. 0 .. N \subseteq T
  BY <1>1, <1>2, CountingUp
<1>4. N \in T
  BY <1>3
<1> QED BY <1>4 DEF T

(* What a reading has found by each write. *)
Found == Marking!Tracked \cup {Marking!NoWrite}

SeenIs(f, s, key) ==
    f = [n \in 0 .. Len(s) |->
            IF n = 0 THEN Marking!NoWrite
            ELSE IF Marking!Key(s[n]) = key THEN Marking!Later(f[n - 1], s[n]) ELSE f[n - 1]]

MarksIs(f, s) ==
    f = [n \in 0 .. Len(s) |->
            IF n = 0 THEN [key \in Marking!Keys |-> Marking!NoWrite]
            ELSE IF Marking!Key(s[n]) \in Marking!Keys
            THEN [f[n - 1] EXCEPT ![Marking!Key(s[n])] = Marking!Later(@, s[n])] ELSE f[n - 1]]

(* What a restart has kept by each write. *)
KeptIs(f, s) ==
    f = [n \in 0 .. Len(s) |->
            IF n = 0 THEN <<>>
            ELSE IF s[n].state \in {"waiting", "sending"}
            THEN Append(f[n - 1], [s[n] EXCEPT !.state = "waiting"]) ELSE f[n - 1]]

LEMMA LaterIsFound ==
    ASSUME NEW x \in Found, NEW t \in Marking!Tracked PROVE Marking!Later(x, t) \in Found
BY DEF Found, Marking!Later

LEMMA SeenExists ==
    ASSUME NEW s \in Seq(Marking!Tracked), NEW key PROVE \E f : SeenIs(f, s, key) /\ f \in [0 .. Len(s) -> Found]
<1> DEFINE N == Len(s)
           P == Found \X (1 .. N)
           step == [p \in P |-> IF Marking!Key(s[p[2]]) = key THEN Marking!Later(p[1], s[p[2]]) ELSE p[1]]
<1>1. N \in Nat /\ Marking!NoWrite \in Found /\ \A n \in 1 .. N : s[n] \in Marking!Tracked
  BY DEF Found
<1>2. \A x \in Found, n \in 1 .. N : <<x, n>> \in P
                                     /\ step[<<x, n>>] = IF Marking!Key(s[n]) = key THEN Marking!Later(x, s[n]) ELSE x
  OBVIOUS
<1>3. step \in [P -> Found]
  <2>1. ASSUME NEW p \in P PROVE (IF Marking!Key(s[p[2]]) = key THEN Marking!Later(p[1], s[p[2]]) ELSE p[1]) \in Found
    <3>1. p[1] \in Found /\ p[2] \in 1 .. N
      OBVIOUS
    <3> HIDE DEF P
    <3> QED BY <1>1, <3>1, LaterIsFound
  <2> HIDE DEF P
  <2> QED BY <2>1
<1> HIDE DEF step, N
<1>4. PICK f : BuiltUp(f, Found, Marking!NoWrite, step, N)
  BY <1>1, <1>3, FunctionExists DEF P
<1>5. f \in [0 .. N -> Found] /\ f[0] = Marking!NoWrite /\ \A n \in 1 .. N : f[n] = step[<<f[n - 1], n>>]
  BY <1>4 DEF BuiltUp
<1>6. ASSUME NEW n \in 0 .. N
      PROVE  f[n] = IF n = 0 THEN Marking!NoWrite
                    ELSE IF Marking!Key(s[n]) = key THEN Marking!Later(f[n - 1], s[n]) ELSE f[n - 1]
  <2>1. CASE n = 0
    BY <1>5, <2>1
  <2>2. CASE n # 0
    <3>1. n \in 1 .. N /\ n - 1 \in 0 .. N
      BY <1>1, <2>2
    <3>2. f[n - 1] \in Found /\ f[n] = step[<<f[n - 1], n>>]
      BY <1>5, <3>1
    <3> QED BY <1>2, <2>2, <3>1, <3>2
  <2> QED BY <2>1, <2>2
<1>7. SeenIs(f, s, key)
  <2>1. f = [n \in 0 .. N |-> f[n]]
    BY <1>5
  <2> QED BY <1>6, <2>1 DEF SeenIs, N
<1> QED BY <1>5, <1>7 DEF N

LEMMA MarksExist ==
    ASSUME NEW s \in Seq(Marking!Tracked) PROVE \E f : MarksIs(f, s) /\ f \in [0 .. Len(s) -> [Marking!Keys -> Found]]
<1> DEFINE N == Len(s)
           A == [Marking!Keys -> Found]
           P == A \X (1 .. N)
           none == [key \in Marking!Keys |-> Marking!NoWrite]
           next(x, t) == IF Marking!Key(t) \in Marking!Keys
                         THEN [x EXCEPT ![Marking!Key(t)] = Marking!Later(@, t)] ELSE x
           step == [p \in P |-> next(p[1], s[p[2]])]
<1>1. N \in Nat /\ none \in A /\ \A n \in 1 .. N : s[n] \in Marking!Tracked
  BY DEF Found
<1>2. \A x \in A, n \in 1 .. N : <<x, n>> \in P /\ step[<<x, n>>] = next(x, s[n])
  <2> HIDE DEF A, next
  <2> QED OBVIOUS
<1>3. ASSUME NEW x \in A, NEW t \in Marking!Tracked PROVE next(x, t) \in A
  <2>1. CASE Marking!Key(t) \in Marking!Keys
    <3>1. x[Marking!Key(t)] \in Found
      BY <2>1
    <3>2. Marking!Later(x[Marking!Key(t)], t) \in Found
      BY <3>1, LaterIsFound
    <3> QED BY <2>1, <3>2
  <2>2. CASE Marking!Key(t) \notin Marking!Keys
    BY <2>2
  <2> QED BY <2>1, <2>2
<1>4. step \in [P -> A]
  <2>1. ASSUME NEW p \in P PROVE next(p[1], s[p[2]]) \in A
    <3>1. p[1] \in A /\ p[2] \in 1 .. N
      <4> HIDE DEF A
      <4> QED OBVIOUS
    <3> HIDE DEF P, A, next
    <3> QED BY <1>1, <1>3, <3>1
  <2> HIDE DEF P, A, next
  <2> QED BY <2>1
<1> HIDE DEF step, N, A, none
<1>5. PICK f : BuiltUp(f, A, none, step, N)
  BY <1>1, <1>4, FunctionExists DEF P
<1>6. f \in [0 .. N -> A] /\ f[0] = none /\ \A n \in 1 .. N : f[n] = step[<<f[n - 1], n>>]
  BY <1>5 DEF BuiltUp
<1>7. ASSUME NEW n \in 0 .. N PROVE f[n] = IF n = 0 THEN none ELSE next(f[n - 1], s[n])
  <2> HIDE DEF next
  <2>1. CASE n = 0
    BY <1>6, <2>1
  <2>2. CASE n # 0
    <3>1. n \in 1 .. N /\ n - 1 \in 0 .. N
      BY <1>1, <2>2
    <3>2. f[n - 1] \in A /\ f[n] = step[<<f[n - 1], n>>]
      BY <1>6, <3>1
    <3> QED BY <1>2, <2>2, <3>1, <3>2
  <2> QED BY <2>1, <2>2
<1>8. MarksIs(f, s)
  <2>1. f = [n \in 0 .. N |-> f[n]]
    BY <1>6
  <2>2. f = [n \in 0 .. N |-> IF n = 0 THEN none ELSE next(f[n - 1], s[n])]
    <3> HIDE DEF next
    <3> QED BY <1>7, <2>1
  <2> QED BY <2>2 DEF MarksIs, N, none
<1> QED BY <1>6, <1>8 DEF N, A

LEMMA KeptExists ==
    ASSUME NEW s \in Seq(Marking!Tracked) PROVE \E f : KeptIs(f, s) /\ f \in [0 .. Len(s) -> Seq(Marking!Tracked)]
<1> DEFINE N == Len(s)
           A == Seq(Marking!Tracked)
           P == A \X (1 .. N)
           next(x, t) == IF t.state \in {"waiting", "sending"}
                         THEN Append(x, [t EXCEPT !.state = "waiting"]) ELSE x
           step == [p \in P |-> next(p[1], s[p[2]])]
<1>1. N \in Nat /\ <<>> \in A /\ \A n \in 1 .. N : s[n] \in Marking!Tracked
  OBVIOUS
<1>2. \A x \in A, n \in 1 .. N : <<x, n>> \in P /\ step[<<x, n>>] = next(x, s[n])
  <2> HIDE DEF A, next
  <2> QED OBVIOUS
<1>3. ASSUME NEW x \in A, NEW t \in Marking!Tracked PROVE next(x, t) \in A
  <2>1. [t EXCEPT !.state = "waiting"] \in Marking!Tracked
    BY DEF Marking!Tracked
  <2> QED BY <2>1
<1>4. step \in [P -> A]
  <2>1. ASSUME NEW p \in P PROVE next(p[1], s[p[2]]) \in A
    <3>1. p[1] \in A /\ p[2] \in 1 .. N
      <4> HIDE DEF A
      <4> QED OBVIOUS
    <3> HIDE DEF P, A, next
    <3> QED BY <1>1, <1>3, <3>1
  <2> HIDE DEF P, A, next
  <2> QED BY <2>1
<1> HIDE DEF step, N, A
<1>5. PICK f : BuiltUp(f, A, <<>>, step, N)
  BY <1>1, <1>4, FunctionExists DEF P
<1>6. f \in [0 .. N -> A] /\ f[0] = <<>> /\ \A n \in 1 .. N : f[n] = step[<<f[n - 1], n>>]
  BY <1>5 DEF BuiltUp
<1>7. ASSUME NEW n \in 0 .. N PROVE f[n] = IF n = 0 THEN <<>> ELSE next(f[n - 1], s[n])
  <2> HIDE DEF next
  <2>1. CASE n = 0
    BY <1>6, <2>1
  <2>2. CASE n # 0
    <3>1. n \in 1 .. N /\ n - 1 \in 0 .. N
      BY <1>1, <2>2
    <3>2. f[n - 1] \in A /\ f[n] = step[<<f[n - 1], n>>]
      BY <1>6, <3>1
    <3> QED BY <1>2, <2>2, <3>1, <3>2
  <2> QED BY <2>1, <2>2
<1>8. KeptIs(f, s)
  <2>1. f = [n \in 0 .. N |-> f[n]]
    BY <1>6
  <2>2. f = [n \in 0 .. N |-> IF n = 0 THEN <<>> ELSE next(f[n - 1], s[n])]
    <3> HIDE DEF next
    <3> QED BY <1>7, <2>1
  <2> QED BY <2>2 DEF KeptIs, N
<1> QED BY <1>6, <1>8 DEF N, A

(* The two readings, and a restart, write by write. *)
LEMMA SeenRead ==
    ASSUME byTx \in Seq(Marking!Tracked), NEW key
    PROVE  \E f \in [0 .. Len(byTx) -> Found] :
              /\ Marking!messageDelivery(key) = f[Len(byTx)] /\ f[0] = Marking!NoWrite
              /\ \A n \in 1 .. Len(byTx) :
                    f[n] = IF Marking!Key(byTx[n]) = key THEN Marking!Later(f[n - 1], byTx[n]) ELSE f[n - 1]
<1> DEFINE f == CHOOSE g : SeenIs(g, byTx, key)
<1>1. PICK g : SeenIs(g, byTx, key) /\ g \in [0 .. Len(byTx) -> Found]
  BY SeenExists
<1>2. SeenIs(f, byTx, key)
  BY <1>1
<1>3. Marking!messageDelivery(key) = f[Len(byTx)]
  BY DEF Marking!messageDelivery, SeenIs
<1> HIDE DEF f
<1>4. Len(byTx) \in Nat
  OBVIOUS
<1>5. f[0] = Marking!NoWrite
  BY <1>2, <1>4 DEF SeenIs
<1>6. ASSUME NEW n \in 1 .. Len(byTx)
      PROVE  f[n] = IF Marking!Key(byTx[n]) = key THEN Marking!Later(f[n - 1], byTx[n]) ELSE f[n - 1]
  <2>1. n \in 0 .. Len(byTx) /\ n # 0
    BY <1>4
  <2> QED BY <1>2, <2>1 DEF SeenIs
<1> DEFINE T == {n \in 0 .. Len(byTx) : f[n] \in Found}
<1>7. 0 \in T
  BY <1>4, <1>5 DEF Found
<1>8. ASSUME NEW n \in 1 .. Len(byTx), n - 1 \in T PROVE n \in T
  <2>1. f[n - 1] \in Found /\ byTx[n] \in Marking!Tracked /\ n \in 0 .. Len(byTx)
    BY <1>8, <1>4
  <2>2. Marking!Later(f[n - 1], byTx[n]) \in Found
    BY <2>1, LaterIsFound
  <2> QED BY <1>6, <2>1, <2>2
<1> HIDE DEF T
<1>9. 0 .. Len(byTx) \subseteq T
  BY <1>4, <1>7, <1>8, CountingUp
<1>10. \A n \in 0 .. Len(byTx) : f[n] \in Found
  BY <1>9 DEF T
<1>11. f = [n \in 0 .. Len(byTx) |-> f[n]]
  BY <1>2 DEF SeenIs
<1>12. f \in [0 .. Len(byTx) -> Found]
  BY <1>10, <1>11
<1> QED BY <1>3, <1>5, <1>6, <1>12

LEMMA MarksRead ==
    ASSUME byTx \in Seq(Marking!Tracked)
    PROVE  \E f \in [0 .. Len(byTx) -> [Marking!Keys -> Found]] :
              /\ Marking!deliveries = f[Len(byTx)] /\ f[0] = [key \in Marking!Keys |-> Marking!NoWrite]
              /\ \A n \in 1 .. Len(byTx), key \in Marking!Keys :
                    f[n][key] = IF Marking!Key(byTx[n]) = key THEN Marking!Later(f[n - 1][key], byTx[n])
                                                              ELSE f[n - 1][key]
<1> DEFINE f == CHOOSE g : MarksIs(g, byTx)
<1>1. PICK g : MarksIs(g, byTx) /\ g \in [0 .. Len(byTx) -> [Marking!Keys -> Found]]
  BY MarksExist
<1>2. MarksIs(f, byTx)
  BY <1>1
<1>3. Marking!deliveries = f[Len(byTx)]
  BY DEF Marking!deliveries, MarksIs
<1> HIDE DEF f
<1>4. Len(byTx) \in Nat
  OBVIOUS
<1>5. f[0] = [key \in Marking!Keys |-> Marking!NoWrite]
  BY <1>2, <1>4 DEF MarksIs
<1>6. ASSUME NEW n \in 1 .. Len(byTx)
      PROVE  f[n] = IF Marking!Key(byTx[n]) \in Marking!Keys
                    THEN [f[n - 1] EXCEPT ![Marking!Key(byTx[n])] = Marking!Later(@, byTx[n])] ELSE f[n - 1]
  <2>1. n \in 0 .. Len(byTx) /\ n # 0
    BY <1>4
  <2> QED BY <1>2, <2>1 DEF MarksIs
<1> DEFINE T == {n \in 0 .. Len(byTx) : f[n] \in [Marking!Keys -> Found]}
<1>7. 0 \in T
  BY <1>4, <1>5 DEF Found
<1>8. ASSUME NEW n \in 1 .. Len(byTx), n - 1 \in T PROVE n \in T
  <2>1. f[n - 1] \in [Marking!Keys -> Found] /\ byTx[n] \in Marking!Tracked /\ n \in 0 .. Len(byTx)
    BY <1>8, <1>4
  <2>2. CASE Marking!Key(byTx[n]) \in Marking!Keys
    <3>1. f[n - 1][Marking!Key(byTx[n])] \in Found
      BY <2>1, <2>2
    <3>2. Marking!Later(f[n - 1][Marking!Key(byTx[n])], byTx[n]) \in Found
      BY <2>1, <3>1, LaterIsFound
    <3> QED BY <1>6, <2>1, <2>2, <3>2
  <2>3. CASE Marking!Key(byTx[n]) \notin Marking!Keys
    BY <1>6, <2>1, <2>3
  <2> QED BY <2>2, <2>3
<1> HIDE DEF T
<1>9. 0 .. Len(byTx) \subseteq T
  BY <1>4, <1>7, <1>8, CountingUp
<1>10. \A n \in 0 .. Len(byTx) : f[n] \in [Marking!Keys -> Found]
  BY <1>9 DEF T
<1>11. f = [n \in 0 .. Len(byTx) |-> f[n]]
  BY <1>2 DEF MarksIs
<1>12. f \in [0 .. Len(byTx) -> [Marking!Keys -> Found]]
  <2> DEFINE M == [Marking!Keys -> Found]
  <2> HIDE DEF M
  <2>1. \A n \in 0 .. Len(byTx) : f[n] \in M
    BY <1>10 DEF M
  <2>2. f \in [0 .. Len(byTx) -> M]
    BY <1>11, <2>1
  <2> QED BY <2>2 DEF M
<1>13. ASSUME NEW n \in 1 .. Len(byTx), NEW key \in Marking!Keys
       PROVE  f[n][key] = IF Marking!Key(byTx[n]) = key THEN Marking!Later(f[n - 1][key], byTx[n]) ELSE f[n - 1][key]
  <2>1. f[n - 1] \in [Marking!Keys -> Found]
    <3>1. n - 1 \in 0 .. Len(byTx)
      BY <1>4
    <3> QED BY <1>10, <3>1
  <2> QED BY <1>6, <2>1
<1> QED BY <1>3, <1>5, <1>12, <1>13

(***************************************************************************)
(* What the readings tell.                                                 *)
(***************************************************************************)
LEMMA ReadingsAgree ==
    ASSUME byTx \in Seq(Marking!Tracked) PROVE Marking!MarksAgree
<1>1. SUFFICES ASSUME NEW key \in Marking!Keys PROVE Marking!messageDelivery(key) = Marking!deliveries[key]
  BY DEF Marking!MarksAgree
<1>2. PICK f \in [0 .. Len(byTx) -> Found] :
              /\ Marking!messageDelivery(key) = f[Len(byTx)] /\ f[0] = Marking!NoWrite
              /\ \A n \in 1 .. Len(byTx) :
                    f[n] = IF Marking!Key(byTx[n]) = key THEN Marking!Later(f[n - 1], byTx[n]) ELSE f[n - 1]
  BY SeenRead
<1>3. PICK g \in [0 .. Len(byTx) -> [Marking!Keys -> Found]] :
              /\ Marking!deliveries = g[Len(byTx)] /\ g[0] = [k \in Marking!Keys |-> Marking!NoWrite]
              /\ \A n \in 1 .. Len(byTx), k \in Marking!Keys :
                    g[n][k] = IF Marking!Key(byTx[n]) = k THEN Marking!Later(g[n - 1][k], byTx[n]) ELSE g[n - 1][k]
  BY MarksRead
<1> DEFINE T == {n \in 0 .. Len(byTx) : f[n] = g[n][key]}
<1>4. Len(byTx) \in Nat
  OBVIOUS
<1>5. 0 \in T
  BY <1>2, <1>3, <1>4
<1>6. ASSUME NEW n \in 1 .. Len(byTx), n - 1 \in T PROVE n \in T
  <2>1. f[n - 1] = g[n - 1][key] /\ n \in 0 .. Len(byTx)
    BY <1>4, <1>6
  <2>2. f[n] = g[n][key]
    BY <1>2, <1>3, <2>1
  <2> QED BY <2>1, <2>2
<1> HIDE DEF T
<1>7. 0 .. Len(byTx) \subseteq T
  BY <1>4, <1>5, <1>6, CountingUp
<1>8. Len(byTx) \in 0 .. Len(byTx)
  BY <1>4
<1>9. f[Len(byTx)] = g[Len(byTx)][key]
  BY <1>7, <1>8 DEF T
<1> QED BY <1>2, <1>3, <1>9

(* Of the writes on a thing one is read, if any there is: the last, unless a clock was set back. *)
LEMMA OneIsRead ==
    ASSUME byTx \in Seq(Marking!Tracked), NEW key \in Marking!Keys
    PROVE  \/ /\ Marking!deliveries[key] = Marking!NoWrite
              /\ \A j \in 1 .. Len(byTx) : Marking!Key(byTx[j]) # key
           \/ \E i \in 1 .. Len(byTx) :
                /\ Marking!deliveries[key] = byTx[i] /\ Marking!Key(byTx[i]) = key
                /\ (\A a, b \in 1 .. Len(byTx) : a < b => byTx[a].at <= byTx[b].at) =>
                      \A j \in 1 .. Len(byTx) : j > i => Marking!Key(byTx[j]) # key
<1>2. PICK f \in [0 .. Len(byTx) -> Found] :
              /\ Marking!messageDelivery(key) = f[Len(byTx)] /\ f[0] = Marking!NoWrite
              /\ \A n \in 1 .. Len(byTx) :
                    f[n] = IF Marking!Key(byTx[n]) = key THEN Marking!Later(f[n - 1], byTx[n]) ELSE f[n - 1]
  BY SeenRead
<1>3. Marking!deliveries[key] = f[Len(byTx)]
  BY <1>2, ReadingsAgree DEF Marking!MarksAgree
<1> DEFINE rise == \A a, b \in 1 .. Len(byTx) : a < b => byTx[a].at <= byTx[b].at
           Is(n) == \/ f[n] = Marking!NoWrite /\ \A j \in 1 .. n : Marking!Key(byTx[j]) # key
                    \/ \E i \in 1 .. n :
                          /\ f[n] = byTx[i] /\ Marking!Key(byTx[i]) = key
                          /\ rise => \A j \in 1 .. n : j > i => Marking!Key(byTx[j]) # key
           T == {n \in 0 .. Len(byTx) : Is(n)}
<1>4. Len(byTx) \in Nat
  OBVIOUS
<1>5. 0 \in T
  BY <1>2, <1>4
<1>6. ASSUME NEW n \in 1 .. Len(byTx), n - 1 \in T PROVE n \in T
  <2>1. Is(n - 1) /\ n \in 0 .. Len(byTx) /\ n \in Nat /\ n \in 1 .. n
    BY <1>4, <1>6
  <2>2. f[n] = IF Marking!Key(byTx[n]) = key THEN Marking!Later(f[n - 1], byTx[n]) ELSE f[n - 1]
    BY <1>2
  <2>3. \A j : j \in 1 .. n <=> j \in 1 .. n - 1 \/ j = n
    BY <2>1
  <2>4. CASE Marking!Key(byTx[n]) # key
    <3>1. CASE f[n - 1] = Marking!NoWrite /\ \A j \in 1 .. n - 1 : Marking!Key(byTx[j]) # key
      BY <2>1, <2>2, <2>3, <2>4, <3>1
    <3>2. ASSUME NEW i \in 1 .. n - 1, f[n - 1] = byTx[i] /\ Marking!Key(byTx[i]) = key,
                 rise => \A j \in 1 .. n - 1 : j > i => Marking!Key(byTx[j]) # key
          PROVE  Is(n)
      <4>1. i \in 1 .. n
        BY <2>3
      <4>2. rise => \A j \in 1 .. n : j > i => Marking!Key(byTx[j]) # key
        <5> HIDE DEF rise
        <5> QED BY <2>3, <2>4, <3>2
      <4> HIDE DEF rise
      <4> QED BY <2>2, <2>4, <3>2, <4>1, <4>2
    <3> QED BY <2>1, <3>1, <3>2
  <2>5. CASE Marking!Key(byTx[n]) = key
    <3>1. f[n] = byTx[n] \/ (f[n] = f[n - 1] /\ f[n - 1] # Marking!NoWrite /\ ~ (byTx[n].at >= f[n - 1].at))
      BY <2>2, <2>5 DEF Marking!Later
    <3>2. CASE f[n] = byTx[n]
      <4>1. \A j \in 1 .. n : ~ (j > n)
        BY <2>1
      <4> HIDE DEF rise
      <4>2. Is(n)
        BY <2>1, <2>5, <3>2, <4>1
      <4> QED BY <2>1, <4>2
    <3>3. CASE f[n] = f[n - 1] /\ f[n - 1] # Marking!NoWrite /\ ~ (byTx[n].at >= f[n - 1].at)
      <4>1. PICK i \in 1 .. n - 1 : f[n - 1] = byTx[i] /\ Marking!Key(byTx[i]) = key
        BY <2>1, <3>3
      <4>2. i \in 1 .. Len(byTx) /\ i < n /\ i \in 1 .. n
        BY <1>4
      <4>3. ~rise
        <5>1. byTx[i] \in Marking!Tracked /\ byTx[n] \in Marking!Tracked
          BY <4>2
        <5>2. ~ (byTx[n].at >= byTx[i].at)
          BY <3>3, <4>1
        <5>3. ~ (byTx[i].at <= byTx[n].at)
          BY <5>2
        <5> QED BY <4>2, <5>3
      <4> HIDE DEF rise
      <4>4. Is(n)
        BY <3>3, <4>1, <4>2, <4>3
      <4> QED BY <2>1, <4>4
    <3> QED BY <3>1, <3>2, <3>3
  <2> QED BY <2>1, <2>4, <2>5
<1> HIDE DEF T
<1>7. 0 .. Len(byTx) \subseteq T
  BY <1>4, <1>5, <1>6, CountingUp
<1>8. Len(byTx) \in 0 .. Len(byTx)
  BY <1>4
<1>9. Is(Len(byTx))
  BY <1>7, <1>8 DEF T
<1> QED BY <1>3, <1>9

(***************************************************************************)
(* The inductive invariant.                                                *)
(***************************************************************************)
WritesInOrder ==
    /\ \A i \in 1 .. Len(byTx) : byTx[i].tx <= writesMade /\ (turnedBack \/ byTx[i].at <= deviceClock)
    /\ \A i, j \in 1 .. Len(byTx) : i < j => byTx[i].tx < byTx[j].tx
    /\ turnedBack \/ \A i, j \in 1 .. Len(byTx) : i < j => byTx[i].at <= byTx[j].at

LastOfItsThing ==
    /\ \A key \in Marking!Keys : lastWrites[key] <= writesMade
    /\ \A i \in 1 .. Len(byTx) : Marking!Key(byTx[i]) \in Marking!Keys => byTx[i].tx <= lastWrites[Marking!Key(byTx[i])]
    /\ \A i \in 1 .. Len(byTx), key \in Marking!Keys : byTx[i].tx = lastWrites[key] => Marking!Key(byTx[i]) = key

MarksInv == Marking!MarksTypeOK /\ WritesInOrder /\ LastOfItsThing /\ Marking!WithdrawnIsMarked

SameWrite(t, u) == t.tx = u.tx /\ t.message = u.message /\ t.kind = u.kind /\ t.at = u.at

LEMMA FollowedAre ==
    ASSUME Marking!MarksConstants, byTx \in Seq(Marking!Tracked), NEW i \in 1 .. Len(byTx)
    PROVE  byTx[i] \in Marking!Tracked /\ byTx[i].tx \in Nat /\ byTx[i].at \in Nat
<1>1. byTx[i] \in Marking!Tracked
  OBVIOUS
<1>2. byTx[i].tx \in 1 .. MaxMarked /\ byTx[i].at \in 0 .. MaxClock
  BY <1>1 DEF Marking!Tracked
<1>3. MaxMarked \in Nat /\ MaxClock \in Nat
  BY DEF Marking!MarksConstants
<1> QED BY <1>1, <1>2, <1>3

LEMMA MarksInitInv == Marking!MarksConstants /\ Marking!MarksInit => MarksInv
<1> SUFFICES ASSUME Marking!MarksConstants, Marking!MarksInit PROVE MarksInv
  OBVIOUS
<1>1. /\ byTx = <<>> /\ deviceClock = 0 /\ writesMade = 0 /\ lastWrites = [key \in Marking!Keys |-> 0]
      /\ turnedBack = FALSE /\ withdrawnWrite = [marked |-> 0, taken |-> 0, others |-> FALSE]
  BY DEF Marking!MarksInit, Marking!NotWithdrawn
<1>2. MaxMarked \in Nat /\ MaxClock \in Nat
  BY DEF Marking!MarksConstants
<1>3. Marking!MarksTypeOK
  <2>1. byTx \in Seq(Marking!Tracked)
    BY <1>1
  <2>2. 0 \in 0 .. MaxMarked /\ 0 \in 0 .. MaxClock
    BY <1>2
  <2>3. lastWrites \in [Marking!Keys -> 0 .. MaxMarked]
    BY <1>1, <2>2
  <2>4. withdrawnWrite \in [marked : 0 .. MaxMarked, taken : 0 .. MaxMarked, others : BOOLEAN]
    BY <1>1, <2>2
  <2> QED BY <1>1, <2>1, <2>2, <2>3, <2>4 DEF Marking!MarksTypeOK
<1>4. Len(byTx) = 0
  BY <1>1
<1>5. WritesInOrder /\ LastOfItsThing /\ Marking!WithdrawnIsMarked
  BY <1>1, <1>4 DEF WritesInOrder, LastOfItsThing, Marking!WithdrawnIsMarked
<1> QED BY <1>3, <1>5 DEF MarksInv

LEMMA MarksHonest == Marking!MarksConstants /\ MarksInv => Marking!MarksAreRead
<1> SUFFICES ASSUME Marking!MarksConstants, MarksInv PROVE Marking!MarksAreRead
  OBVIOUS
<1>1. byTx \in Seq(Marking!Tracked) /\ Len(byTx) \in Nat
  BY DEF MarksInv, Marking!MarksTypeOK
<1>2. Marking!MarkIsOfTheLast
  <2>1. SUFFICES ASSUME NEW key \in Marking!Keys, ~turnedBack, NEW k \in DOMAIN byTx, byTx[k].tx = lastWrites[key]
                 PROVE  Marking!deliveries[key].tx = lastWrites[key]
    BY DEF Marking!MarkIsOfTheLast
  <2>2. k \in 1 .. Len(byTx) /\ Marking!Key(byTx[k]) = key
    BY <1>1, <2>1 DEF MarksInv, LastOfItsThing
  <2>3. \A a, b \in 1 .. Len(byTx) : a < b => byTx[a].at <= byTx[b].at
    BY <2>1 DEF MarksInv, WritesInOrder
  <2>4. PICK i \in 1 .. Len(byTx) :
                /\ Marking!deliveries[key] = byTx[i] /\ Marking!Key(byTx[i]) = key
                /\ \A j \in 1 .. Len(byTx) : j > i => Marking!Key(byTx[j]) # key
    BY <1>1, <2>2, <2>3, OneIsRead
  <2>5. ~ (k > i) /\ byTx[i].tx <= lastWrites[key]
    BY <2>2, <2>4 DEF MarksInv, LastOfItsThing
  <2>6. k = i
    <3>1. SUFFICES ASSUME k < i PROVE FALSE
      BY <1>1, <2>2, <2>5
    <3>2. byTx[k].tx < byTx[i].tx
      BY <2>2, <3>1 DEF MarksInv, WritesInOrder
    <3>3. byTx[k].tx \in Nat /\ byTx[i].tx \in Nat
      BY <1>1, <2>2, FollowedAre
    <3>4. ~ (byTx[i].tx <= byTx[k].tx)
      BY <3>2, <3>3
    <3> QED BY <2>1, <2>5, <3>4
  <2> QED BY <2>1, <2>4, <2>6
<1> QED BY <1>1, <1>2, ReadingsAgree DEF MarksInv, Marking!MarksAreRead

(* Nothing is withdrawn, or the write that was marked is. *)
WithdrawsWell ==
    \/ withdrawnWrite' = withdrawnWrite
    \/ /\ Marking!WithdrawnIsMarked'
       /\ withdrawnWrite' \in [marked : 0 .. MaxMarked, taken : 0 .. MaxMarked, others : BOOLEAN]

(* Fewer writes, in their order. *)
LEMMA FewerKeep ==
    ASSUME Marking!MarksConstants, MarksInv, byTx' \in Seq(Marking!Tracked), UNCHANGED <<deviceClock, writesMade, lastWrites, turnedBack>>,
           \A i \in 1 .. Len(byTx') : \E j \in 1 .. Len(byTx) : SameWrite(byTx'[i], byTx[j]),
           \A i, j \in 1 .. Len(byTx') : i < j => byTx'[i].tx < byTx'[j].tx,
           WithdrawsWell
    PROVE  MarksInv'
<1>1. Marking!MarksTypeOK'
  BY DEF MarksInv, Marking!MarksTypeOK, WithdrawsWell
<1>2. Marking!WithdrawnIsMarked'
  BY DEF MarksInv, Marking!WithdrawnIsMarked, WithdrawsWell
<1>3. byTx \in Seq(Marking!Tracked) /\ Len(byTx) \in Nat /\ Len(byTx') \in Nat
  BY DEF MarksInv, Marking!MarksTypeOK
<1>4. \A i \in 1 .. Len(byTx) : byTx[i].tx \in Nat /\ byTx[i].at \in Nat
  BY <1>3, FollowedAre
<1>5. ASSUME NEW i \in 1 .. Len(byTx') PROVE byTx'[i].tx <= writesMade' /\ (turnedBack' \/ byTx'[i].at <= deviceClock')
  BY DEF MarksInv, WritesInOrder, SameWrite
<1>6. ASSUME NEW i \in 1 .. Len(byTx'), NEW j \in 1 .. Len(byTx'), i < j, ~turnedBack PROVE byTx'[i].at <= byTx'[j].at
  <2>1. PICK a \in 1 .. Len(byTx) : SameWrite(byTx'[i], byTx[a])
    OBVIOUS
  <2>2. PICK b \in 1 .. Len(byTx) : SameWrite(byTx'[j], byTx[b])
    OBVIOUS
  <2>3. byTx'[i].tx < byTx'[j].tx
    BY <1>6
  <2>4. byTx[a].tx < byTx[b].tx
    BY <2>1, <2>2, <2>3 DEF SameWrite
  <2>5. a < b
    <3>1. SUFFICES ASSUME ~ (a < b) PROVE FALSE
      OBVIOUS
    <3>2. a = b \/ b < a
      BY <1>3, <3>1
    <3>3. ~ (byTx[b].tx < byTx[a].tx) /\ a # b
      BY <1>4, <2>4
    <3> QED BY <3>2, <3>3 DEF MarksInv, WritesInOrder
  <2>6. byTx[a].at <= byTx[b].at
    BY <1>6, <2>5 DEF MarksInv, WritesInOrder
  <2> QED BY <2>1, <2>2, <2>6 DEF SameWrite
<1>7. WritesInOrder'
  BY <1>5, <1>6 DEF WritesInOrder
<1>8. ASSUME NEW i \in 1 .. Len(byTx')
      PROVE  \E j \in 1 .. Len(byTx) : Marking!Key(byTx'[i]) = Marking!Key(byTx[j]) /\ byTx'[i].tx = byTx[j].tx
  BY DEF SameWrite, Marking!Key
<1>9. LastOfItsThing'
  <2>1. \A key \in Marking!Keys : lastWrites'[key] <= writesMade'
    BY DEF MarksInv, LastOfItsThing
  <2>2. \A i \in 1 .. Len(byTx') : Marking!Key(byTx'[i]) \in Marking!Keys => byTx'[i].tx <= lastWrites'[Marking!Key(byTx'[i])]
    BY <1>8 DEF MarksInv, LastOfItsThing
  <2>3. \A i \in 1 .. Len(byTx'), key \in Marking!Keys : byTx'[i].tx = lastWrites'[key] => Marking!Key(byTx'[i]) = key
    BY <1>8 DEF MarksInv, LastOfItsThing
  <2>4. \A i \in 1 .. Len(byTx') : Marking!Key(byTx[i])' = Marking!Key(byTx'[i])
    BY DEF Marking!Key
  <2> QED BY <2>1, <2>2, <2>3 DEF LastOfItsThing, Marking!Key
<1> QED BY <1>1, <1>2, <1>7, <1>9 DEF MarksInv

LEMMA WriteIsFollowed ==
    ASSUME Marking!MarksConstants, MarksInv, NEW m \in Messages, NEW k \in Marking!Kinds, Marking!Write(m, k)
    PROVE  MarksInv'
<1> DEFINE key == <<Marking!Marked(k), m>>
           t == [tx |-> writesMade + 1, message |-> m, kind |-> k, at |-> deviceClock, state |-> "waiting"]
           N == Len(byTx)
<1>1. /\ writesMade < MaxMarked /\ writesMade' = writesMade + 1 /\ byTx' = Append(byTx, t)
      /\ lastWrites' = IF Marking!Marked(k) = "none" THEN lastWrites ELSE [lastWrites EXCEPT ![key] = writesMade + 1]
      /\ UNCHANGED <<deviceClock, turnedBack, withdrawnWrite>>
  BY DEF Marking!Write
<1>2. /\ byTx \in Seq(Marking!Tracked) /\ N \in Nat /\ writesMade \in 0 .. MaxMarked /\ deviceClock \in 0 .. MaxClock
      /\ lastWrites \in [Marking!Keys -> 0 .. MaxMarked] /\ MaxMarked \in Nat /\ MaxClock \in Nat
  BY DEF MarksInv, Marking!MarksTypeOK, Marking!MarksConstants
<1>3. writesMade + 1 \in 1 .. MaxMarked /\ writesMade + 1 \in 0 .. MaxMarked /\ writesMade \in Nat /\ deviceClock \in Nat
  BY <1>1, <1>2
<1>4. t \in Marking!Tracked
  BY <1>2, <1>3 DEF Marking!Tracked
<1>5. t.tx = writesMade + 1 /\ t.at = deviceClock /\ t.message = m /\ t.kind = k /\ Marking!Key(t) = key
  BY DEF Marking!Key
<1>6. key \in Marking!Keys <=> Marking!Marked(k) # "none"
  BY DEF Marking!Keys, Marking!Marked, Marking!Kinds
<1> HIDE DEF t, key
<1>7. byTx' \in Seq(Marking!Tracked) /\ Len(byTx') = N + 1 /\ byTx'[N + 1] = t /\ \A i \in 1 .. N : byTx'[i] = byTx[i]
  BY <1>1, <1>2, <1>4, AppendProperties
<1>8. \A i : i \in 1 .. Len(byTx') <=> i \in 1 .. N \/ i = N + 1
  BY <1>2, <1>7
<1> HIDE DEF N
<1>9. Marking!MarksTypeOK'
  <2>1. lastWrites' \in [Marking!Keys -> 0 .. MaxMarked]
    BY <1>1, <1>2, <1>3
  <2>2. writesMade' \in 0 .. MaxMarked
    BY <1>1, <1>3
  <2> QED BY <1>1, <1>7, <2>1, <2>2 DEF MarksInv, Marking!MarksTypeOK
<1>10. \A i \in 1 .. N : byTx[i].tx \in Nat /\ byTx[i].tx <= writesMade /\ (turnedBack \/ byTx[i].at <= deviceClock)
  <2>1. \A i \in 1 .. N : byTx[i].tx \in Nat
    BY <1>2, FollowedAre DEF N
  <2> QED BY <2>1 DEF MarksInv, WritesInOrder, N
<1>11. \A i \in 1 .. N : byTx[i].tx < writesMade + 1
  BY <1>3, <1>10
<1>12. WritesInOrder'
  <2>1. ASSUME NEW i \in 1 .. Len(byTx') PROVE byTx'[i].tx <= writesMade' /\ (turnedBack' \/ byTx'[i].at <= deviceClock')
    <3>1. CASE i \in 1 .. N
      BY <1>1, <1>2, <1>7, <1>10, <3>1
    <3>2. CASE i = N + 1
      BY <1>1, <1>2, <1>5, <1>7, <3>2
    <3> QED BY <1>8, <3>1, <3>2
  <2>2. ASSUME NEW i \in 1 .. Len(byTx'), NEW j \in 1 .. Len(byTx'), i < j
        PROVE  byTx'[i].tx < byTx'[j].tx /\ (turnedBack' \/ byTx'[i].at <= byTx'[j].at)
    <3>1. i \in 1 .. N
      BY <1>2, <1>8, <2>2 DEF N
    <3>2. CASE j \in 1 .. N
      BY <1>1, <1>7, <2>2, <3>1, <3>2 DEF MarksInv, WritesInOrder, N
    <3>3. CASE j = N + 1
      BY <1>1, <1>5, <1>7, <1>10, <1>11, <3>1, <3>3
    <3> QED BY <1>8, <3>2, <3>3
  <2> QED BY <2>1, <2>2 DEF WritesInOrder
<1>16. \A x \in Marking!Keys : lastWrites[x] \in Nat /\ lastWrites[x] <= writesMade
  BY <1>2 DEF MarksInv, LastOfItsThing
<1>17. \A x \in Marking!Keys : lastWrites'[x] = IF x = key THEN writesMade + 1 ELSE lastWrites[x]
  BY <1>1, <1>2, <1>6
<1>18. \A x \in Marking!Keys : lastWrites[x] <= writesMade + 1 /\ lastWrites[x] # writesMade + 1
  BY <1>3, <1>16
<1>13. /\ \A x \in Marking!Keys : lastWrites[x] <= lastWrites'[x] /\ lastWrites'[x] <= writesMade + 1
       /\ key \in Marking!Keys => lastWrites'[key] = writesMade + 1
  <2>1. \A x \in Marking!Keys : lastWrites[x] <= lastWrites[x] /\ writesMade + 1 <= writesMade + 1
    BY <1>3, <1>16
  <2> QED BY <1>17, <1>18, <2>1
<1>14. LastOfItsThing'
  <2>1. \A x \in Marking!Keys : lastWrites'[x] <= writesMade'
    BY <1>1, <1>13
  <2>2. ASSUME NEW i \in 1 .. Len(byTx'), Marking!Key(byTx'[i]) \in Marking!Keys
        PROVE  byTx'[i].tx <= lastWrites'[Marking!Key(byTx'[i])]
    <3>1. CASE i \in 1 .. N
      <4>1. byTx'[i] = byTx[i] /\ byTx[i].tx <= lastWrites[Marking!Key(byTx[i])] /\ byTx[i].tx \in Nat
        BY <1>7, <1>10, <2>2, <3>1 DEF MarksInv, LastOfItsThing, N
      <4>3. Marking!Key(byTx[i]) \in Marking!Keys
        BY <2>2, <4>1
      <4> DEFINE x == Marking!Key(byTx[i])
      <4>2. /\ lastWrites[x] \in Nat /\ lastWrites[x] <= lastWrites'[x]
            /\ lastWrites'[x] = lastWrites[x] \/ lastWrites'[x] = writesMade + 1
        BY <1>13, <1>16, <1>17, <4>3
      <4> QED BY <1>3, <4>1, <4>2
    <3>2. CASE i = N + 1
      BY <1>3, <1>5, <1>7, <1>13, <2>2, <3>2
    <3> QED BY <1>8, <3>1, <3>2
  <2>3. ASSUME NEW i \in 1 .. Len(byTx'), NEW x \in Marking!Keys, byTx'[i].tx = lastWrites'[x]
        PROVE  Marking!Key(byTx'[i]) = x
    <3>1. CASE i \in 1 .. N
      <4>1. byTx'[i] = byTx[i] /\ byTx[i].tx < writesMade + 1 /\ byTx[i].tx \in Nat
        BY <1>7, <1>10, <1>11, <3>1
      <4>2. lastWrites'[x] = lastWrites[x]
        BY <1>3, <1>17, <2>3, <4>1
      <4> QED BY <2>3, <3>1, <4>1, <4>2 DEF MarksInv, LastOfItsThing, N
    <3>2. CASE i = N + 1
      <4>1. byTx'[i] = t /\ lastWrites'[x] = writesMade + 1
        BY <1>5, <1>7, <2>3, <3>2
      <4> QED BY <1>5, <1>17, <1>18, <4>1
    <3> QED BY <1>8, <3>1, <3>2
  <2> QED BY <2>1, <2>2, <2>3 DEF LastOfItsThing, Marking!Key
<1>15. Marking!WithdrawnIsMarked'
  BY <1>1 DEF MarksInv, Marking!WithdrawnIsMarked
<1> QED BY <1>9, <1>12, <1>14, <1>15 DEF MarksInv

LEMMA ClockKeeps ==
    ASSUME Marking!MarksConstants, MarksInv, Marking!ClockMoves \/ UNCHANGED Marking!marksVars
    PROVE  MarksInv'
<1>1. /\ UNCHANGED <<byTx, writesMade, lastWrites, withdrawnWrite>> /\ deviceClock' \in 0 .. MaxClock
      /\ turnedBack' = turnedBack \/ (turnedBack' \in BOOLEAN /\ turnedBack' = (turnedBack \/ deviceClock' < deviceClock))
      /\ turnedBack' \/ (~turnedBack /\ ~ (deviceClock' < deviceClock))
  <2>1. deviceClock \in 0 .. MaxClock /\ turnedBack \in BOOLEAN
    BY DEF MarksInv, Marking!MarksTypeOK
  <2>2. CASE Marking!ClockMoves
    <3>1. /\ UNCHANGED <<byTx, writesMade, lastWrites, withdrawnWrite>> /\ deviceClock' \in 0 .. MaxClock
          /\ turnedBack' = (turnedBack \/ deviceClock' < deviceClock)
      BY <2>2 DEF Marking!ClockMoves
    <3>2. turnedBack' \in BOOLEAN
      BY <3>1
    <3>3. turnedBack' \/ (~turnedBack /\ ~ (deviceClock' < deviceClock))
      BY <2>1, <3>1, Zenon
    <3> QED BY <3>1, <3>2, <3>3
  <2>3. CASE UNCHANGED Marking!marksVars
    <3>1. ~ (deviceClock < deviceClock)
      BY <2>1 DEF Marking!MarksConstants
    <3> QED BY <2>1, <2>3, <3>1 DEF Marking!marksVars
  <2> QED BY <2>2, <2>3
<1>2. Marking!MarksTypeOK'
  BY <1>1 DEF MarksInv, Marking!MarksTypeOK
<1>3. byTx \in Seq(Marking!Tracked) /\ deviceClock \in 0 .. MaxClock /\ MaxClock \in Nat
  BY DEF MarksInv, Marking!MarksTypeOK, Marking!MarksConstants
<1>4. \A i \in 1 .. Len(byTx) : byTx[i].at \in Nat
  BY <1>3, FollowedAre
<1>5. \A i \in 1 .. Len(byTx) : turnedBack' \/ byTx[i].at <= deviceClock'
  <2>1. CASE ~turnedBack /\ ~ (deviceClock' < deviceClock)
    <3>1. deviceClock <= deviceClock' /\ \A i \in 1 .. Len(byTx) : byTx[i].at <= deviceClock
      BY <1>1, <1>3, <2>1 DEF MarksInv, WritesInOrder
    <3> QED BY <1>1, <1>3, <1>4, <3>1
  <2> QED BY <1>1, <2>1
<1>6. WritesInOrder'
  BY <1>1, <1>5 DEF MarksInv, WritesInOrder
<1>7. LastOfItsThing' /\ Marking!WithdrawnIsMarked'
  BY <1>1 DEF MarksInv, LastOfItsThing, Marking!WithdrawnIsMarked, Marking!Key
<1> QED BY <1>2, <1>6, <1>7 DEF MarksInv

LEMMA MovesKeep ==
    ASSUME Marking!MarksConstants, MarksInv, NEW i \in DOMAIN byTx,
           Marking!Submitted(i) \/ Marking!Committed(i) \/ Marking!CommitHeld(i)
    PROVE  MarksInv'
<1>1. PICK st \in {"waiting", "sending", "unconfirmed", "delivered"} : Marking!Moves(i, st)
  BY DEF Marking!Submitted, Marking!Committed, Marking!CommitHeld
<1>2. /\ byTx' = [byTx EXCEPT ![i].state = st]
      /\ UNCHANGED <<deviceClock, writesMade, lastWrites, turnedBack, withdrawnWrite>>
  BY <1>1 DEF Marking!Moves
<1>3. byTx \in Seq(Marking!Tracked) /\ Len(byTx) \in Nat /\ i \in 1 .. Len(byTx)
  BY DEF MarksInv, Marking!MarksTypeOK
<1> DEFINE t == [byTx[i] EXCEPT !.state = st]
<1>4. byTx[i] \in Marking!Tracked
  BY <1>3
<1>5. t \in Marking!Tracked /\ SameWrite(t, byTx[i])
  BY <1>4 DEF Marking!Tracked, SameWrite
<1>6. byTx' = [byTx EXCEPT ![i] = t]
  BY <1>2
<1> HIDE DEF t
<1>7. byTx' \in Seq(Marking!Tracked) /\ Len(byTx') = Len(byTx) /\ \A j \in 1 .. Len(byTx) : byTx'[j] = IF j = i THEN t ELSE byTx[j]
  BY <1>3, <1>5, <1>6
<1>8. ASSUME NEW j \in 1 .. Len(byTx') PROVE SameWrite(byTx'[j], byTx[j])
  BY <1>5, <1>7 DEF SameWrite
<1>9. \A j \in 1 .. Len(byTx') : \E k \in 1 .. Len(byTx) : SameWrite(byTx'[j], byTx[k])
  BY <1>7, <1>8
<1>10. \A j, k \in 1 .. Len(byTx') : j < k => byTx'[j].tx < byTx'[k].tx
  BY <1>7, <1>8 DEF MarksInv, WritesInOrder, SameWrite
<1>11. WithdrawsWell
  BY <1>2 DEF WithdrawsWell
<1> QED BY <1>2, <1>7, <1>9, <1>10, <1>11, FewerKeep

LEMMA RemoveIs ==
    ASSUME NEW S, NEW s \in Seq(S), NEW i \in 1 .. Len(s)
    PROVE  /\ Marking!RemoveAt(s, i) \in Seq(S) /\ Len(Marking!RemoveAt(s, i)) = Len(s) - 1
           /\ \A j \in 1 .. Len(s) - 1 : Marking!RemoveAt(s, i)[j] = IF j < i THEN s[j] ELSE s[j + 1]
<1> DEFINE front == SubSeq(s, 1, i - 1)
           back == SubSeq(s, i + 1, Len(s))
<1>1. Len(s) \in Nat /\ i \in Int /\ 1 <= i /\ i <= Len(s)
  OBVIOUS
<1>2. front \in Seq(S) /\ Len(front) = i - 1 /\ \A j \in 1 .. i - 1 : front[j] = s[j]
  <2>1. \A j \in 1 .. i - 1 : s[j] \in S
    BY <1>1
  <2>2. /\ front \in Seq(S) /\ Len(front) = IF 1 <= i - 1 THEN i - 1 - 1 + 1 ELSE 0
        /\ \A j \in 1 .. i - 1 - 1 + 1 : front[j] = s[1 + j - 1]
    BY <1>1, <2>1, SubSeqProperties
  <2> HIDE DEF front
  <2> QED BY <1>1, <2>2
<1>3. back \in Seq(S) /\ Len(back) = Len(s) - i /\ \A j \in 1 .. Len(s) - i : back[j] = s[j + i]
  <2>1. \A j \in i + 1 .. Len(s) : s[j] \in S
    BY <1>1
  <2>2. /\ back \in Seq(S) /\ Len(back) = IF i + 1 <= Len(s) THEN Len(s) - (i + 1) + 1 ELSE 0
        /\ \A j \in 1 .. Len(s) - (i + 1) + 1 : back[j] = s[i + 1 + j - 1]
    BY <1>1, <2>1, SubSeqProperties
  <2> HIDE DEF back
  <2> QED BY <1>1, <2>2
<1>4. Marking!RemoveAt(s, i) = front \o back
  BY DEF Marking!RemoveAt
<1> HIDE DEF front, back
<1>5. /\ front \o back \in Seq(S) /\ Len(front \o back) = Len(front) + Len(back)
      /\ \A j \in 1 .. Len(front) + Len(back) :
            (front \o back)[j] = IF j <= Len(front) THEN front[j] ELSE back[j - Len(front)]
  BY <1>2, <1>3, ConcatProperties
<1>6. ASSUME NEW j \in 1 .. Len(s) - 1 PROVE (front \o back)[j] = IF j < i THEN s[j] ELSE s[j + 1]
  <2>1. (front \o back)[j] = IF j <= i - 1 THEN front[j] ELSE back[j - (i - 1)]
    BY <1>1, <1>2, <1>3, <1>5
  <2>2. CASE j < i
    <3>1. j <= i - 1 /\ j \in 1 .. i - 1
      BY <1>1, <2>2
    <3> QED BY <1>2, <2>1, <2>2, <3>1
  <2>3. CASE ~ (j < i)
    <3>1. ~ (j <= i - 1) /\ j - (i - 1) \in 1 .. Len(s) - i /\ (j - (i - 1)) + i = j + 1
      BY <1>1, <2>3
    <3> QED BY <1>3, <2>1, <2>3, <3>1
  <2> QED BY <2>2, <2>3
<1>7. Len(front \o back) = Len(s) - 1
  BY <1>1, <1>2, <1>3, <1>5
<1> QED BY <1>4, <1>5, <1>6, <1>7

LEMMA LetGoKeeps ==
    ASSUME Marking!MarksConstants, MarksInv, NEW i \in DOMAIN byTx, Marking!LetGo(i),
           WithdrawsWell
    PROVE  MarksInv'
<1>1. byTx' = Marking!RemoveAt(byTx, i) /\ UNCHANGED <<deviceClock, writesMade, lastWrites, turnedBack>>
  BY DEF Marking!LetGo
<1>2. byTx \in Seq(Marking!Tracked) /\ Len(byTx) \in Nat /\ i \in 1 .. Len(byTx)
  BY DEF MarksInv, Marking!MarksTypeOK
<1>3. /\ byTx' \in Seq(Marking!Tracked) /\ Len(byTx') = Len(byTx) - 1
      /\ \A j \in 1 .. Len(byTx) - 1 : byTx'[j] = IF j < i THEN byTx[j] ELSE byTx[j + 1]
  BY <1>1, <1>2, RemoveIs
<1>4. ASSUME NEW j \in 1 .. Len(byTx')
      PROVE  \E k \in 1 .. Len(byTx) : byTx'[j] = byTx[k] /\ k = IF j < i THEN j ELSE j + 1
  BY <1>2, <1>3
<1>5. \A j \in 1 .. Len(byTx') : \E k \in 1 .. Len(byTx) : SameWrite(byTx'[j], byTx[k])
  BY <1>4 DEF SameWrite
<1>6. ASSUME NEW j \in 1 .. Len(byTx'), NEW k \in 1 .. Len(byTx'), j < k PROVE byTx'[j].tx < byTx'[k].tx
  <2>1. PICK a \in 1 .. Len(byTx) : byTx'[j] = byTx[a] /\ a = IF j < i THEN j ELSE j + 1
    BY <1>4
  <2>2. PICK b \in 1 .. Len(byTx) : byTx'[k] = byTx[b] /\ b = IF k < i THEN k ELSE k + 1
    BY <1>4
  <2>3. a < b
    BY <1>2, <1>6, <2>1, <2>2
  <2> QED BY <2>1, <2>2, <2>3 DEF MarksInv, WritesInOrder
<1> QED BY <1>1, <1>3, <1>5, <1>6, FewerKeep

LEMMA LeastIs ==
    ASSUME NEW T \in SUBSET Nat, T # {} PROVE Marking!Min(T) \in T
<1>1. PICK n \in T : \A m \in T : ~ (<<m, n>> \in OpToRel(<, Nat))
  BY NatLessThanWellFounded, WFMin, Zenon
<1>2. ASSUME NEW m \in T PROVE n <= m
  <2>1. ~ (<<m, n>> \in {ss \in Nat \X Nat : ss[1] < ss[2]})
    BY <1>1, <1>2 DEF OpToRel
  <2>2. m \in Nat /\ n \in Nat
    BY <1>2
  <2> QED BY <2>1, <2>2
<1>3. \E x \in T : \A y \in T : x <= y
  BY <1>2
<1> QED BY <1>3 DEF Marking!Min

LEMMA DiscardKeeps ==
    ASSUME Marking!MarksConstants, MarksInv, NEW m \in Messages, Marking!Discard(m)
    PROVE  MarksInv'
<1> DEFINE key == <<"text", m>>
           marked == Marking!deliveries[key]
           taken == Marking!waitingWriteOf(m)
           waits == {i \in DOMAIN byTx : byTx[i].message = m /\ Marking!Waiting(byTx[i])}
<1>1. byTx \in Seq(Marking!Tracked) /\ Len(byTx) \in Nat /\ DOMAIN byTx = 1 .. Len(byTx)
  BY DEF MarksInv, Marking!MarksTypeOK
<1>2. /\ Marking!Waiting(marked)
      /\ withdrawnWrite' = [marked |-> marked.tx, taken |-> taken.tx,
                            others |-> \E i \in DOMAIN byTx : byTx[i].message = m /\ Marking!Waiting(byTx[i])
                                                               /\ byTx[i].tx # marked.tx]
      /\ \E i \in DOMAIN byTx : byTx[i].tx = taken.tx /\ Marking!LetGo(i)
  BY DEF Marking!Discard
<1>3. key \in Marking!Keys
  BY DEF Marking!Keys
<1>4. ~Marking!Waiting(Marking!NoWrite)
  BY DEF Marking!Waiting, Marking!NoWrite
<1>5. PICK i \in 1 .. Len(byTx) : marked = byTx[i] /\ Marking!Key(byTx[i]) = key
  <2>1. marked # Marking!NoWrite
    BY <1>2, <1>4
  <2> QED BY <1>1, <1>3, <2>1, OneIsRead
<1>6. byTx[i].message = m
  BY <1>5 DEF Marking!Key
<1>7. i \in waits
  BY <1>1, <1>2, <1>5, <1>6
<1>8. waits \in SUBSET Nat /\ waits # {}
  BY <1>1, <1>7
<1>9. taken = byTx[Marking!Min(waits)]
  BY <1>8 DEF Marking!waitingWriteOf
<1> DEFINE k == Marking!Min(waits)
<1>10. k \in waits
  <2> HIDE DEF waits
  <2> QED BY <1>8, LeastIs
<1>11. k \in 1 .. Len(byTx) /\ byTx[k].message = m /\ Marking!Waiting(byTx[k]) /\ taken = byTx[k]
  BY <1>1, <1>9, <1>10
<1> HIDE DEF k, waits, taken, marked
<1>12. taken.tx \in 1 .. MaxMarked /\ marked.tx \in 1 .. MaxMarked
  <2>1. taken \in Marking!Tracked /\ marked \in Marking!Tracked
    BY <1>1, <1>5, <1>11
  <2> QED BY <2>1 DEF Marking!Tracked
<1> DEFINE others == \E j \in DOMAIN byTx : byTx[j].message = m /\ Marking!Waiting(byTx[j]) /\ byTx[j].tx # marked.tx
<1>13. others \in BOOLEAN
  OBVIOUS
<1>14. taken.tx = marked.tx \/ others
  BY <1>1, <1>11
<1>15. withdrawnWrite' = [marked |-> marked.tx, taken |-> taken.tx, others |-> others]
  BY <1>2
<1> HIDE DEF others
<1>16. Marking!WithdrawnIsMarked'
  BY <1>14, <1>15 DEF Marking!WithdrawnIsMarked
<1>17. withdrawnWrite' \in [marked : 0 .. MaxMarked, taken : 0 .. MaxMarked, others : BOOLEAN]
  <2>1. taken.tx \in 0 .. MaxMarked /\ marked.tx \in 0 .. MaxMarked
    BY <1>12
  <2> QED BY <1>13, <1>15, <2>1
<1>18. PICK j \in DOMAIN byTx : Marking!LetGo(j)
  BY <1>2
<1>19. WithdrawsWell
  BY <1>16, <1>17 DEF WithdrawsWell
<1> QED BY <1>18, <1>19, LetGoKeeps

LEMMA RestartKeeps ==
    ASSUME Marking!MarksConstants, MarksInv, Marking!Restart
    PROVE  MarksInv'
<1> DEFINE f == CHOOSE g : KeptIs(g, byTx)
           N == Len(byTx)
<1>1. byTx \in Seq(Marking!Tracked) /\ N \in Nat
  BY DEF MarksInv, Marking!MarksTypeOK
<1>2. PICK g : KeptIs(g, byTx)
  BY <1>1, KeptExists
<1>3. KeptIs(f, byTx)
  BY <1>2
<1>4. byTx' = f[N] /\ UNCHANGED <<deviceClock, writesMade, lastWrites, turnedBack, withdrawnWrite>>
  BY DEF Marking!Restart, KeptIs
<1> HIDE DEF f
<1>5. f[0] = <<>>
  BY <1>1, <1>3 DEF KeptIs
<1>6. ASSUME NEW n \in 1 .. N
      PROVE  f[n] = IF byTx[n].state \in {"waiting", "sending"}
                    THEN Append(f[n - 1], [byTx[n] EXCEPT !.state = "waiting"]) ELSE f[n - 1]
  <2>1. n \in 0 .. N /\ n # 0
    BY <1>1
  <2> QED BY <1>3, <2>1 DEF KeptIs
<1> DEFINE Is(n) == /\ f[n] \in Seq(Marking!Tracked)
                    /\ \A i \in 1 .. Len(f[n]) : \E j \in 1 .. n : SameWrite(f[n][i], byTx[j])
                    /\ \A i, j \in 1 .. Len(f[n]) : i < j => f[n][i].tx < f[n][j].tx
           T == {n \in 0 .. N : Is(n)}
<1>7. 0 \in T
  <2>1. f[0] \in Seq(Marking!Tracked) /\ Len(f[0]) = 0
    BY <1>5
  <2>2. Is(0)
    BY <2>1
  <2>3. 0 \in 0 .. N
    BY <1>1
  <2> HIDE DEF Is
  <2> QED BY <2>2, <2>3
<1>8. ASSUME NEW n \in 1 .. N, n - 1 \in T PROVE n \in T
  <2>1. Is(n - 1) /\ n \in 0 .. N /\ n \in Nat /\ \A j : j \in 1 .. n <=> j \in 1 .. n - 1 \/ j = n
    BY <1>1, <1>8
  <2> DEFINE t == [byTx[n] EXCEPT !.state = "waiting"]
             s == f[n - 1]
  <2>2. byTx[n] \in Marking!Tracked
    BY <1>1
  <2>3. t \in Marking!Tracked /\ SameWrite(t, byTx[n])
    BY <2>2 DEF Marking!Tracked, SameWrite
  <2>4. f[n] = s \/ f[n] = Append(s, t)
    BY <1>6
  <2> HIDE DEF t, s
  <2>5. /\ s \in Seq(Marking!Tracked) /\ \A i \in 1 .. Len(s) : \E j \in 1 .. n - 1 : SameWrite(s[i], byTx[j])
        /\ \A i, j \in 1 .. Len(s) : i < j => s[i].tx < s[j].tx
    BY <2>1 DEF s
  <2>6. CASE f[n] = s
    BY <2>1, <2>5, <2>6
  <2>7. CASE f[n] = Append(s, t)
    <3> DEFINE L == Len(s)
    <3>1. L \in Nat /\ f[n] \in Seq(Marking!Tracked) /\ Len(f[n]) = L + 1 /\ f[n][L + 1] = t /\ \A i \in 1 .. L : f[n][i] = s[i]
      BY <2>3, <2>5, <2>7, AppendProperties
    <3>2. \A i : i \in 1 .. Len(f[n]) <=> i \in 1 .. L \/ i = L + 1
      BY <3>1
    <3>3. ASSUME NEW i \in 1 .. L PROVE f[n][i].tx < t.tx
      <4>1. PICK j \in 1 .. n - 1 : SameWrite(s[i], byTx[j])
        BY <2>5
      <4>2. j \in 1 .. N /\ j < n
        BY <1>1
      <4>3. byTx[j].tx < byTx[n].tx
        BY <4>2 DEF MarksInv, WritesInOrder
      <4> QED BY <2>3, <3>1, <4>1, <4>3 DEF SameWrite
    <3>4. \A i \in 1 .. Len(f[n]) : \E j \in 1 .. n : SameWrite(f[n][i], byTx[j])
      BY <2>1, <2>3, <2>5, <3>1, <3>2
    <3>5. ASSUME NEW i \in 1 .. Len(f[n]), NEW j \in 1 .. Len(f[n]), i < j PROVE f[n][i].tx < f[n][j].tx
      <4>1. i \in 1 .. L
        BY <3>1, <3>2, <3>5
      <4>2. CASE j \in 1 .. L
        BY <2>5, <3>1, <3>5, <4>1, <4>2
      <4>3. CASE j = L + 1
        BY <3>1, <3>3, <4>1, <4>3
      <4> QED BY <3>2, <4>2, <4>3
    <3> HIDE DEF L
    <3> QED BY <2>1, <3>1, <3>4, <3>5
  <2> QED BY <2>4, <2>6, <2>7
<1> HIDE DEF T
<1>9. 0 .. N \subseteq T
  BY <1>1, <1>7, <1>8, CountingUp
<1>10. N \in 0 .. N
  BY <1>1
<1>11. Is(N)
  BY <1>9, <1>10 DEF T
<1>12. /\ byTx' \in Seq(Marking!Tracked)
       /\ \A i \in 1 .. Len(byTx') : \E j \in 1 .. Len(byTx) : SameWrite(byTx'[i], byTx[j])
       /\ \A i, j \in 1 .. Len(byTx') : i < j => byTx'[i].tx < byTx'[j].tx
  BY <1>4, <1>11
<1>13. WithdrawsWell
  BY <1>4 DEF WithdrawsWell
<1> QED BY <1>4, <1>12, <1>13, FewerKeep

LEMMA MarksStep ==
    Marking!MarksConstants /\ MarksInv /\ [Marking!MarksNext]_(Marking!marksVars) => MarksInv'
<1> SUFFICES ASSUME Marking!MarksConstants, MarksInv, [Marking!MarksNext]_(Marking!marksVars) PROVE MarksInv'
  OBVIOUS
<1>1. CASE \E m \in Messages : Marking!Discard(m) \/ \E k \in Marking!Kinds : Marking!Write(m, k)
  BY <1>1, DiscardKeeps, WriteIsFollowed, Zenon
<1>2. ASSUME NEW i \in DOMAIN byTx, Marking!Ended(i) PROVE MarksInv'
  <2>1. Marking!LetGo(i) /\ withdrawnWrite' = withdrawnWrite
    BY <1>2 DEF Marking!Ended
  <2>2. WithdrawsWell
    BY <2>1 DEF WithdrawsWell
  <2> QED BY <2>1, <2>2, LetGoKeeps
<1>3. CASE \E i \in DOMAIN byTx : Marking!Submitted(i) \/ Marking!Committed(i) \/ Marking!CommitHeld(i)
  BY <1>3, MovesKeep, Zenon
<1>4. CASE Marking!ClockMoves \/ UNCHANGED Marking!marksVars
  BY <1>4, ClockKeeps
<1>5. CASE Marking!Restart
  BY <1>5, RestartKeeps
<1> QED BY <1>1, <1>2, <1>3, <1>4, <1>5, Zenon DEF Marking!MarksNext

LEMMA MarksHoldAlone ==
    ASSUME Marking!MarksConstants
    PROVE  Marking!MarksInit /\ [][Marking!MarksNext]_(Marking!marksVars) =>
              [](Marking!MarksTypeOK /\ Marking!MarksAreRead)
<1>1. MarksInv => Marking!MarksTypeOK /\ Marking!MarksAreRead
  BY MarksHonest DEF MarksInv
<1> QED BY <1>1, MarksInitInv, MarksStep, PTL

-----------------------------------------------------------------------------
(***************************************************************************)
(* Session.                                                                *)
(* RowsAreAsPrinted and FoundedIsStarted, for any kinds of listing, things *)
(* listed, runs and commands.  The inductive invariant says that the rows  *)
(* kept, in memory and in the profile, are those printed last, but for a   *)
(* listing between its write and its print.                                *)
(***************************************************************************)
Shapes ==
    /\ runCommand = [at |-> runCommand.at, rows |-> runCommand.rows, saved |-> runCommand.saved,
                     thing |-> runCommand.thing, meant |-> runCommand.meant]
    /\ last = [read |-> last.read, rows |-> last.rows] /\ last.read \in BOOLEAN /\ runCommand.saved \in BOOLEAN
    /\ last.rows = [k \in Kept |-> last.rows[k]] /\ rowsFile = [k \in Kept |-> rowsFile[k]]
    /\ shownRows = [k \in Run!Kinds |-> shownRows[k]]

KeptArePrinted ==
    /\ runCommand.saved => runCommand.at \in Kept
    /\ unseen \/ (last.read => last.rows = rowsFile)
    /\ unseen \/ \A k \in Kept :
          rowsFile[k] = IF runCommand.saved /\ runCommand.at = k THEN runCommand.rows ELSE shownRows[k]

ThingIsMeant ==
    /\ unseen \/ shifted \/ (runCommand.at \in {"asks", "acts"} => runCommand.meant = runCommand.thing)
    /\ Run!RowsAreAsPrinted

WayOut == founding = "published" /\ runPhase \in {"off", "draining", "stopping"} => hurried

SessionInv == Shapes /\ KeptArePrinted /\ ThingIsMeant /\ WayOut

LEMMA IdleIs == Run!Idle = [at |-> "none", rows |-> <<>>, saved |-> FALSE, thing |-> Nothing, meant |-> Nothing]
BY DEF Run!Idle

LEMMA ListingIs ==
    ASSUME NEW a, NEW r, NEW c, c = [Run!Idle EXCEPT !.at = a, !.rows = r]
    PROVE  c = [at |-> a, rows |-> r, saved |-> FALSE, thing |-> Nothing, meant |-> Nothing]
BY DEF Run!Idle

LEMMA RowCommandIs ==
    ASSUME NEW a, NEW t, NEW m, NEW c, c = [Run!Idle EXCEPT !.at = a, !.thing = t, !.meant = m]
    PROVE  c = [at |-> a, rows |-> <<>>, saved |-> FALSE, thing |-> t, meant |-> m]
BY DEF Run!Idle

LEMMA SessionInitInv == Run!SessionInit => SessionInv
<1> SUFFICES ASSUME Run!SessionInit PROVE SessionInv
  OBVIOUS
<1>1. /\ runCommand = [at |-> "none", rows |-> <<>>, saved |-> FALSE, thing |-> Nothing, meant |-> Nothing]
      /\ last = [read |-> FALSE, rows |-> [k \in Kept |-> <<>>]]
      /\ rowsFile = [k \in Kept |-> <<>>] /\ shownRows = [k \in Run!Kinds |-> <<>>]
      /\ founding = "none" /\ acted = <<Nothing, Nothing>>
  BY DEF Run!SessionInit, Run!Idle, Run!NoRows
<1>2. Shapes
  BY <1>1 DEF Shapes
<1>3. KeptArePrinted
  BY <1>1 DEF KeptArePrinted, Run!Kinds
<1>4. ThingIsMeant /\ WayOut
  BY <1>1 DEF ThingIsMeant, WayOut, Run!RowsAreAsPrinted
<1> QED BY <1>2, <1>3, <1>4 DEF SessionInv

(* A step that leaves the rows kept and printed, with a command that is not to be printed. *)
LEMMA RowsStayKept ==
    ASSUME SessionInv, UNCHANGED <<shownRows, last, rowsFile, unseen>>, runCommand' = runCommand \/ ~runCommand.saved,
           runCommand' = [at |-> runCommand'.at, rows |-> runCommand'.rows, saved |-> runCommand'.saved,
                          thing |-> runCommand'.thing, meant |-> runCommand'.meant],
           runCommand' = runCommand \/ runCommand'.saved = FALSE
    PROVE  Shapes' /\ KeptArePrinted'
<1>1. Shapes'
  BY DEF SessionInv, Shapes
<1>2. KeptArePrinted'
  BY DEF SessionInv, KeptArePrinted
<1> QED BY <1>1, <1>2

(* The run, and the lists meanwhile. *)
LEMMA RunsKeep ==
    ASSUME Run!SessionConstants, SessionInv,
           \/ Run!Settled \/ Run!Leave \/ Run!Founded \/ Run!Drained \/ Run!Stopped \/ Run!Invite \/ UNCHANGED Run!sessionVars
           \/ \E b \in BOOLEAN : Run!Ready(b) \/ Run!BackgroundDone(b)
           \/ \E k \in Run!Kinds, listing \in Run!Listings : Run!Moves(k, listing)
    PROVE  SessionInv'
<1>1. UNCHANGED <<shownRows, last, rowsFile, runCommand, acted, unseen, shifted>>
  BY DEF Run!Settled, Run!Leave, Run!Founded, Run!Drained, Run!Stopped, Run!Invite, Run!sessionVars, Run!Ready,
         Run!BackgroundDone, Run!Moves, Run!rowVars, Run!runVars
<1>2. Shapes' /\ KeptArePrinted' /\ ThingIsMeant'
  BY <1>1 DEF SessionInv, Shapes, KeptArePrinted, ThingIsMeant, Run!RowsAreAsPrinted
<1>3. WayOut'
  BY DEF SessionInv, WayOut, Run!Settled, Run!Leave, Run!Founded, Run!Drained, Run!Stopped, Run!Invite, Run!sessionVars, Run!Ready,
         Run!BackgroundDone, Run!Moves, Run!rowVars, Run!runVars, Run!Begin
<1> QED BY <1>2, <1>3 DEF SessionInv

LEMMA RunBegins ==
    ASSUME Run!SessionConstants, SessionInv, NEW b \in BOOLEAN, Run!Start(b)
    PROVE  SessionInv'
<1>1. /\ last' = [read |-> FALSE, rows |-> [k \in Kept |-> <<>>]] /\ runPhase' = "starting"
      /\ UNCHANGED <<shownRows, rowsFile, runCommand, founding, acted, unseen, shifted, hurried>>
  BY DEF Run!Start, Run!NoRows
<1>2. Shapes'
  BY <1>1 DEF SessionInv, Shapes
<1>3. KeptArePrinted'
  BY <1>1 DEF SessionInv, KeptArePrinted
<1>4. ThingIsMeant' /\ WayOut'
  BY <1>1 DEF SessionInv, ThingIsMeant, Run!RowsAreAsPrinted, WayOut
<1> QED BY <1>2, <1>3, <1>4 DEF SessionInv

LEMMA RunDies ==
    ASSUME Run!SessionConstants, SessionInv, Run!Killed
    PROVE  SessionInv'
<1>1. /\ runCommand' = [at |-> "none", rows |-> <<>>, saved |-> FALSE, thing |-> Nothing, meant |-> Nothing]
      /\ hurried' = (hurried \/ founding = "published") /\ unseen' = (unseen \/ runCommand.saved)
      /\ UNCHANGED <<shownRows, last, rowsFile, acted, shifted, founding>>
  BY DEF Run!Killed, Run!Idle
<1>2. Shapes'
  BY <1>1 DEF SessionInv, Shapes
<1>3. KeptArePrinted'
  BY <1>1 DEF SessionInv, KeptArePrinted
<1>4. ThingIsMeant' /\ WayOut'
  BY <1>1 DEF SessionInv, ThingIsMeant, Run!RowsAreAsPrinted, WayOut
<1> QED BY <1>2, <1>3, <1>4 DEF SessionInv

(* Where a command that fails leaves the run. *)
LEMMA FailsIs ==
    ASSUME SessionInv, Run!Fails \/ UNCHANGED runPhase, runPhase \notin {"off", "draining", "stopping"} \/ UNCHANGED runPhase,
           UNCHANGED <<founding, hurried>>
    PROVE  WayOut'
BY DEF SessionInv, WayOut, Run!Fails

(* Commands. *)
LEMMA CommandsKeep ==
    ASSUME Run!SessionConstants, SessionInv, Run!WithoutNode \/ \E k \in Run!Kinds : Run!List(k)
    PROVE  SessionInv'
<1>1. /\ runCommand = Run!Idle /\ runPhase = "commands"
      /\ UNCHANGED <<shownRows, last, rowsFile, acted, unseen, shifted, founding, hurried>>
  BY DEF Run!WithoutNode, Run!List, Run!Begin, Run!rowVars, Run!runVars
<1>2. /\ runCommand' = [at |-> runCommand'.at, rows |-> runCommand'.rows, saved |-> runCommand'.saved,
                        thing |-> runCommand'.thing, meant |-> runCommand'.meant]
      /\ runCommand'.saved = FALSE /\ runCommand'.at \notin {"asks", "acts"}
  <2>1. CASE Run!WithoutNode
    BY <2>1 DEF Run!WithoutNode, Run!Fails, Run!Idle
  <2>2. ASSUME NEW k \in Run!Kinds, Run!List(k) PROVE <1>2!:
    <3>1. PICK r : runCommand' = [Run!Idle EXCEPT !.at = k, !.rows = r]
      BY <2>2 DEF Run!List
    <3>2. runCommand' = [at |-> k, rows |-> r, saved |-> FALSE, thing |-> Nothing, meant |-> Nothing]
      BY <3>1, ListingIs
    <3>3. k \notin {"asks", "acts"}
      BY DEF Run!SessionConstants, Run!Kinds
    <3> QED BY <3>2, <3>3
  <2> QED BY <2>1, <2>2
<1>3. runCommand.saved = FALSE
  BY <1>1, IdleIs
<1>4. Shapes' /\ KeptArePrinted'
  BY <1>1, <1>2, <1>3, RowsStayKept
<1>5. ThingIsMeant'
  BY <1>1, <1>2 DEF SessionInv, ThingIsMeant, Run!RowsAreAsPrinted
<1>6. Run!Fails \/ UNCHANGED runPhase
  BY DEF Run!WithoutNode, Run!List, Run!runVars
<1>7. WayOut'
  BY <1>1, <1>6, FailsIs
<1> QED BY <1>4, <1>5, <1>7 DEF SessionInv

LEMMA ListingIsKept ==
    ASSUME Run!SessionConstants, SessionInv, NEW wrote \in BOOLEAN, Run!Remember(wrote)
    PROVE  SessionInv'
<1> DEFINE at == runCommand.at
           byRow == [Run!Rows EXCEPT ![at] = runCommand.rows]
<1>1. /\ at \in Kept /\ ~runCommand.saved /\ last' = [read |-> TRUE, rows |-> byRow]
      /\ UNCHANGED <<shownRows, founding, acted, shifted, hurried>>
      /\ (unseen => unseen')
      /\ IF wrote
         THEN rowsFile' = byRow /\ runCommand' = [runCommand EXCEPT !.saved = TRUE] /\ UNCHANGED <<runPhase, unseen>>
         ELSE unseen' = (unseen \/ runCommand.rows # shownRows[at]) /\ UNCHANGED rowsFile /\ Run!Fails
  BY DEF Run!Remember
<1>2. /\ Run!Rows = [k \in Kept |-> Run!Rows[k]] /\ byRow = [k \in Kept |-> byRow[k]]
      /\ \A k \in Kept : byRow[k] = IF k = at THEN runCommand.rows ELSE Run!Rows[k]
  BY <1>1 DEF SessionInv, Shapes, Run!Rows
<1>3. unseen \/ (Run!Rows = rowsFile /\ \A k \in Kept : rowsFile[k] = shownRows[k])
  BY <1>1 DEF SessionInv, KeptArePrinted, Run!Rows
<1> HIDE DEF byRow
<1>4. CASE wrote
  <2>1. /\ rowsFile' = byRow /\ runPhase' = runPhase /\ unseen' = unseen
        /\ runCommand' = [at |-> at, rows |-> runCommand.rows, saved |-> TRUE, thing |-> runCommand.thing, meant |-> runCommand.meant]
    BY <1>1, <1>4 DEF SessionInv, Shapes
  <2>2. Shapes'
    BY <1>1, <1>2, <2>1 DEF SessionInv, Shapes
  <2>3. KeptArePrinted'
    <3>1. runCommand'.saved = TRUE /\ runCommand'.at = at /\ runCommand'.rows = runCommand.rows /\ last'.rows = rowsFile'
      BY <1>1, <2>1
    <3>2. unseen \/ \A k \in Kept : rowsFile'[k] = IF k = at THEN runCommand.rows ELSE shownRows[k]
      BY <1>2, <1>3, <2>1
    <3> QED BY <1>1, <2>1, <3>1, <3>2 DEF KeptArePrinted
  <2>4. ThingIsMeant'
    <3>1. runCommand'.at = runCommand.at /\ runCommand'.meant = runCommand.meant /\ runCommand'.thing = runCommand.thing
      BY <2>1
    <3> QED BY <1>1, <2>1, <3>1 DEF SessionInv, ThingIsMeant, Run!RowsAreAsPrinted
  <2>5. WayOut'
    BY <1>1, <2>1 DEF SessionInv, WayOut
  <2> QED BY <2>2, <2>3, <2>4, <2>5 DEF SessionInv
<1>5. CASE ~wrote
  <2>1. /\ unseen' = (unseen \/ runCommand.rows # shownRows[at]) /\ UNCHANGED rowsFile /\ Run!Fails
        /\ runCommand' = [at |-> "none", rows |-> <<>>, saved |-> FALSE, thing |-> Nothing, meant |-> Nothing]
    BY <1>1, <1>5 DEF Run!Fails, Run!Idle
  <2>2. Shapes'
    BY <1>1, <1>2, <2>1 DEF SessionInv, Shapes
  <2>3. unseen' \/ byRow = rowsFile
    <3>1. SUFFICES ASSUME ~unseen' PROVE byRow = rowsFile
      OBVIOUS
    <3>2. ~unseen /\ runCommand.rows = shownRows[at]
      BY <2>1, <3>1
    <3>3. \A k \in Kept : byRow[k] = rowsFile[k]
      BY <1>1, <1>2, <1>3, <3>2
    <3> QED BY <1>2, <3>3 DEF SessionInv, Shapes
  <2>4. KeptArePrinted'
    <3>1. runCommand'.saved = FALSE /\ last'.rows = byRow
      BY <1>1, <2>1
    <3>2. unseen' \/ ~unseen
      BY <2>1
    <3> QED BY <1>1, <1>3, <2>1, <2>3, <3>1, <3>2 DEF KeptArePrinted
  <2>5. ThingIsMeant'
    <3>1. runCommand'.at = "none"
      BY <2>1
    <3> QED BY <1>1, <3>1 DEF SessionInv, ThingIsMeant, Run!RowsAreAsPrinted
  <2>6. WayOut'
    BY <1>1, <2>1 DEF SessionInv, WayOut, Run!Fails
  <2> QED BY <2>2, <2>4, <2>5, <2>6 DEF SessionInv
<1> QED BY <1>4, <1>5

LEMMA ListingIsPrinted ==
    ASSUME Run!SessionConstants, SessionInv, Run!Prints
    PROVE  SessionInv'
<1> DEFINE at == runCommand.at
<1>1. /\ (at \in Fresh \/ runCommand.saved) /\ shownRows' = [shownRows EXCEPT ![at] = runCommand.rows]
      /\ runCommand' = [at |-> "none", rows |-> <<>>, saved |-> FALSE, thing |-> Nothing, meant |-> Nothing]
      /\ UNCHANGED <<last, rowsFile, founding, acted, unseen, shifted, hurried, runPhase>>
  BY DEF Run!Prints, Run!Ends, Run!Idle
<1>2. shownRows' = [shownRows EXCEPT ![at] = runCommand.rows] /\ (at \in Fresh \/ runCommand.saved)
  BY DEF Run!Prints
<1>3. Shapes'
  BY <1>1, <1>2 DEF SessionInv, Shapes
<1>4. \A k \in Kept : shownRows'[k] = IF k = at THEN runCommand.rows ELSE shownRows[k]
  BY <1>2 DEF SessionInv, Shapes, Run!Kinds
<1>5. at \in Kept => runCommand.saved
  BY <1>2 DEF Run!SessionConstants
<1>6. unseen \/ \A k \in Kept : rowsFile[k] = shownRows'[k]
  BY <1>4, <1>5 DEF SessionInv, KeptArePrinted
<1>7. KeptArePrinted'
  <2>1. runCommand'.saved = FALSE
    BY <1>1
  <2> QED BY <1>1, <1>6, <2>1 DEF SessionInv, KeptArePrinted
<1>8. ThingIsMeant'
  <2>1. runCommand'.at = "none"
    BY <1>1
  <2> QED BY <1>1, <2>1 DEF SessionInv, ThingIsMeant, Run!RowsAreAsPrinted
<1>9. WayOut'
  BY <1>1 DEF SessionInv, WayOut
<1> QED BY <1>3, <1>7, <1>8, <1>9 DEF SessionInv

LEMMA RowIsNamed ==
    ASSUME Run!SessionConstants, SessionInv, NEW k \in Run!Kinds, NEW row \in 1 .. 2, Run!ByRow(k, row)
    PROVE  SessionInv'
<1> DEFINE byRow == IF k \in Kept THEN Run!Rows[k] ELSE now[k]
           thing == Run!At(byRow, row)
           meant == Run!At(shownRows[k], row)
<1>1. /\ runCommand = Run!Idle /\ runPhase = "commands"
      /\ last' = IF k \in Kept THEN [read |-> TRUE, rows |-> Run!Rows] ELSE last
      /\ shifted' = (shifted \/ (k \in Fresh /\ now[k] # shownRows[k]))
      /\ UNCHANGED <<shownRows, rowsFile, founding, acted, unseen, hurried>>
  BY DEF Run!ByRow, Run!Begin
<1>2. \/ Run!Fails
      \/ /\ UNCHANGED runPhase
         /\ \E asks \in BOOLEAN : runCommand' = [Run!Idle EXCEPT !.at = IF asks THEN "asks" ELSE "acts", !.thing = thing, !.meant = meant]
  BY DEF Run!ByRow
<1> HIDE DEF thing, meant
<1>3. /\ runCommand' = [at |-> runCommand'.at, rows |-> <<>>, saved |-> FALSE, thing |-> runCommand'.thing, meant |-> runCommand'.meant]
      /\ runCommand'.at \in {"asks", "acts"} => runCommand'.thing = thing /\ runCommand'.meant = meant
  <2>1. CASE Run!Fails
    <3>1. runCommand' = [at |-> "none", rows |-> <<>>, saved |-> FALSE, thing |-> Nothing, meant |-> Nothing]
      BY <2>1 DEF Run!Fails, Run!Idle
    <3> QED BY <3>1
  <2>2. CASE \E asks \in BOOLEAN : runCommand' = [Run!Idle EXCEPT !.at = IF asks THEN "asks" ELSE "acts", !.thing = thing, !.meant = meant]
    <3>1. PICK a : runCommand' = [Run!Idle EXCEPT !.at = a, !.thing = thing, !.meant = meant]
      BY <2>2
    <3>2. runCommand' = [at |-> a, rows |-> <<>>, saved |-> FALSE, thing |-> thing, meant |-> meant]
      BY <3>1, RowCommandIs
    <3> QED BY <3>2
  <2> QED BY <1>2, <2>1, <2>2
<1>4. runCommand.saved = FALSE
  BY <1>1, IdleIs
<1>5. unseen \/ (Run!Rows = rowsFile /\ \A j \in Kept : rowsFile[j] = shownRows[j])
  BY <1>4 DEF SessionInv, KeptArePrinted, Run!Rows
<1>6. unseen \/ shifted' \/ thing = meant
  <2>1. CASE k \in Kept
    BY <1>5, <2>1 DEF thing, meant
  <2>2. CASE k \notin Kept
    <3>1. k \in Fresh
      BY <2>2 DEF Run!Kinds
    <3> QED BY <1>1, <2>2, <3>1 DEF thing, meant
  <2> QED BY <2>1, <2>2
<1>7. Shapes'
  <2>1. Run!Rows = [j \in Kept |-> Run!Rows[j]]
    BY DEF SessionInv, Shapes, Run!Rows
  <2>2. last' = [read |-> last'.read, rows |-> last'.rows] /\ last'.read \in BOOLEAN /\ last'.rows = [j \in Kept |-> last'.rows[j]]
    BY <1>1, <2>1 DEF SessionInv, Shapes
  <2>3. runCommand'.saved = FALSE /\ runCommand'.rows = <<>>
    BY <1>3
  <2>4. runCommand' = [at |-> runCommand'.at, rows |-> runCommand'.rows, saved |-> runCommand'.saved,
                       thing |-> runCommand'.thing, meant |-> runCommand'.meant]
    BY <1>3, <2>3
  <2>5. rowsFile' = [j \in Kept |-> rowsFile'[j]] /\ shownRows' = [j \in Run!Kinds |-> shownRows'[j]]
    BY <1>1 DEF SessionInv, Shapes
  <2> QED BY <2>2, <2>3, <2>4, <2>5 DEF Shapes
<1>8. KeptArePrinted'
  <2>1. runCommand'.saved = FALSE
    BY <1>3
  <2>2. unseen \/ (last'.read => last'.rows = rowsFile)
    BY <1>1, <1>5 DEF SessionInv, KeptArePrinted
  <2> QED BY <1>1, <1>5, <2>1, <2>2 DEF KeptArePrinted
<1>9. ThingIsMeant'
  <2>1. unseen' \/ shifted' \/ (runCommand'.at \in {"asks", "acts"} => runCommand'.meant = runCommand'.thing)
    BY <1>1, <1>3, <1>6
  <2> QED BY <1>1, <2>1 DEF SessionInv, ThingIsMeant, Run!RowsAreAsPrinted
<1>10. WayOut'
  BY <1>1, <1>2 DEF SessionInv, WayOut, Run!Fails
<1> QED BY <1>7, <1>8, <1>9, <1>10 DEF SessionInv

LEMMA ThingIsActedOn ==
    ASSUME Run!SessionConstants, SessionInv, \E b \in BOOLEAN : Run!Answer(b) \/ Run!Act(b)
    PROVE  SessionInv'
<1>1. /\ runCommand.at \in {"asks", "acts"}
      /\ UNCHANGED <<shownRows, last, rowsFile, founding, unseen, shifted, hurried>>
  BY DEF Run!Answer, Run!Act, Run!rowVars
<1>2. runCommand.saved = FALSE
  BY <1>1 DEF SessionInv, Shapes, KeptArePrinted, Run!SessionConstants
<1>3. \/ Run!Fails /\ acted' = acted
      \/ runCommand' = [runCommand EXCEPT !.at = "acts"] /\ UNCHANGED <<runPhase, acted>>
      \/ runCommand' = Run!Idle /\ UNCHANGED runPhase /\ acted' = <<runCommand.meant, runCommand.thing>>
  BY DEF Run!Answer, Run!Act, Run!Ends, Run!rowVars
<1>4. \/ runCommand' = [at |-> "none", rows |-> <<>>, saved |-> FALSE, thing |-> Nothing, meant |-> Nothing]
      \/ runCommand' = [at |-> "acts", rows |-> runCommand.rows, saved |-> runCommand.saved,
                        thing |-> runCommand.thing, meant |-> runCommand.meant]
  BY <1>3 DEF SessionInv, Shapes, Run!Fails, Run!Idle
<1>5. Shapes' /\ KeptArePrinted'
  <2>1. /\ runCommand' = [at |-> runCommand'.at, rows |-> runCommand'.rows, saved |-> runCommand'.saved,
                          thing |-> runCommand'.thing, meant |-> runCommand'.meant]
        /\ runCommand'.saved = FALSE
    BY <1>2, <1>4
  <2> QED BY <1>1, <1>2, <2>1, RowsStayKept
<1>6. ThingIsMeant'
  <2>1. unseen \/ shifted \/ runCommand.meant = runCommand.thing
    BY <1>1 DEF SessionInv, ThingIsMeant
  <2>2. unseen \/ shifted \/ (runCommand'.at \in {"asks", "acts"} => runCommand'.meant = runCommand'.thing)
    BY <1>4, <2>1
  <2>3. acted' = acted \/ acted' = <<runCommand.meant, runCommand.thing>>
    BY <1>3
  <2> QED BY <1>1, <2>1, <2>2, <2>3 DEF SessionInv, ThingIsMeant, Run!RowsAreAsPrinted
<1>7. WayOut'
  BY <1>1, <1>3 DEF SessionInv, WayOut, Run!Fails
<1> QED BY <1>5, <1>6, <1>7 DEF SessionInv

LEMMA SessionStep ==
    Run!SessionConstants /\ SessionInv /\ [Run!SessionNext]_(Run!sessionVars) => SessionInv'
BY RunsKeep, RunBegins, RunDies, CommandsKeep, ListingIsKept, ListingIsPrinted, RowIsNamed, ThingIsActedOn, Zenon
   DEF Run!SessionNext

LEMMA SessionHonest == SessionInv => Run!RowsAreAsPrinted /\ Run!FoundedIsStarted
BY DEF SessionInv, ThingIsMeant, WayOut, Run!FoundedIsStarted

(* The types of a session, each action with what it changes. *)
LEMMA NothingListed == <<>> \in Run!Listings
<1>1. <<>> \in [1 .. 0 -> Things]
  OBVIOUS
<1>2. <<>> \in Run!SeqOf(Things, 2)
  BY <1>1 DEF Run!SeqOf
<1>3. Run!IsInjective(<<>>)
  BY DEF Run!IsInjective
<1> QED BY <1>2, <1>3 DEF Run!Listings

LEMMA SessionTypesBegin == Run!SessionConstants /\ Run!SessionInit => Run!SessionTypeOK
<1> SUFFICES ASSUME Run!SessionConstants, Run!SessionInit PROVE Run!SessionTypeOK
  OBVIOUS
<1>1. <<>> \in Run!Listings
  BY NothingListed
<1>2. MaxCommands \in Nat /\ MaxMoves \in Nat
  BY DEF Run!SessionConstants
<1> DEFINE L == Run!Listings
<1> HIDE DEF L
<1>3. <<>> \in L
  BY <1>1 DEF L
<1>4. /\ now \in [Run!Kinds -> L] /\ shownRows \in [Run!Kinds -> L] /\ rowsFile \in [Kept -> L]
      /\ last = [read |-> FALSE, rows |-> [k \in Kept |-> <<>>]]
      /\ runCommand = [at |-> "none", rows |-> <<>>, saved |-> FALSE, thing |-> Nothing, meant |-> Nothing]
      /\ runPhase = "off" /\ atPrompt = FALSE /\ up = FALSE /\ moves = 0 /\ commands = 0 /\ founding = "none"
      /\ acted = <<Nothing, Nothing>> /\ unseen = FALSE /\ shifted = FALSE /\ hurried = FALSE
  BY <1>3 DEF Run!SessionInit, Run!Idle, Run!NoRows
<1>5. last.read \in BOOLEAN /\ last.rows \in [Kept -> L]
  BY <1>3, <1>4
<1>6. /\ runCommand.at \in {"none", "asks", "acts"} \cup Run!Kinds /\ runCommand.rows \in L
      /\ runCommand.saved \in BOOLEAN /\ {runCommand.thing, runCommand.meant} \subseteq Things \cup {Nothing}
  BY <1>3, <1>4
<1>7. commands \in 0 .. MaxCommands /\ moves \in 0 .. MaxMoves
  BY <1>2, <1>4
<1> QED BY <1>4, <1>5, <1>6, <1>7 DEF Run!SessionTypeOK, L

RunTypes ==
    /\ runPhase \in {"off", "starting", "settling", "commands", "background", "draining", "stopping"}
    /\ atPrompt \in BOOLEAN /\ up \in BOOLEAN /\ unseen \in BOOLEAN /\ shifted \in BOOLEAN /\ hurried \in BOOLEAN
    /\ commands \in 0 .. MaxCommands /\ moves \in 0 .. MaxMoves /\ founding \in {"none", "published", "started"}

RowTypes ==
    /\ now \in [Run!Kinds -> Run!Listings] /\ shownRows \in [Run!Kinds -> Run!Listings]
    /\ last.read \in BOOLEAN /\ last.rows \in [Kept -> Run!Listings] /\ rowsFile \in [Kept -> Run!Listings]

Named == Things \cup {Nothing}

ThingTypes ==
    /\ runCommand.at \in {"none", "asks", "acts"} \cup Run!Kinds /\ runCommand.rows \in Run!Listings
    /\ runCommand.saved \in BOOLEAN /\ runCommand.thing \in Named /\ runCommand.meant \in Named
    /\ acted \in Named \X Named

LEMMA SessionTypesAre == Run!SessionTypeOK <=> RunTypes /\ RowTypes /\ ThingTypes
<1>1. {runCommand.thing, runCommand.meant} \subseteq Named <=> runCommand.thing \in Named /\ runCommand.meant \in Named
  OBVIOUS
<1> QED BY <1>1 DEF Run!SessionTypeOK, RunTypes, RowTypes, ThingTypes, Named

LEMMA RunTypesStay ==
    ASSUME Run!SessionConstants, SessionInv, RunTypes, [Run!SessionNext]_(Run!sessionVars) PROVE RunTypes'
<1>0. MaxCommands \in Nat /\ MaxMoves \in Nat
  BY DEF Run!SessionConstants
<1>1. /\ runPhase' \in {"off", "starting", "settling", "commands", "background", "draining", "stopping"}
      /\ founding' \in {"none", "published", "started"}
  BY DEF RunTypes, Run!SessionNext, Run!Settled, Run!Leave, Run!Founded, Run!Drained, Run!Stopped, Run!Killed,
         Run!WithoutNode, Run!Prints, Run!Invite, Run!Start, Run!Ready, Run!BackgroundDone, Run!Remember, Run!Answer,
         Run!Act, Run!List, Run!Moves, Run!ByRow, Run!Fails, Run!Ends, Run!runVars, Run!sessionVars
<1>2. commands' = commands \/ (commands < MaxCommands /\ commands' = commands + 1)
  BY DEF Run!SessionNext, Run!Settled, Run!Leave, Run!Founded, Run!Drained, Run!Stopped, Run!Killed,
         Run!WithoutNode, Run!Prints, Run!Invite, Run!Start, Run!Ready, Run!BackgroundDone, Run!Remember, Run!Answer,
         Run!Act, Run!List, Run!Moves, Run!ByRow, Run!Begin, Run!sessionVars
<1>3. moves' = moves \/ (moves < MaxMoves /\ moves' = moves + 1)
  BY DEF Run!SessionNext, Run!Settled, Run!Leave, Run!Founded, Run!Drained, Run!Stopped, Run!Killed,
         Run!WithoutNode, Run!Prints, Run!Invite, Run!Start, Run!Ready, Run!BackgroundDone, Run!Remember, Run!Answer,
         Run!Act, Run!List, Run!Moves, Run!ByRow, Run!listVars, Run!sessionVars
<1>4. commands' \in 0 .. MaxCommands /\ moves' \in 0 .. MaxMoves
  BY <1>0, <1>2, <1>3 DEF RunTypes
<1>5. atPrompt' \in BOOLEAN /\ up' \in BOOLEAN
  BY DEF RunTypes, Run!SessionNext, Run!Settled, Run!Leave, Run!Founded, Run!Drained, Run!Stopped, Run!Killed,
         Run!WithoutNode, Run!Prints, Run!Invite, Run!Start, Run!Ready, Run!BackgroundDone, Run!Remember, Run!Answer,
         Run!Act, Run!List, Run!Moves, Run!ByRow, Run!runVars, Run!sessionVars
<1>6. hurried' = hurried \/ hurried' = (hurried \/ founding = "published")
  BY DEF Run!SessionNext, Run!Settled, Run!Leave, Run!Founded, Run!Drained, Run!Stopped, Run!Killed,
         Run!WithoutNode, Run!Prints, Run!Invite, Run!Start, Run!Ready, Run!BackgroundDone, Run!Remember, Run!Answer,
         Run!Act, Run!List, Run!Moves, Run!ByRow, Run!runVars, Run!sessionVars
<1>7. \/ unseen' = unseen
      \/ unseen' = (unseen \/ runCommand.saved)
      \/ unseen' = (unseen \/ runCommand.rows # shownRows[runCommand.at])
  BY DEF Run!SessionNext, Run!Settled, Run!Leave, Run!Founded, Run!Drained, Run!Stopped, Run!Killed,
         Run!WithoutNode, Run!Prints, Run!Invite, Run!Start, Run!Ready, Run!BackgroundDone, Run!Remember, Run!Answer,
         Run!Act, Run!List, Run!Moves, Run!ByRow, Run!rowVars, Run!sessionVars
<1>8. shifted' \in BOOLEAN
  BY DEF RunTypes, Run!SessionNext, Run!Settled, Run!Leave, Run!Founded, Run!Drained, Run!Stopped, Run!Killed,
         Run!WithoutNode, Run!Prints, Run!Invite, Run!Start, Run!Ready, Run!BackgroundDone, Run!Remember, Run!Answer,
         Run!Act, Run!List, Run!Moves, Run!ByRow, Run!rowVars, Run!sessionVars
<1>9. hurried' \in BOOLEAN
  BY <1>6 DEF RunTypes
<1>10. unseen' \in BOOLEAN
  BY <1>7 DEF RunTypes
<1> QED BY <1>1, <1>4, <1>5, <1>8, <1>9, <1>10 DEF RunTypes

LEMMA IdleIsTyped ==
    ASSUME Run!SessionConstants, RowTypes, ThingTypes, runCommand' = Run!Idle, acted' = acted \/ acted' \in Named \X Named
    PROVE  ThingTypes'
<1>1. <<>> \in Run!Listings
  BY NothingListed
<1>2. runCommand' = [at |-> "none", rows |-> <<>>, saved |-> FALSE, thing |-> Nothing, meant |-> Nothing]
  BY DEF Run!Idle
<1> QED BY <1>1, <1>2 DEF ThingTypes, Named

LEMMA RowsAndThingsStay ==
    ASSUME Run!SessionConstants, SessionInv, RunTypes, RowTypes, ThingTypes, [Run!SessionNext]_(Run!sessionVars)
    PROVE  RowTypes' /\ ThingTypes'
<1> DEFINE L == Run!Listings
<1> HIDE DEF L
<1>0. /\ now \in [Run!Kinds -> L] /\ shownRows \in [Run!Kinds -> L]
      /\ last.read \in BOOLEAN /\ last.rows \in [Kept -> L] /\ rowsFile \in [Kept -> L] /\ runCommand.rows \in L
  BY DEF RowTypes, ThingTypes, L
<1>1. Run!Rows \in [Kept -> L]
  BY <1>0 DEF Run!Rows
<1>2. CASE \/ Run!Settled \/ Run!Leave \/ Run!Founded \/ Run!Drained \/ Run!Stopped \/ Run!Invite \/ UNCHANGED Run!sessionVars
           \/ \E b \in BOOLEAN : Run!Ready(b) \/ Run!BackgroundDone(b)
  <2>1. UNCHANGED <<now, shownRows, last, rowsFile, runCommand, acted>>
    BY <1>2 DEF Run!Settled, Run!Leave, Run!Founded, Run!Drained, Run!Stopped, Run!Invite, Run!sessionVars, Run!Ready,
         Run!BackgroundDone, Run!rowVars, Run!listVars
  <2> QED BY <2>1 DEF RowTypes, ThingTypes
<1>3. CASE \E k \in Run!Kinds, listing \in Run!Listings : Run!Moves(k, listing)
  <2>1. PICK k \in Run!Kinds, listing \in L : now' = [now EXCEPT ![k] = listing]
    BY <1>3 DEF Run!Moves, L
  <2>2. UNCHANGED <<shownRows, last, rowsFile, runCommand, acted>>
    BY <1>3 DEF Run!Moves, Run!rowVars
  <2>3. now' \in [Run!Kinds -> L]
    BY <1>0, <2>1
  <2> QED BY <2>2, <2>3 DEF RowTypes, ThingTypes, L
<1>4. CASE \E b \in BOOLEAN : Run!Start(b)
  <2>1. last' = [read |-> FALSE, rows |-> Run!NoRows] /\ UNCHANGED <<now, shownRows, rowsFile, runCommand, acted>>
    BY <1>4 DEF Run!Start, Run!listVars
  <2>2. ThingTypes' /\ Run!Idle.rows \in Run!Listings
    <3>1. <<>> \in Run!Listings
      BY NothingListed
    <3> QED BY <2>1, <3>1 DEF ThingTypes, Run!Idle
  <2>3. Run!NoRows \in [Kept -> Run!Listings]
    BY <2>2 DEF Run!NoRows, Run!Idle
  <2> QED BY <2>1, <2>2, <2>3 DEF RowTypes
<1>5. CASE Run!Killed \/ Run!WithoutNode
  <2>1. UNCHANGED <<now, shownRows, last, rowsFile, acted>> /\ runCommand' = Run!Idle
    BY <1>5 DEF Run!Killed, Run!WithoutNode, Run!Fails, Run!rowVars, Run!listVars
  <2>2. ThingTypes'
    BY <2>1, IdleIsTyped
  <2> QED BY <2>1, <2>2 DEF RowTypes
<1>6. CASE \E k \in Run!Kinds : Run!List(k)
  <2>1. PICK k \in Run!Kinds, r \in Run!Listings : runCommand' = [Run!Idle EXCEPT !.at = k, !.rows = r]
    BY <1>6 DEF Run!List, Run!PartsOf
  <2>2. UNCHANGED <<now, shownRows, last, rowsFile, acted>>
    BY <1>6 DEF Run!List, Run!rowVars, Run!listVars
  <2>3. runCommand' = [at |-> k, rows |-> r, saved |-> FALSE, thing |-> Nothing, meant |-> Nothing]
    BY <2>1, ListingIs
  <2>4. Nothing \in Named /\ k \in {"none", "asks", "acts"} \cup Run!Kinds
    BY DEF Named
  <2>5. /\ runCommand'.at = k /\ runCommand'.rows = r /\ runCommand'.saved = FALSE
        /\ runCommand'.thing = Nothing /\ runCommand'.meant = Nothing
    BY <2>3
  <2>6. Run!Kinds' = Run!Kinds /\ Run!Listings' = Run!Listings
    OBVIOUS
  <2>7. ThingTypes'
    BY <2>2, <2>4, <2>5 DEF ThingTypes
  <2> QED BY <2>2, <2>7 DEF RowTypes
<1>7. ASSUME NEW b \in BOOLEAN, Run!Remember(b) PROVE RowTypes' /\ ThingTypes'
  <2> DEFINE byRow == [Run!Rows EXCEPT ![runCommand.at] = runCommand.rows]
  <2>1. /\ last' = [read |-> TRUE, rows |-> byRow] /\ UNCHANGED <<now, shownRows, acted>>
        /\ rowsFile' = byRow \/ rowsFile' = rowsFile
        /\ runCommand' = [runCommand EXCEPT !.saved = TRUE] \/ runCommand' = Run!Idle
    BY <1>7 DEF Run!Remember, Run!Fails, Run!listVars
  <2>2. byRow \in [Kept -> L]
    BY <1>0, <1>1
  <2> HIDE DEF byRow
  <2>3. RowTypes'
    BY <1>0, <2>1, <2>2 DEF RowTypes, L
  <2>4. ThingTypes'
    <3>1. CASE runCommand' = Run!Idle
      BY <2>1, <3>1, IdleIsTyped
    <3>2. CASE runCommand' = [runCommand EXCEPT !.saved = TRUE]
      <4>1. runCommand' = [at |-> runCommand.at, rows |-> runCommand.rows, saved |-> TRUE,
                           thing |-> runCommand.thing, meant |-> runCommand.meant]
        BY <3>2 DEF SessionInv, Shapes
      <4> QED BY <2>1, <4>1 DEF ThingTypes
    <3> QED BY <2>1, <3>1, <3>2
  <2> QED BY <2>3, <2>4
<1>8. CASE Run!Prints
  <2>1. shownRows' = [shownRows EXCEPT ![runCommand.at] = runCommand.rows] /\ runCommand' = Run!Idle
        /\ UNCHANGED <<now, last, rowsFile, acted>>
    BY <1>8 DEF Run!Prints, Run!Ends, Run!listVars
  <2>2. shownRows' \in [Run!Kinds -> L]
    BY <1>0, <2>1
  <2>3. ThingTypes'
    BY <2>1, IdleIsTyped
  <2> QED BY <2>1, <2>2, <2>3 DEF RowTypes, L
<1>9. ASSUME NEW k \in Run!Kinds, NEW row \in 1 .. 2, Run!ByRow(k, row) PROVE RowTypes' /\ ThingTypes'
  <2> DEFINE thing == Run!At(IF k \in Kept THEN Run!Rows[k] ELSE now[k], row)
             meant == Run!At(shownRows[k], row)
  <2>1. /\ last' = (IF k \in Kept THEN [read |-> TRUE, rows |-> Run!Rows] ELSE last)
        /\ UNCHANGED <<now, shownRows, rowsFile, acted>>
        /\ \/ runCommand' = Run!Idle
           \/ \E a \in {"asks", "acts"} : runCommand' = [Run!Idle EXCEPT !.at = a, !.thing = thing, !.meant = meant]
    BY <1>9 DEF Run!ByRow, Run!Fails, Run!listVars
  <2>2. RowTypes'
    <3>1. last' = last \/ (last'.read = TRUE /\ last'.rows = Run!Rows)
      BY <2>1
    <3> QED BY <1>0, <1>1, <2>1, <3>1 DEF RowTypes, L
  <2>3. ASSUME NEW s \in L PROVE Run!At(s, row) \in Named
    <3>1. PICK n \in 0 .. 2 : s \in [1 .. n -> Things]
      BY <2>3 DEF L, Run!Listings, Run!SeqOf
    <3> QED BY <3>1 DEF Run!At, Named
  <2>4. (IF k \in Kept THEN Run!Rows[k] ELSE now[k]) \in L /\ shownRows[k] \in L
    BY <1>0, <1>1
  <2>5. thing \in Named /\ meant \in Named
    BY <2>3, <2>4
  <2> HIDE DEF thing, meant
  <2>6. ThingTypes'
    <3>1. CASE runCommand' = Run!Idle
      BY <2>1, <3>1, IdleIsTyped
    <3>2. ASSUME NEW a \in {"asks", "acts"}, runCommand' = [Run!Idle EXCEPT !.at = a, !.thing = thing, !.meant = meant]
          PROVE  ThingTypes'
      <4>1. runCommand' = [at |-> a, rows |-> <<>>, saved |-> FALSE, thing |-> thing, meant |-> meant]
        BY <3>2, RowCommandIs
      <4>2. <<>> \in Run!Listings
        BY NothingListed
      <4> QED BY <2>1, <2>5, <4>1, <4>2 DEF ThingTypes
    <3> QED BY <2>1, <3>1, <3>2
  <2> QED BY <2>2, <2>6
<1>10. ASSUME NEW b \in BOOLEAN, Run!Answer(b) \/ Run!Act(b) PROVE RowTypes' /\ ThingTypes'
  <2>1. UNCHANGED <<now, shownRows, last, rowsFile>>
    BY <1>10 DEF Run!Answer, Run!Act, Run!rowVars, Run!listVars
  <2>2. /\ runCommand' = Run!Idle \/ runCommand' = [runCommand EXCEPT !.at = "acts"]
        /\ acted' = acted \/ acted' = <<runCommand.meant, runCommand.thing>>
    BY <1>10 DEF Run!Answer, Run!Act, Run!Fails, Run!Ends, Run!rowVars
  <2>3. acted' \in Named \X Named
    BY <2>2 DEF ThingTypes
  <2>4. CASE runCommand' = Run!Idle
    BY <2>1, <2>3, <2>4, IdleIsTyped DEF RowTypes
  <2>5. CASE runCommand' = [runCommand EXCEPT !.at = "acts"]
    <3>1. runCommand' = [at |-> "acts", rows |-> runCommand.rows, saved |-> runCommand.saved,
                         thing |-> runCommand.thing, meant |-> runCommand.meant]
      BY <2>5 DEF SessionInv, Shapes
    <3> QED BY <2>1, <2>3, <3>1 DEF RowTypes, ThingTypes
  <2> QED BY <2>2, <2>4, <2>5
<1> QED BY <1>2, <1>3, <1>4, <1>5, <1>6, <1>7, <1>8, <1>9, <1>10, Zenon DEF Run!SessionNext

LEMMA SessionHoldsAlone ==
    ASSUME Run!SessionConstants
    PROVE  Run!SessionInit /\ [][Run!SessionNext]_(Run!sessionVars) =>
              [](Run!SessionTypeOK /\ Run!RowsAreAsPrinted /\ Run!FoundedIsStarted)
<1>1. Run!SessionInit => SessionInv /\ Run!SessionTypeOK
  BY SessionInitInv, SessionTypesBegin
<1>2. SessionInv /\ Run!SessionTypeOK /\ [Run!SessionNext]_(Run!sessionVars) => SessionInv' /\ Run!SessionTypeOK'
  <2>1. SUFFICES ASSUME SessionInv, Run!SessionTypeOK, [Run!SessionNext]_(Run!sessionVars)
                 PROVE  SessionInv' /\ Run!SessionTypeOK'
    OBVIOUS
  <2>2. RunTypes /\ RowTypes /\ ThingTypes
    BY <2>1, SessionTypesAre
  <2>3. RunTypes' /\ RowTypes' /\ ThingTypes'
    BY <2>1, <2>2, RunTypesStay, RowsAndThingsStay
  <2>4. Run!SessionTypeOK'
    BY <2>3, SessionTypesAre, PTL
  <2> QED BY <2>1, <2>4, SessionStep
<1>3. SessionInv => Run!RowsAreAsPrinted /\ Run!FoundedIsStarted
  BY SessionHonest
<1> QED BY <1>1, <1>2, <1>3, PTL


-----------------------------------------------------------------------------
(***************************************************************************)
(* Codes.                                                                  *)
(* CodesAreRead, for any invitations and machines.  A text is read as what *)
(* it was made as whatever way it comes, form by form; and what the camera *)
(* took last is in the field, or was typed over.                           *)
(***************************************************************************)
CodesInv ==
    /\ textRead.way \in Reading!Ways \cup {"none"} /\ textRead.text \in Reading!Texts
    /\ Reading!ReadAsMade /\ Reading!ScannedIsInView
    /\ {inView, scannedValue, handledRef} \subseteq Reading!Texts
    /\ edited \in BOOLEAN
    /\ scannedValue = handledRef \/ edited

(* A text read in one of the ways is read as what it is. *)
LEMMA ReadingIsTrue ==
    ASSUME NEW way \in Reading!Ways, NEW text \in Reading!Texts,
           textRead' = [way |-> way, text |-> text, as |-> Reading!Read(way, text)]
    PROVE  Reading!ReadAsMade'
<1> DEFINE as == Reading!Read(way, text)
<1>1. textRead'.way = way /\ textRead'.text = text /\ textRead'.as = as
  OBVIOUS
<1>2. \A x, y : /\ Reading!Invitation(x).kind = "invitation" /\ Reading!Invitation(x).id = x
                /\ Reading!NodeCode(x).kind = "node" /\ Reading!NodeCode(x).id = x
                /\ Reading!Invitation(x) # Reading!NoCode /\ Reading!NodeCode(x) # Reading!NoCode
                /\ Reading!Invitation(x) # Reading!NodeCode(y)
  BY DEF Reading!Invitation, Reading!NodeCode, Reading!NoCode
<1>3. text.more \in BOOLEAN /\ text.form \in Reading!InviteForms \cup Reading!NodeForms \cup {"other"}
  BY DEF Reading!Texts
<1>4. text \in Reading!Handed => text.form \in {"hash", "code"} /\ text.more = FALSE
  BY DEF Reading!Handed, Reading!buildInviteUrl
<1>5. CASE way = "link"
  BY <1>1, <1>2, <1>3, <1>4, <1>5, Zenon
  DEF Reading!ReadAsMade, Reading!Read, Reading!Routed, Reading!Thing, Reading!InviteForms, Reading!NodeForms
<1>6. CASE way = "dialog"
  BY <1>1, <1>2, <1>3, <1>4, <1>6
  DEF Reading!ReadAsMade, Reading!Read, Reading!Pasted, Reading!readNodeCode, Reading!nodeCodeFromUrl, Reading!Thing,
      Reading!InviteForms, Reading!NodeForms
<1>7. CASE way = "scanner"
  BY <1>1, <1>2, <1>3, <1>4, <1>7
  DEF Reading!ReadAsMade, Reading!Read, Reading!Scanned, Reading!parseInviteToken, Reading!nodeCodeFromUrl, Reading!Thing,
      Reading!InviteForms, Reading!NodeForms
<1>8. CASE way = "join"
  BY <1>1, <1>2, <1>3, <1>4, <1>8
  DEF Reading!ReadAsMade, Reading!Read, Reading!Joined, Reading!parseInviteToken, Reading!Thing,
      Reading!InviteForms, Reading!NodeForms
<1> QED BY <1>5, <1>6, <1>7, <1>8 DEF Reading!Ways

LEMMA CodesInitInv == Reading!CodesInit => CodesInv
<1> SUFFICES ASSUME Reading!CodesInit PROVE CodesInv
  OBVIOUS
<1>1. textRead.way = "none" /\ textRead.text = Reading!NoText /\ textRead.as = Reading!NoCode
  BY DEF Reading!CodesInit, Reading!NotRead
<1>2. Reading!NoText \in Reading!Texts /\ Reading!NoText.form = "other"
  BY DEF Reading!NoText, Reading!Texts
<1>3. Reading!ReadAsMade
  BY <1>1, <1>2 DEF Reading!ReadAsMade
<1> QED BY <1>1, <1>2, <1>3 DEF Reading!CodesInit, CodesInv, Reading!ScannedIsInView

LEMMA CodesStep == CodesInv /\ [Reading!CodesNext]_(Reading!codesVars) => CodesInv'
<1> SUFFICES ASSUME CodesInv, [Reading!CodesNext]_(Reading!codesVars) PROVE CodesInv'
  OBVIOUS
<1>1. ASSUME NEW text \in Reading!Texts, NEW way \in Reading!Ways, Reading!Open(way, text) PROVE CodesInv'
  <2>1. textRead' = [way |-> way, text |-> text, as |-> Reading!Read(way, text)] /\ UNCHANGED Reading!scannerVars
    BY <1>1 DEF Reading!Open
  <2>2. Reading!ReadAsMade'
    BY <2>1, ReadingIsTrue
  <2>3. textRead'.way = way /\ textRead'.text = text
    BY <2>1
  <2> QED BY <2>1, <2>2, <2>3 DEF CodesInv, Reading!scannerVars, Reading!ScannedIsInView
<1>2. ASSUME Reading!Opened PROVE CodesInv'
  <2>1. /\ textRead' = [way |-> "scanner", text |-> scannedValue, as |-> Reading!Scanned(scannedValue)]
        /\ UNCHANGED Reading!scannerVars
    BY <1>2 DEF Reading!Opened
  <2>2. "scanner" \in Reading!Ways /\ Reading!Read("scanner", scannedValue) = Reading!Scanned(scannedValue)
        /\ scannedValue \in Reading!Texts
    BY DEF Reading!Ways, Reading!Read, CodesInv
  <2>3. Reading!ReadAsMade'
    BY <2>1, <2>2, ReadingIsTrue
  <2>4. textRead'.way = "scanner" /\ textRead'.text = scannedValue
    BY <2>1
  <2> QED BY <2>1, <2>2, <2>3, <2>4 DEF CodesInv, Reading!scannerVars, Reading!ScannedIsInView
<1>3. ASSUME UNCHANGED textRead PROVE Reading!ReadAsMade'
  BY <1>3 DEF CodesInv, Reading!ReadAsMade
<1>4. ASSUME NEW text \in Reading!Texts, Reading!CameraSees(text) \/ Reading!Typed(text) PROVE CodesInv'
  BY <1>3, <1>4 DEF CodesInv, Reading!CameraSees, Reading!Typed, Reading!ScannedIsInView
<1>5. ASSUME NEW granted \in BOOLEAN, Reading!Permission(granted) PROVE CodesInv'
  BY <1>3, <1>5 DEF CodesInv, Reading!Permission, Reading!ScannedIsInView
<1>6. ASSUME Reading!ScannerOpens PROVE CodesInv'
  <2>1. Reading!NoText \in Reading!Texts
    BY DEF Reading!NoText, Reading!Texts
  <2> QED BY <1>3, <1>6, <2>1 DEF CodesInv, Reading!ScannerOpens, Reading!ScannedIsInView
<1>7. ASSUME UNCHANGED Reading!codesVars PROVE CodesInv'
  BY <1>3, <1>7 DEF CodesInv, Reading!codesVars, Reading!ScannedIsInView
<1> QED BY <1>1, <1>2, <1>4, <1>5, <1>6, <1>7, Zenon DEF Reading!CodesNext

LEMMA CodesHoldAlone ==
    Reading!CodesInit /\ [][Reading!CodesNext]_(Reading!codesVars) => []Reading!CodesAreRead
<1>1. CodesInv => Reading!CodesAreRead
  BY DEF CodesInv, Reading!CodesAreRead
<1> QED BY <1>1, CodesInitInv, CodesStep, PTL

-----------------------------------------------------------------------------
(***************************************************************************)
(* The hosts.  Each part begins in Hosts as it does alone, and a step of   *)
(* Hosts is a step of that part or leaves its variables: so what is proved *)
(* of a part alone holds of it in Hosts.                                   *)
(***************************************************************************)

(* The node of the private store is the phone's, or none. *)
LEMMA NodeIsNumbered == Spec => [](node \in Nat)
<1> DEFINE Numbers == gen \in Nat /\ node \in Nat
<1>1. Init => Numbers
  BY DEF Init, Phone!PhoneInit
<1>2. Numbers /\ [Next]_vars => Numbers'
  <2> SUFFICES ASSUME Numbers, [Next]_vars PROVE Numbers'
    OBVIOUS
  <2>1. CASE UNCHANGED <<gen, node>>
    BY <2>1
  <2>2. CASE PhoneStep
    <3>1. gen' \in {gen, gen + 1}
      BY <2>2 DEF PhoneStep, phoneVars, Phone!PhoneSteps, Phone!Crash, Phone!ensureStarted, Phone!StartReads,
                  Phone!StartWith, Phone!Build, Phone!StartEnds, Phone!LateRestartEnds, Phone!LateHooksEnd,
                  Phone!StartFails, Phone!stop, Phone!applyRelays, Phone!Apply, Phone!RelaysRead,
                  Phone!setNoiseCryptoMode, Phone!setSendMode, Phone!RestartEnds, Phone!HooksEnd,
                  Phone!RestartFails
    <3>2. node' \in {gen', 0}
      BY <2>2 DEF PhoneStep, NodeOf
    <3> QED BY <3>1, <3>2
  <2> QED BY <2>1, <2>2 DEF Next, vars, Serchat, CommandNext, HostNext, DecisionNext, DeviceNext, hostVars,
             phoneVars
<1> QED BY <1>1, <1>2, PTL DEF Spec

LEMMA StoreIsPart == Spec => StoreSpec
<1>1. Init => StoreInit
  BY DEF Init
<1>2. [Next]_vars => [StoreNext \/ StoreDies]_storeVars
  BY DEF Next, vars, Serchat, CommandNext, HostNext, PhoneStep, DecisionNext, DeviceNext, hostVars
<1> QED BY <1>1, <1>2, PTL DEF Spec, StoreSpec

LEMMA LockIsPart == Spec => LockSpec
<1>1. Init => LockInit
  BY DEF Init
<1>2. [Next]_vars => [LockNext]_lockVars
  BY DEF Next, vars, Serchat, CommandNext, HostNext, DecisionNext, DeviceNext, hostVars
<1> QED BY <1>1, <1>2, PTL DEF Spec, LockSpec

LEMMA StorageIsPart == Spec => StorageSpec
<1>1. Init => StorageInit
  BY DEF Init
<1>2. [Next]_vars => [StorageNext]_storageVars
  BY DEF Next, vars, Serchat, CommandNext, HostNext, DecisionNext, DeviceNext, hostVars
<1> QED BY <1>1, <1>2, PTL DEF Spec, StorageSpec

LEMMA BatchingIsPart == Spec => BatchSpec
<1>1. Init => BatchInit
  BY DEF Init
<1>2. [Next]_vars => [BatchNext]_batchVars
  BY DEF Next, vars, Serchat, CommandNext, HostNext, DecisionNext, DeviceNext, hostVars
<1> QED BY <1>1, <1>2, PTL DEF Spec, BatchSpec

LEMMA PhoneIsPart == Spec => Phone!PhoneInit /\ [][Phone!PhoneNext]_phoneVars
<1>1. Init => Phone!PhoneInit
  BY DEF Init
<1>2. [Next]_vars => [Phone!PhoneNext]_phoneVars
  BY DEF Next, vars, HostNext, hostVars, PhoneStep, Serchat, Phone!PhoneNext
<1> QED BY <1>1, <1>2, PTL DEF Spec

LEMMA SettingsIsPart == Spec => Choices!AppSettingsInit /\ [][Choices!AppSettingsNext]_settingsVars
<1>1. Init => Choices!AppSettingsInit
  BY DEF Init
<1>2. [Next]_vars => [Choices!AppSettingsNext]_settingsVars
  BY DEF Next, vars, DecisionNext, decisionVars, Serchat
<1> QED BY <1>1, <1>2, PTL DEF Spec

LEMMA RelayingIsPart ==
    Spec => Adding!RelayingInit /\ [][Adding!CommandNext]_relayCommandVars /\ [][Adding!ConfigNext]_configVars
<1>1. Init => Adding!RelayingInit
  BY DEF Init
<1>2. [Next]_vars => [Adding!CommandNext]_relayCommandVars /\ [Adding!ConfigNext]_configVars
  BY DEF Next, vars, CommandNext, commandVars, relayingVars, Serchat
<1> QED BY <1>1, <1>2, PTL DEF Spec

(* Whatever nodes the phone builds meanwhile, and however often it dies, a nickname is read or *)
(* written on a node that has the schema (private-store.ts:41-54), but after an application    *)
(* awaited on another one.                                                                     *)
THEOREM SchemaIsApplied == Spec => []SchemaBeforeUse
BY StoreIsPart, NodeIsNumbered, SchemaAppliedAlone, PTL

(* At most one process has a profile (home.ts:122), for any number of them, unless a takeover *)
(* removed the file of a process that runs.                                                    *)
THEOREM OneProcessPerProfile == Spec => []OneProcess
<1>1. LockConstants
  BY HostsConstants DEF HostsConstants
<1> QED BY <1>1, LockIsPart, OneProcessAlone, PTL

(* No connection is left open behind the cache, and a failed opening is not kept               *)
(* (ns-storage.ts:33-43), however many calls, failures and closings there are.                 *)
THEOREM ConnectionHeld == Spec => []ConnectionIsHeld
<1>1. StorageConstants
  BY HostsConstants DEF HostsConstants
<1> QED BY <1>1, StorageIsPart, ConnectionHeldAlone, PTL

(* A socket carries what its callers sent, in order, and nothing waits without a flush to  *)
(* come (websocket-batching.ts:9-11), for every number of sockets and sends.               *)
THEOREM StreamKept == Spec => []StreamIsKept
BY BatchingIsPart, StreamKeptAlone, PTL

(* The phone's node runs with the settings last asked for (CadreService.ts:270-291, 411-429),  *)
(* no choice of the user is lost to another (relay-offer.md:28), no relay is kept twice and    *)
(* what is removed is what was printed (settings.ts:96-97), for any settings, relays, callers  *)
(* and processes and any number of changes, over failed rebuilds and crashes, unless a setting *)
(* changed during a rebuild, or two changes began from one copy.                               *)
THEOREM SettingsStayInUse == Spec => []SettingsAreInUse
<1>1. Phone!PhoneConstants /\ Adding!RelayingConstants
  BY HostsConstants
<1>2. Phone!PhoneInit /\ [][Phone!PhoneNext]_phoneVars => []Phone!SettingsAreInUse
  BY <1>1, SettingsInUseAlone
<1>3. Adding!RelayingInit /\ [][Adding!CommandNext]_relayCommandVars /\ [][Adding!ConfigNext]_configVars
          => []Adding!RelaysAreNamed
  BY <1>1, RelaysNamedAlone
<1>4. Phone!SettingsAreInUse /\ Choices!ChoicesAreKept /\ Adding!RelaysAreNamed => SettingsAreInUse
  BY DEF SettingsAreInUse
<1> QED BY <1>2, <1>3, <1>4, PhoneIsPart, SettingsIsPart, RelayingIsPart, ChoicesKeptAlone, PTL
=============================================================================
