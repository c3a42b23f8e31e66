---------------------------- MODULE StrandRuntime ----------------------------
(***************************************************************************)
(* StrandRuntime (packages/core/src/sereus/strands.ts) with the join flow  *)
(* of acceptInvitation (sereus/model.ts) and the `joinedStrands` slot      *)
(* (sereus/local-state.ts): how a device's strands come up, are joined and *)
(* are left.  Every await is a boundary between steps, so the start-up     *)
(* sweep, the handlers of offers, joins and leaves interleave.             *)
(*                                                                         *)
(* The node is external.  It offers each strand of the party's control     *)
(* store once per start, keeps an instance once addStrand has resolved,    *)
(* and records a join by itself when it is formed.                         *)
(*                                                                         *)
(* Left out: self-registration's own steps (an attach in progress stays in *)
(* progress while it registers), unsent writes, and the summaries.         *)
(* A name with a suffix (SweepNext_Unguarded) is a faulty variant that no  *)
(* action uses.                                                            *)
(***************************************************************************)
EXTENDS Naturals, FiniteSets

CONSTANTS
    Strands,
    Founded,        \* strands this party founded; it can join the others
    MaxRestarts,    \* bound: restarts of the process, and nodes built in place of a running one
    MaxOperations   \* bound: joins and leaves

ASSUME RuntimeAssumption ==
    /\ Founded \subseteq Strands
    /\ MaxRestarts \in Nat /\ MaxOperations \in Nat

VARIABLES
    \* The node and the party's control store.
    up, gen,            \* running, and which node it is
    restarts,
    control,            \* strands the control store holds a row of (durable)
    offered,            \* getDiscoveredStrands() of this node
    running,            \* getStrands() of this node
    \* StrandRuntime.
    wired,              \* discoveryWired
    drainDue,           \* onRebuilt has not run yet for this node
    boot,               \* boot(): "watch", "failed" or "done"
    attaching,
    attaches,           \* the attaches in progress
    sweep,              \* attachJoined(): by the boot, or behind an accept
    \* The slot, and the operations that rewrite it.
    joined,             \* by strand: no row, one kept, or one marked Left
    accept, leave,
    operations,         \* joins and leaves begun
    \* History.
    tried,              \* strands an attach was begun for on this node
    skipped,            \* offers not followed because of an attach to an earlier node
    remembered,         \* joins remember() has returned for, not made again since
    left,               \* strands leave() has returned for, not joined since
    crossed             \* strands whose row was last written while another operation was between its
                        \* read of the slot and its write, or that were joined again while left

nodeVars == <<up, gen, restarts, control, offered>>
slotVars == <<joined, accept, leave, operations, remembered, left, crossed>>
attachVars == <<running, attaching, attaches, tried, skipped>>
bootVars == <<wired, drainDue, boot>>
vars == <<nodeVars, slotVars, attachVars, bootVars, sweep>>

Sweeps == {"boot", "behind"}
Rows == {"none", "kept", "left"}
NoList == [s \in Strands |-> "none"]
Idle == [pc |-> "no", list |-> NoList, gen |-> 0]
NoSweep == [pc |-> "no", todo |-> {}, gen |-> 0]

Attach(by, s, g) == [by |-> by, strand |-> s, gen |-> g, pc |-> "adding"]
Guarded(a) == a.by # "accept"

-----------------------------------------------------------------------------
(* attachDiscovered: follow an offer, unless the strand runs or is being    *)
(* attached.  Several offers are followed one after the other.              *)
Follow(offers) ==
    LET new == {s \in offers : s \notin attaching /\ s \notin running}
    IN /\ attaching' = attaching \cup new
       /\ attaches' = attaches \cup {Attach("discovered", s, gen) : s \in new}
       /\ tried' = tried \cup new
       /\ skipped' = skipped \cup
            {s \in offers : \E a \in attaches : a.strand = s /\ Guarded(a) /\ a.gen # gen}
       /\ UNCHANGED running

NodeStarts ==
    /\ ~up /\ up' = TRUE
    /\ gen' = gen + 1
    /\ UNCHANGED <<restarts, control, offered, slotVars, attachVars, bootVars, sweep>>

(* The control network offers a stored strand, once; the handler hears it   *)
(* if it is subscribed.                                                     *)
Offer(s) ==
    /\ up /\ s \in control \ offered
    /\ offered' = offered \cup {s}
    /\ IF wired THEN Follow({s}) ELSE UNCHANGED attachVars
    /\ UNCHANGED <<up, gen, restarts, control, slotVars, bootVars, sweep>>

(* The host stops its node and starts another one.  Handlers are attached   *)
(* to every node it builds; the rebuilt hook runs later.                    *)
Rebuild ==
    /\ up /\ restarts < MaxRestarts
    /\ restarts' = restarts + 1
    /\ gen' = gen + 1
    /\ offered' = {} /\ running' = {} /\ tried' = {} /\ skipped' = {}
    /\ drainDue' = wired
    /\ UNCHANGED <<up, control, slotVars, attaching, attaches, wired, boot, sweep>>

drainDiscovered ==
    /\ up /\ drainDue
    /\ drainDue' = FALSE
    /\ Follow(offered)
    /\ UNCHANGED <<nodeVars, slotVars, wired, boot, sweep>>

Crash ==
    /\ restarts < MaxRestarts
    /\ restarts' = restarts + 1
    /\ up' = FALSE
    /\ offered' = {} /\ running' = {} /\ tried' = {} /\ skipped' = {}
    /\ attaching' = {} /\ attaches' = {}
    /\ wired' = FALSE /\ drainDue' = FALSE /\ boot' = "watch"
    /\ sweep' = [t \in Sweeps |-> NoSweep]
    /\ accept' = [s \in Strands |-> Idle] /\ leave' = [s \in Strands |-> Idle]
    /\ UNCHANGED <<gen, control, joined, operations, remembered, left, crossed>>

-----------------------------------------------------------------------------
(* boot() *)

watchDiscovered_NoDrain ==
    /\ boot = "watch" /\ up
    /\ wired' = TRUE /\ boot' = "done"
    /\ sweep' = [sweep EXCEPT !["boot"] = [NoSweep EXCEPT !.pc = "read"]]
    /\ UNCHANGED <<nodeVars, slotVars, attachVars, drainDue>>

(* Once the node is up: subscribe, then drain what was offered before.      *)
watchDiscovered ==
    /\ boot = "watch" /\ up
    /\ wired' = TRUE /\ boot' = "done"
    /\ sweep' = [sweep EXCEPT !["boot"] = [NoSweep EXCEPT !.pc = "read"]]
    /\ Follow(offered)
    /\ UNCHANGED <<nodeVars, slotVars, drainDue>>

(* The node does not start: that is recorded. *)
BootFails ==
    /\ boot = "watch" /\ ~up
    /\ boot' = "failed"
    /\ UNCHANGED <<nodeVars, slotVars, attachVars, wired, drainDue, sweep>>

retryBoot ==
    /\ boot = "failed"
    /\ boot' = "watch"
    /\ UNCHANGED <<nodeVars, slotVars, attachVars, wired, drainDue, sweep>>

-----------------------------------------------------------------------------
(* attachJoined(): the remembered joins as they were when it read them, one *)
(* after the other, on the node it found.                                   *)

SweepReads(t) ==
    /\ sweep[t].pc = "read"
    /\ LET kept == {s \in Strands : joined[s] = "kept"}
       IN sweep' = [sweep EXCEPT ![t] =
                       IF kept = {} THEN NoSweep ELSE [pc |-> "up", todo |-> kept, gen |-> 0]]
    /\ UNCHANGED <<nodeVars, slotVars, attachVars, bootVars>>

SweepFindsNode_NoNode(t) ==
    /\ sweep[t].pc = "up" /\ up
    /\ sweep' = [sweep EXCEPT ![t].pc = "loop"]
    /\ UNCHANGED <<nodeVars, slotVars, attachVars, bootVars>>

SweepFindsNode(t) ==
    /\ sweep[t].pc = "up" /\ up
    /\ sweep' = [sweep EXCEPT ![t].pc = "loop", ![t].gen = gen]
    /\ UNCHANGED <<nodeVars, slotVars, attachVars, bootVars>>

SweepAttaching(t) == \E a \in attaches : a.by = t

SweepNext_Unguarded(t, s) ==
    /\ sweep[t].pc = "loop" /\ ~SweepAttaching(t) /\ s \in sweep[t].todo
    /\ sweep' = [sweep EXCEPT ![t].todo = @ \ {s}]
    /\ IF s \in running THEN UNCHANGED attachVars
       ELSE /\ attaching' = attaching \cup {s}
            /\ attaches' = attaches \cup {Attach(t, s, sweep[t].gen)}
            /\ UNCHANGED <<running, tried, skipped>>
    /\ UNCHANGED <<nodeVars, slotVars, bootVars>>

SweepNext(t, s) ==
    /\ sweep[t].pc = "loop" /\ ~SweepAttaching(t)
    /\ s \in sweep[t].todo
    /\ sweep' = [sweep EXCEPT ![t].todo = @ \ {s}]
    /\ IF s \in attaching \/ (s \in running /\ sweep[t].gen = gen)
       THEN UNCHANGED attachVars
       ELSE /\ attaching' = attaching \cup {s}
            /\ attaches' = attaches \cup {Attach(t, s, sweep[t].gen)}
            /\ tried' = IF sweep[t].gen = gen THEN tried \cup {s} ELSE tried
            /\ UNCHANGED <<running, skipped>>
    /\ UNCHANGED <<nodeVars, slotVars, bootVars>>

SweepEnds(t) ==
    /\ sweep[t].pc = "loop" /\ ~SweepAttaching(t) /\ sweep[t].todo = {}
    /\ sweep' = [sweep EXCEPT ![t] = NoSweep]
    /\ UNCHANGED <<nodeVars, slotVars, attachVars, bootVars>>

-----------------------------------------------------------------------------
(* An attach in progress. *)

(* addStrand resolves on the node it was asked of: from now on the strand   *)
(* is tracked.  Registering follows.                                        *)
AddResolves(a) ==
    /\ a \in attaches /\ a.pc = "adding"
    /\ up /\ a.gen = gen
    /\ running' = running \cup {a.strand}
    /\ attaches' = (attaches \ {a}) \cup {[a EXCEPT !.pc = "registering"]}
    /\ UNCHANGED <<nodeVars, slotVars, attaching, tried, skipped, bootVars, sweep>>

(* It ends: registered or not, or addStrand threw.  A strand that awaits    *)
(* its first sync is running although addStrand threw.  Behind an accept    *)
(* that did not get it open, the remembered joins are attached again.       *)
AttachEnds(a) ==
    /\ a \in attaches
    /\ attaches' = attaches \ {a}
    /\ attaching' = IF Guarded(a) THEN attaching \ {a.strand} ELSE attaching
    /\ \/ a.pc = "registering" /\ UNCHANGED running
       \/ a.pc = "adding" /\ UNCHANGED running
       \/ a.pc = "adding" /\ a.gen = gen /\ up /\ running' = running \cup {a.strand}
    /\ IF Guarded(a) THEN UNCHANGED <<accept, sweep>>
       ELSE /\ accept' = [accept EXCEPT ![a.strand] = Idle]
            /\ sweep' = IF a.pc = "adding" /\ sweep["behind"].pc = "no"
                        THEN [sweep EXCEPT !["behind"] = [NoSweep EXCEPT !.pc = "read"]] ELSE sweep
    /\ UNCHANGED <<nodeVars, joined, leave, operations, remembered, left, crossed, tried, skipped, bootVars>>

-----------------------------------------------------------------------------
(* acceptInvitation() *)

(* The operations on the slot that have read it and not written it yet.     *)
Rewriting ==
    {<<"accept", s>> : s \in {x \in Strands : accept[x].pc = "remember"}}
    \cup {<<"leave", s>> : s \in {x \in Strands : leave[x].pc # "no"}}
Alone(op) == Rewriting \subseteq {op}

Begins == operations < MaxOperations /\ operations' = operations + 1

(* The join is made; the node records it, and its key is in hand once.      *)
formStrand(s) ==
    /\ up /\ s \notin Founded \cup control
    /\ accept[s] = Idle /\ Begins
    /\ accept' = [accept EXCEPT ![s] = [Idle EXCEPT !.pc = "formed", !.gen = gen]]
    /\ control' = control \cup {s}
    /\ left' = left \ {s}
    /\ remembered' = remembered \ {s}
    /\ crossed' = IF leave[s].pc = "no" THEN crossed ELSE crossed \cup {s}
    /\ UNCHANGED <<up, gen, restarts, offered, joined, leave, attachVars, bootVars, sweep>>

(* remember(): read the list, then write it with the row in it. *)
RememberReads(s) ==
    /\ accept[s].pc = "formed"
    /\ accept' = [accept EXCEPT ![s].pc = "remember", ![s].list = joined]
    /\ UNCHANGED <<nodeVars, joined, leave, operations, remembered, left, crossed, attachVars, bootVars, sweep>>

RememberWrites(s) ==
    /\ accept[s].pc = "remember"
    /\ joined' = [accept[s].list EXCEPT ![s] = "kept"]
    /\ remembered' = remembered \cup {s} /\ left' = left \ {s}
    /\ crossed' = IF Alone(<<"accept", s>>) THEN crossed \ {s} ELSE crossed \cup {s}
    /\ accept' = [accept EXCEPT ![s].pc = "attach", ![s].list = NoList]
    /\ UNCHANGED <<nodeVars, leave, operations, attachVars, bootVars, sweep>>

(* The slot cannot be read or written: the invitation fails, the join made. *)
RememberFails(s) ==
    /\ accept[s].pc \in {"formed", "remember"}
    /\ accept' = [accept EXCEPT ![s] = Idle]
    /\ UNCHANGED <<nodeVars, joined, leave, operations, remembered, left, crossed, attachVars, bootVars, sweep>>

(* attachAndAwaitWritable does not look at `attaching`, and asks the node   *)
(* the invitation was accepted on.                                          *)
AcceptAttaches(s) ==
    /\ accept[s].pc = "attach"
    /\ ~\E a \in attaches : a.by = "accept" /\ a.strand = s
    /\ attaches' = attaches \cup {Attach("accept", s, accept[s].gen)}
    /\ tried' = IF accept[s].gen = gen THEN tried \cup {s} ELSE tried
    /\ UNCHANGED <<nodeVars, slotVars, running, attaching, skipped, bootVars, sweep>>

-----------------------------------------------------------------------------
(* leave() *)

LeaveReads(s) ==
    /\ up /\ (s \in running \/ joined[s] = "kept")
    /\ leave[s] = Idle /\ Begins
    /\ leave' = [leave EXCEPT ![s] = [pc |-> "stop", list |-> joined, gen |-> gen]]
    /\ UNCHANGED <<nodeVars, joined, accept, remembered, left, crossed, attachVars, bootVars, sweep>>

(* A strand in the list is forgotten as a join; any other is unpublished as *)
(* one of the party's own, which takes no join's row out.                   *)
LeaveStops(s) ==
    /\ up /\ leave[s].pc = "stop" /\ leave[s].gen = gen
    /\ leave' = [leave EXCEPT ![s].pc = "write"]
    /\ running' = running \ {s}
    /\ control' = IF leave[s].list[s] # "none" \/ s \in Founded THEN control \ {s} ELSE control
    /\ UNCHANGED <<up, gen, restarts, offered, joined, accept, operations, remembered, left, crossed>>
    /\ UNCHANGED <<attaching, attaches, tried, skipped, bootVars, sweep>>

(* It fails before anything changed, or with a founded strand stopped and   *)
(* still published, or when the slot or the summaries cannot be written.    *)
LeaveFails(s) ==
    /\ leave[s].pc # "no"
    /\ leave' = [leave EXCEPT ![s] = Idle]
    /\ \/ UNCHANGED running
       \/ leave[s].pc = "stop" /\ leave[s].list[s] = "none" /\ leave[s].gen = gen /\ running' = running \ {s}
    /\ UNCHANGED <<nodeVars, joined, accept, operations, remembered, left, crossed, attaching, attaches, tried, skipped, bootVars, sweep>>

(* What the end of a leave leaves for the properties.                       *)
LeftNow(s) ==
    /\ left' = left \cup {s}
    /\ crossed' = IF Alone(<<"leave", s>>) THEN crossed ELSE crossed \cup {s}
    /\ leave' = [leave EXCEPT ![s] = Idle]

LeaveWrites_KeepsRow(s) ==
    /\ leave[s].pc = "write"
    /\ joined' = leave[s].list
    /\ LeftNow(s)
    /\ UNCHANGED <<nodeVars, accept, operations, remembered, attachVars, bootVars, sweep>>

LeaveWrites_DropsOthers(s) ==
    /\ leave[s].pc = "write"
    /\ joined' = [x \in Strands |-> IF x = s THEN leave[s].list[x] ELSE "none"]
    /\ LeftNow(s)
    /\ UNCHANGED <<nodeVars, accept, operations, remembered, attachVars, bootVars, sweep>>

(* The list read before the strand was stopped is written, with the row     *)
(* marked or taken out.                                                     *)
LeaveWrites(s) ==
    /\ leave[s].pc = "write"
    /\ \/ joined' = [leave[s].list EXCEPT ![s] = IF @ = "none" THEN "none" ELSE "left"]
       \/ joined' = [leave[s].list EXCEPT ![s] = "none"]
    /\ LeftNow(s)
    /\ UNCHANGED <<nodeVars, accept, operations, remembered, attachVars, bootVars, sweep>>

-----------------------------------------------------------------------------
Init ==
    /\ up = FALSE /\ gen = 0 /\ restarts = 0
    /\ control = Founded
    /\ offered = {} /\ running = {} /\ attaching = {} /\ attaches = {}
    /\ wired = FALSE /\ drainDue = FALSE /\ boot = "watch"
    /\ sweep = [t \in Sweeps |-> NoSweep]
    /\ joined = NoList
    /\ accept = [s \in Strands |-> Idle] /\ leave = [s \in Strands |-> Idle] /\ operations = 0
    /\ tried = {} /\ skipped = {} /\ remembered = {} /\ left = {} /\ crossed = {}

AttachStep == \E a \in attaches : AddResolves(a) \/ AttachEnds(a)
SweepStep(t) ==
    \/ SweepReads(t) \/ SweepFindsNode(t) \/ SweepEnds(t)
    \/ \E s \in Strands : SweepNext(t, s)
AcceptStep(s) ==
    \/ formStrand(s) \/ RememberReads(s) \/ RememberWrites(s) \/ RememberFails(s) \/ AcceptAttaches(s)
LeaveStep(s) == LeaveReads(s) \/ LeaveStops(s) \/ LeaveFails(s) \/ LeaveWrites(s)

Next ==
    \/ NodeStarts \/ Rebuild \/ drainDiscovered \/ Crash
    \/ watchDiscovered \/ BootFails \/ retryBoot
    \/ AttachStep
    \/ \E t \in Sweeps : SweepStep(t)
    \/ \E s \in Strands : Offer(s) \/ AcceptStep(s) \/ LeaveStep(s)

Spec == Init /\ [][Next]_vars

-----------------------------------------------------------------------------
(* Properties. *)

AttachRecords ==
    [by : Sweeps \cup {"discovered", "accept"}, strand : Strands, gen : 1..gen, pc : {"adding", "registering"}]

TypeOK ==
    /\ up \in BOOLEAN /\ gen \in Nat /\ restarts \in 0..MaxRestarts
    /\ control \subseteq Strands /\ offered \subseteq Strands /\ running \subseteq Strands
    /\ wired \in BOOLEAN /\ drainDue \in BOOLEAN
    /\ boot \in {"watch", "failed", "done"}
    /\ attaching \subseteq Strands /\ \A a \in attaches : a \in AttachRecords
    /\ sweep \in [Sweeps -> [pc : {"no", "read", "up", "loop"}, todo : SUBSET Strands, gen : 0..gen]]
    /\ \A t \in Sweeps : sweep[t].pc = "loop" => sweep[t].gen # 0
    /\ joined \in [Strands -> Rows]
    /\ accept \in [Strands -> [pc : {"no", "formed", "remember", "attach"}, list : [Strands -> Rows], gen : Nat]]
    /\ leave \in [Strands -> [pc : {"no", "stop", "write"}, list : [Strands -> Rows], gen : Nat]]
    /\ operations \in 0..MaxOperations
    /\ tried \subseteq Strands /\ skipped \subseteq Strands
    /\ remembered \subseteq Strands /\ left \subseteq Strands /\ crossed \subseteq Strands

(* `attaching` keeps the attaches that consult it apart: never two of one   *)
(* strand at once, over boots, offers, drains, rebuilds and sweeps          *)
(* ("Load-bearing", strands.ts:39).                                         *)
GuardedAttachesAreAlone ==
    /\ \A a, b \in attaches : Guarded(a) /\ Guarded(b) /\ a.strand = b.strand => a = b
    /\ attaching = {a.strand : a \in {x \in attaches : Guarded(x)}}

(* A join that was remembered is in the slot until it is left, through      *)
(* restarts and whatever other joins and leaves go on: only an operation    *)
(* that had read the slot before the join's row was written, and writes its *)
(* list after it, can lose it (`crossed`).                                  *)
JoinsAreKept ==
    \A s \in remembered \ (left \cup crossed) : joined[s] = "kept"

(* What was left stays out of what the next start attaches: no row to be    *)
(* attached again, and no row in the control store of a strand it founded   *)
(* or of a join it had remembered, keeping its key or not.  Excepted as     *)
(* above.                                                                   *)
LeaveLasts ==
    \A s \in left \ crossed :
        /\ joined[s] # "kept"
        /\ s \in Founded \cup remembered \/ joined[s] = "left" => s \notin control

(* model.ts:574: "REMEMBER FIRST, ATTACH SECOND: `memberPrivateKey` is      *)
(* delivered exactly once", and model.ts:591: "the strand is remembered".   *)
RememberedIsKept == \A s \in remembered \ left : joined[s] = "kept"

(* strands.ts:271: removing "the party's control row [...] is what keeps it *)
(* gone".                                                                   *)
LeftIsWithdrawn == \A s \in left : s \notin control

(* Every offer is followed on the node that made it, whatever came first    *)
(* of the subscription, the offer and a rebuild ("The other way round loses *)
(* any strand offered between the two steps", strands.ts:145) -- but for an *)
(* offer met while an attach to an earlier node was still in progress.      *)
OffersAreFollowed ==
    up /\ boot = "done" /\ ~drainDue => offered \subseteq tried \cup skipped \cup running

(* strands.ts:138: "Attach every strand the control network offers that we  *)
(* are not already running."                                                *)
OfferedIsAttached ==
    up /\ boot = "done" /\ ~drainDue => offered \subseteq tried \cup running
=============================================================================
