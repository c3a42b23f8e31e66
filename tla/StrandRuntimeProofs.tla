------------------------ MODULE StrandRuntimeProofs ------------------------
(***************************************************************************)
(* Theorems about StrandRuntime, for any strands, any founded ones, and    *)
(* any number of restarts, of attaches at once, and of joins and leaves at *)
(* once: its types, that the attaches which consult `attaching` are apart, *)
(* that every offer is followed, that joins are kept and leaves last.      *)
(***************************************************************************)
EXTENDS StrandRuntime, TLAPS

-----------------------------------------------------------------------------
(* Types. *)

(* Whatever is attached or accepted, it is on a node that was started. *)
GensAreStarted ==
    /\ up => gen # 0
    /\ \A s \in Strands : accept[s] # Idle => accept[s].gen \in 1..gen

TypeInv == TypeOK /\ GensAreStarted

AcceptRecords == [pc : {"no", "formed", "remember", "attach"}, list : [Strands -> Rows], gen : Nat]
LeaveRecords == [pc : {"no", "stop", "write"}, list : [Strands -> Rows], gen : Nat]

LEMMA AttachIsRecord ==
    ASSUME NEW by \in Sweeps \cup {"discovered", "accept"}, NEW s \in Strands, NEW g \in 1..gen
    PROVE  Attach(by, s, g) \in AttachRecords
BY DEF Attach, AttachRecords

(* Idle operations and sweeps. *)
LEMMA IdleTypes ==
    /\ NoList \in [Strands -> Rows]
    /\ Idle \in AcceptRecords /\ Idle \in LeaveRecords
    /\ Idle.pc = "no"
    /\ NoSweep.pc = "no" /\ NoSweep.todo = {} /\ NoSweep.gen = 0
BY DEF NoList, Idle, NoSweep, Rows, AcceptRecords, LeaveRecords

(* Following offers. *)
LEMMA FollowTypes ==
    ASSUME TypeInv, up, NEW offers, offers \subseteq Strands, Follow(offers), gen' = gen
    PROVE  /\ attaching' \subseteq Strands /\ tried' \subseteq Strands /\ skipped' \subseteq Strands
           /\ running' \subseteq Strands
           /\ \A a \in attaches' : a \in AttachRecords'
<1> DEFINE new == {s \in offers : s \notin attaching /\ s \notin running}
<1>1. /\ attaching' = attaching \cup new /\ tried' = tried \cup new /\ running' = running
      /\ attaches' = attaches \cup {Attach("discovered", s, gen) : s \in new}
      /\ skipped' \subseteq skipped \cup offers
  BY DEF Follow
<1>2. gen \in 1..gen
  BY DEF TypeInv, TypeOK, GensAreStarted
<1>3. \A s \in new : Attach("discovered", s, gen) \in AttachRecords
  BY <1>2, AttachIsRecord
<1>4. AttachRecords' = AttachRecords
  BY DEF AttachRecords
<1>5. \A a \in attaches' : a \in AttachRecords'
  BY <1>1, <1>3, <1>4 DEF TypeInv, TypeOK
<1>6. QED BY <1>1, <1>5 DEF TypeInv, TypeOK

(* A new node: what was attached to an earlier one is still well typed. *)
LEMMA NewNodeTypes ==
    ASSUME TypeInv, gen' = gen + 1
    PROVE  /\ gen' \in Nat /\ gen' # 0 /\ 0..gen \subseteq 0..gen'
           /\ \A n \in 1..gen : n \in 1..gen'
           /\ \A a \in AttachRecords : a \in AttachRecords'
BY DEF TypeInv, TypeOK, AttachRecords

(* What the start-up steps leave well typed. *)
LEMMA NodeStepTypes ==
    ASSUME TypeInv,
           NodeStarts \/ Rebuild \/ drainDiscovered \/ Crash \/ watchDiscovered \/ BootFails \/ retryBoot
    PROVE  TypeInv'
<1> USE DEF nodeVars, slotVars, attachVars, bootVars
<1>1. CASE NodeStarts
  <2>1. /\ gen' = gen + 1 /\ up' = TRUE
        /\ UNCHANGED <<restarts, control, offered, joined, accept, leave, operations, remembered, left, crossed, running, attaching,
                       attaches, tried, skipped, wired, drainDue, boot, sweep>>
    BY <1>1 DEF NodeStarts
  <2>2. TypeOK'
    BY <2>1, NewNodeTypes DEF TypeInv, TypeOK
  <2>3. QED BY <2>1, <2>2, NewNodeTypes DEF TypeInv, TypeOK, GensAreStarted
<1>2. CASE Rebuild
  <2>1. /\ gen' = gen + 1 /\ restarts < MaxRestarts /\ restarts' = restarts + 1 /\ drainDue' = wired
        /\ offered' = {} /\ running' = {} /\ tried' = {} /\ skipped' = {}
        /\ UNCHANGED <<up, control, joined, accept, leave, operations, remembered, left, crossed, attaching, attaches, wired, boot, sweep>>
    BY <1>2 DEF Rebuild
  <2>2. restarts' \in 0..MaxRestarts
    BY <2>1, RuntimeAssumption DEF TypeInv, TypeOK
  <2>3. TypeOK'
    BY <2>1, <2>2, NewNodeTypes DEF TypeInv, TypeOK
  <2>4. QED BY <2>1, <2>3, NewNodeTypes DEF TypeInv, TypeOK, GensAreStarted
<1>3. CASE drainDiscovered
  <2>1. /\ up /\ drainDue' = FALSE /\ Follow(offered)
        /\ UNCHANGED <<up, gen, restarts, control, offered, joined, accept, leave, operations, remembered, left, crossed, wired, boot, sweep>>
    BY <1>3 DEF drainDiscovered
  <2>2. offered \subseteq Strands
    BY DEF TypeInv, TypeOK
  <2>3. TypeOK'
    BY <2>1, <2>2, FollowTypes DEF TypeInv, TypeOK
  <2>4. QED BY <2>1, <2>3 DEF TypeInv, GensAreStarted
<1>4. CASE Crash
  <2>1. /\ restarts < MaxRestarts /\ restarts' = restarts + 1 /\ up' = FALSE
        /\ offered' = {} /\ running' = {} /\ tried' = {} /\ skipped' = {}
        /\ attaching' = {} /\ attaches' = {} /\ wired' = FALSE /\ drainDue' = FALSE /\ boot' = "watch"
        /\ sweep' = [t \in Sweeps |-> NoSweep]
        /\ accept' = [s \in Strands |-> Idle] /\ leave' = [s \in Strands |-> Idle]
        /\ UNCHANGED <<gen, control, joined, operations, remembered, left, crossed>>
    BY <1>4 DEF Crash
  <2>2. restarts' \in 0..MaxRestarts
    BY <2>1, RuntimeAssumption DEF TypeInv, TypeOK
  <2>3. /\ sweep' \in [Sweeps -> [pc : {"no", "read", "up", "loop"}, todo : SUBSET Strands, gen : 0..gen]]
        /\ \A t \in Sweeps : sweep'[t].pc # "loop"
    BY <2>1 DEF NoSweep, TypeInv, TypeOK
  <2>4. TypeOK'
    BY <2>1, <2>2, <2>3, IdleTypes DEF TypeInv, TypeOK, AcceptRecords, LeaveRecords
  <2>5. QED BY <2>1, <2>4 DEF TypeInv, GensAreStarted
<1>5. CASE watchDiscovered
  <2>1. /\ up /\ wired' = TRUE /\ boot' = "done" /\ Follow(offered)
        /\ sweep' = [sweep EXCEPT !["boot"] = [NoSweep EXCEPT !.pc = "read"]]
        /\ UNCHANGED <<up, gen, restarts, control, offered, joined, accept, leave, operations, remembered, left, crossed, drainDue>>
    BY <1>5 DEF watchDiscovered
  <2>2. offered \subseteq Strands
    BY DEF TypeInv, TypeOK
  <2>3. /\ sweep' \in [Sweeps -> [pc : {"no", "read", "up", "loop"}, todo : SUBSET Strands, gen : 0..gen]]
        /\ \A t \in Sweeps : sweep'[t].pc = "loop" => sweep'[t].gen # 0
    BY <2>1 DEF NoSweep, TypeInv, TypeOK, Sweeps
  <2>4. TypeOK'
    BY <2>1, <2>2, <2>3, FollowTypes DEF TypeInv, TypeOK
  <2>5. QED BY <2>1, <2>4 DEF TypeInv, GensAreStarted
<1>6. CASE BootFails \/ retryBoot
  <2>1. /\ boot' \in {"failed", "watch"}
        /\ UNCHANGED <<up, gen, restarts, control, offered, joined, accept, leave, operations, remembered, left, crossed, running,
                       attaching, attaches, tried, skipped, wired, drainDue, sweep>>
    BY <1>6 DEF BootFails, retryBoot
  <2>2. AttachRecords' = AttachRecords
    BY <2>1 DEF AttachRecords
  <2>3. QED BY <2>1, <2>2 DEF TypeInv, TypeOK, GensAreStarted
<1>7. QED BY <1>1, <1>2, <1>3, <1>4, <1>5, <1>6

(* An offer. *)
LEMMA OfferTypes ==
    ASSUME TypeInv, NEW s \in Strands, Offer(s)
    PROVE  TypeInv'
<1> USE DEF nodeVars, slotVars, attachVars, bootVars
<1>1. /\ up /\ offered' = offered \cup {s}
      /\ UNCHANGED <<up, gen, restarts, control, joined, accept, leave, operations, remembered, left, crossed, wired, drainDue, boot, sweep>>
      /\ Follow({s}) \/ UNCHANGED <<running, attaching, attaches, tried, skipped>>
  BY DEF Offer
<1>2. CASE Follow({s})
  <2>1. TypeOK'
    BY <1>1, <1>2, FollowTypes DEF TypeInv, TypeOK
  <2>2. QED BY <1>1, <2>1 DEF TypeInv, GensAreStarted
<1>3. CASE UNCHANGED <<running, attaching, attaches, tried, skipped>>
  <2>1. AttachRecords' = AttachRecords
    BY <1>1 DEF AttachRecords
  <2>2. QED BY <1>1, <1>3, <2>1 DEF TypeInv, TypeOK, GensAreStarted
<1>4. QED BY <1>1, <1>2, <1>3

(* An attach that resolves or ends. *)
LEMMA AttachTypes ==
    ASSUME TypeInv, AttachStep
    PROVE  TypeInv'
<1> USE DEF nodeVars, slotVars, attachVars, bootVars
<1>1. PICK a \in attaches : AddResolves(a) \/ AttachEnds(a)
  BY DEF AttachStep
<1>2. /\ a \in AttachRecords /\ a.strand \in Strands
      /\ [a EXCEPT !.pc = "registering"] \in AttachRecords
  <2>1. a \in AttachRecords
    BY DEF TypeInv, TypeOK
  <2>2. QED BY <2>1 DEF AttachRecords
<1>3. /\ UNCHANGED <<up, gen, restarts, control, offered, joined, leave, operations, remembered, left, crossed,
                     tried, skipped,                     wired, drainDue, boot>>
      /\ attaching' \subseteq attaching /\ running' \subseteq running \cup {a.strand}
      /\ \A b \in attaches' : b \in attaches \cup {[a EXCEPT !.pc = "registering"]}
  BY <1>1 DEF AddResolves, AttachEnds
<1>4. AttachRecords' = AttachRecords
  BY <1>3 DEF AttachRecords
<1>5. \A b \in attaches' : b \in AttachRecords'
  BY <1>2, <1>3, <1>4 DEF TypeInv, TypeOK
<1>6. accept' = accept \/ accept' = [accept EXCEPT ![a.strand] = Idle]
  BY <1>1 DEF AddResolves, AttachEnds
<1>7. sweep' = sweep \/ sweep' = [sweep EXCEPT !["behind"] = [NoSweep EXCEPT !.pc = "read"]]
  BY <1>1 DEF AddResolves, AttachEnds
<1>8. /\ accept' \in [Strands -> AcceptRecords]
      /\ \A s \in Strands : accept'[s] # Idle => accept'[s].gen \in 1..gen
  <2>1. \A s \in Strands : accept'[s] = accept[s] \/ accept'[s] = Idle
    BY <1>6 DEF TypeInv, TypeOK
  <2>2. accept' \in [Strands -> AcceptRecords]
    BY <1>6, IdleTypes DEF TypeInv, TypeOK, AcceptRecords
  <2>3. QED BY <1>3, <2>1, <2>2 DEF TypeInv, GensAreStarted
<1>9. /\ sweep' \in [Sweeps -> [pc : {"no", "read", "up", "loop"}, todo : SUBSET Strands, gen : 0..gen]]
      /\ \A t \in Sweeps : sweep'[t].pc = "loop" => sweep'[t].gen # 0
  BY <1>7 DEF TypeInv, TypeOK, Sweeps, NoSweep
<1>10. TypeOK'
  BY <1>2, <1>3, <1>5, <1>8, <1>9 DEF TypeInv, TypeOK, AcceptRecords
<1>11. QED BY <1>3, <1>8, <1>10 DEF TypeInv, GensAreStarted

(* A step of a sweep. *)
LEMMA SweepTypes ==
    ASSUME TypeInv, NEW t \in Sweeps, SweepStep(t)
    PROVE  TypeInv'
<1> USE DEF nodeVars, slotVars, attachVars, bootVars
<1> DEFINE SweepRecords == [pc : {"no", "read", "up", "loop"}, todo : SUBSET Strands, gen : 0..gen]
<1>1. sweep[t] \in SweepRecords /\ gen \in 0..gen /\ (up => gen # 0) /\ (sweep[t].pc = "loop" => sweep[t].gen \in 1..gen)
  BY DEF TypeInv, TypeOK, GensAreStarted
<1>2. \E r \in SweepRecords : sweep' = [sweep EXCEPT ![t] = r] /\ (r.pc = "loop" => r.gen # 0)
  <2>1. CASE SweepReads(t)
    <3> DEFINE kept == {s \in Strands : joined[s] = "kept"}
               r == IF kept = {} THEN NoSweep ELSE [pc |-> "up", todo |-> kept, gen |-> 0]
    <3>1. sweep' = [sweep EXCEPT ![t] = r]
      BY <2>1 DEF SweepReads
    <3>2. r \in SweepRecords /\ r.pc # "loop"
      BY <1>1 DEF NoSweep
    <3>3. QED BY <3>1, <3>2
  <2>2. CASE SweepFindsNode(t)
    <3> DEFINE r == [sweep[t] EXCEPT !.pc = "loop", !.gen = gen]
    <3>1. sweep' = [sweep EXCEPT ![t] = r] /\ up
      BY <2>2 DEF SweepFindsNode, TypeInv, TypeOK
    <3>2. r \in SweepRecords /\ r.gen # 0
      BY <1>1, <3>1
    <3>3. QED BY <3>1, <3>2
  <2>3. CASE SweepEnds(t)
    <3>1. sweep' = [sweep EXCEPT ![t] = NoSweep]
      BY <2>3 DEF SweepEnds
    <3>2. NoSweep \in SweepRecords /\ NoSweep.pc # "loop"
      BY <1>1 DEF NoSweep
    <3>3. QED BY <3>1, <3>2
  <2>4. ASSUME NEW s \in Strands, SweepNext(t, s)
        PROVE  \E r \in SweepRecords : sweep' = [sweep EXCEPT ![t] = r] /\ (r.pc = "loop" => r.gen # 0)
    <3> DEFINE r == [sweep[t] EXCEPT !.todo = @ \ {s}]
    <3>1. sweep' = [sweep EXCEPT ![t] = r] /\ sweep[t].pc = "loop"
      BY <2>4 DEF SweepNext, TypeInv, TypeOK
    <3>2. r \in SweepRecords /\ r.gen # 0
      BY <1>1, <3>1
    <3>3. QED BY <3>1, <3>2
  <2>5. QED BY <2>1, <2>2, <2>3, <2>4 DEF SweepStep
<1>3. /\ sweep' \in [Sweeps -> SweepRecords]
      /\ \A u \in Sweeps : sweep'[u].pc = "loop" => sweep'[u].gen # 0
  BY <1>2 DEF TypeInv, TypeOK
<1>4. UNCHANGED <<up, gen, restarts, control, offered, joined, accept, leave, operations, remembered, left, crossed, running, skipped,
                  wired, drainDue, boot>>
  BY DEF SweepStep, SweepReads, SweepFindsNode, SweepEnds, SweepNext
<1>5. AttachRecords' = AttachRecords
  BY <1>4 DEF AttachRecords
<1>6. attaching' \subseteq Strands /\ tried' \subseteq Strands /\ \A a \in attaches' : a \in AttachRecords
  <2>1. CASE UNCHANGED <<attaching, attaches, tried>>
    BY <2>1 DEF TypeInv, TypeOK
  <2>2. CASE \E s \in Strands : /\ sweep[t].pc = "loop"
                                /\ attaching' = attaching \cup {s} /\ tried' \subseteq tried \cup {s}
                                /\ attaches' = attaches \cup {Attach(t, s, sweep[t].gen)}
    BY <1>1, <2>2, AttachIsRecord DEF TypeInv, TypeOK
  <2>3. QED BY <2>1, <2>2 DEF SweepStep, SweepReads, SweepFindsNode, SweepEnds, SweepNext
<1>7. TypeOK'
  BY <1>3, <1>4, <1>5, <1>6 DEF TypeInv, TypeOK
<1>8. QED BY <1>4, <1>7 DEF TypeInv, GensAreStarted

(* A join or a leave begins within the bound. *)
LEMMA OperationsAreBounded ==
    ASSUME TypeInv, Begins
    PROVE  operations' \in 0..MaxOperations
BY RuntimeAssumption DEF TypeInv, TypeOK, Begins

(* A step of acceptInvitation. *)
LEMMA AcceptTypes ==
    ASSUME TypeInv, NEW s \in Strands, AcceptStep(s)
    PROVE  TypeInv'
<1> USE DEF nodeVars, slotVars, attachVars, bootVars
<1>1. /\ accept[s] \in AcceptRecords /\ joined \in [Strands -> Rows]
      /\ accept \in [Strands -> AcceptRecords]
      /\ accept[s] # Idle => accept[s].gen \in 1..gen
      /\ gen \in Nat /\ (up => gen \in 1..gen)
  BY DEF TypeInv, TypeOK, GensAreStarted, AcceptRecords
<1>2. UNCHANGED <<up, gen, restarts, offered, leave, running, attaching, skipped, wired, drainDue, boot, sweep>>
  BY DEF AcceptStep, formStrand, RememberReads, RememberWrites, RememberFails, AcceptAttaches
<1>3. /\ control' \subseteq control \cup {s} /\ left' \subseteq left /\ crossed' \subseteq crossed \cup {s}
      /\ remembered' \subseteq remembered \cup {s} /\ tried' \subseteq tried \cup {s}
      /\ operations' = operations \/ Begins
  BY DEF AcceptStep, formStrand, RememberReads, RememberWrites, RememberFails, AcceptAttaches
<1>4. joined' \in [Strands -> Rows]
  <2>1. CASE joined' = joined
    BY <1>1, <2>1
  <2>2. CASE joined' = [accept[s].list EXCEPT ![s] = "kept"]
    BY <1>1, <2>2 DEF AcceptRecords, Rows
  <2>3. QED
    BY <2>1, <2>2 DEF AcceptStep, formStrand, RememberReads, RememberWrites, RememberFails, AcceptAttaches
<1>5. accept' = accept \/ \E r \in AcceptRecords :
         accept' = [accept EXCEPT ![s] = r] /\ (r = Idle \/ r.gen \in 1..gen)
  <2>1. CASE formStrand(s)
    <3> DEFINE r == [Idle EXCEPT !.pc = "formed", !.gen = gen]
    <3>1. accept' = [accept EXCEPT ![s] = r] /\ up
      BY <2>1 DEF formStrand
    <3>2. r \in AcceptRecords /\ r.gen = gen
      BY <1>1, IdleTypes DEF AcceptRecords
    <3>3. QED BY <1>1, <3>1, <3>2
  <2>2. CASE RememberReads(s)
    <3> DEFINE r == [accept[s] EXCEPT !.pc = "remember", !.list = joined]
    <3>1. accept' = [accept EXCEPT ![s] = r] /\ accept[s].pc = "formed"
      BY <1>1, <2>2 DEF RememberReads
    <3>2. r \in AcceptRecords /\ r.gen = accept[s].gen
      BY <1>1 DEF AcceptRecords
    <3>3. accept[s] # Idle
      BY <3>1, IdleTypes
    <3>4. QED BY <1>1, <3>1, <3>2, <3>3
  <2>3. CASE RememberWrites(s)
    <3> DEFINE r == [accept[s] EXCEPT !.pc = "attach", !.list = NoList]
    <3>1. accept' = [accept EXCEPT ![s] = r] /\ accept[s].pc = "remember"
      BY <1>1, <2>3 DEF RememberWrites
    <3>2. r \in AcceptRecords /\ r.gen = accept[s].gen
      BY <1>1, IdleTypes DEF AcceptRecords
    <3>3. accept[s] # Idle
      BY <3>1, IdleTypes
    <3>4. QED BY <1>1, <3>1, <3>2, <3>3
  <2>4. CASE RememberFails(s)
    BY <2>4, IdleTypes DEF RememberFails
  <2>5. CASE AcceptAttaches(s)
    BY <2>5 DEF AcceptAttaches
  <2>6. QED BY <2>1, <2>2, <2>3, <2>4, <2>5 DEF AcceptStep
<1>6. accept' \in [Strands -> AcceptRecords]
  BY <1>1, <1>5
<1>7. \A x \in Strands : accept'[x] # Idle => accept'[x].gen \in 1..gen
  BY <1>1, <1>5 DEF TypeInv, GensAreStarted
<1>8. \A a \in attaches' : a \in AttachRecords'
  <2>1. AttachRecords' = AttachRecords
    BY <1>2 DEF AttachRecords
  <2>2. CASE attaches' = attaches
    BY <2>1, <2>2 DEF TypeInv, TypeOK
  <2>3. CASE AcceptAttaches(s)
    <3>1. accept[s].gen \in 1..gen
      BY <1>1, <2>3, IdleTypes DEF AcceptAttaches
    <3>2. Attach("accept", s, accept[s].gen) \in AttachRecords
      BY <3>1, AttachIsRecord
    <3>3. QED BY <2>1, <2>3, <3>2 DEF AcceptAttaches, TypeInv, TypeOK
  <2>4. QED BY <2>2, <2>3 DEF AcceptStep, formStrand, RememberReads, RememberWrites, RememberFails
<1>9. operations' \in 0..MaxOperations
  BY <1>3, OperationsAreBounded DEF TypeInv, TypeOK
<1>10. TypeOK'
  BY <1>2, <1>3, <1>4, <1>6, <1>8, <1>9 DEF TypeInv, TypeOK, AcceptRecords
<1>11. QED BY <1>2, <1>7, <1>10 DEF TypeInv, GensAreStarted

(* A step of leave. *)
LEMMA LeaveTypes ==
    ASSUME TypeInv, NEW s \in Strands, LeaveStep(s)
    PROVE  TypeInv'
<1> USE DEF nodeVars, slotVars, attachVars, bootVars
<1>1. /\ leave[s] \in LeaveRecords /\ joined \in [Strands -> Rows] /\ gen \in Nat
      /\ leave \in [Strands -> LeaveRecords]
  BY DEF TypeInv, TypeOK, LeaveRecords
<1>2. UNCHANGED <<up, gen, restarts, offered, accept, remembered, attaching, attaches, tried, skipped,
                  wired, drainDue, boot, sweep>>
  BY DEF LeaveStep, LeaveReads, LeaveStops, LeaveFails, LeaveWrites
<1>3. /\ control' \subseteq control /\ running' \subseteq running /\ left' \subseteq left \cup {s}
      /\ crossed' \subseteq crossed \cup {s} /\ (operations' = operations \/ Begins)
  BY DEF LeaveStep, LeaveReads, LeaveStops, LeaveFails, LeaveWrites, LeftNow
<1>4. joined' \in [Strands -> Rows]
  <2>1. CASE joined' = joined
    BY <1>1, <2>1
  <2>2. CASE LeaveWrites(s)
    <3>1. leave[s].list \in [Strands -> Rows]
      BY <1>1 DEF LeaveRecords
    <3>2. \/ joined' = [leave[s].list EXCEPT ![s] = IF @ = "none" THEN "none" ELSE "left"]
          \/ joined' = [leave[s].list EXCEPT ![s] = "none"]
      BY <2>2 DEF LeaveWrites
    <3>3. QED BY <3>1, <3>2 DEF Rows
  <2>3. QED BY <2>1, <2>2 DEF LeaveStep, LeaveReads, LeaveStops, LeaveFails
<1>5. \E r \in LeaveRecords : leave' = [leave EXCEPT ![s] = r]
  <2>1. CASE LeaveReads(s)
    <3> DEFINE r == [pc |-> "stop", list |-> joined, gen |-> gen]
    <3>1. leave' = [leave EXCEPT ![s] = r]
      BY <2>1 DEF LeaveReads
    <3>2. r \in LeaveRecords
      BY <1>1 DEF LeaveRecords
    <3>3. QED BY <3>1, <3>2
  <2>2. CASE LeaveStops(s)
    <3>1. leave' = [leave EXCEPT ![s] = [leave[s] EXCEPT !.pc = "write"]]
      BY <1>1, <2>2 DEF LeaveStops
    <3>2. [leave[s] EXCEPT !.pc = "write"] \in LeaveRecords
      BY <1>1 DEF LeaveRecords
    <3>3. QED BY <3>1, <3>2
  <2>3. CASE LeaveFails(s) \/ LeaveWrites(s)
    BY <2>3, IdleTypes DEF LeaveFails, LeaveWrites, LeftNow
  <2>4. QED BY <2>1, <2>2, <2>3 DEF LeaveStep
<1>6. leave' \in [Strands -> LeaveRecords]
  BY <1>1, <1>5
<1>7. AttachRecords' = AttachRecords
  BY <1>2 DEF AttachRecords
<1>8. operations' \in 0..MaxOperations
  BY <1>3, OperationsAreBounded DEF TypeInv, TypeOK
<1>9. TypeOK'
  BY <1>2, <1>3, <1>4, <1>6, <1>7, <1>8 DEF TypeInv, TypeOK, LeaveRecords
<1>10. QED BY <1>2, <1>9 DEF TypeInv, GensAreStarted

LEMMA TypeInvHolds == Spec => []TypeInv
<1>1. Init => TypeInv
  <2> SUFFICES ASSUME Init
               PROVE  TypeInv
    OBVIOUS
  <2>1. /\ sweep \in [Sweeps -> [pc : {"no", "read", "up", "loop"}, todo : SUBSET Strands, gen : 0..gen]]
        /\ \A t \in Sweeps : sweep[t].pc # "loop"
    BY DEF Init, NoSweep
  <2>2. accept \in [Strands -> AcceptRecords] /\ leave \in [Strands -> LeaveRecords] /\ joined \in [Strands -> Rows]
    BY IdleTypes DEF Init
  <2>3. restarts \in 0..MaxRestarts /\ operations \in 0..MaxOperations /\ gen \in Nat /\ control \subseteq Strands
    BY RuntimeAssumption DEF Init
  <2>4. /\ up \in BOOLEAN /\ wired \in BOOLEAN /\ drainDue \in BOOLEAN /\ boot = "watch"
        /\ offered = {} /\ running = {} /\ attaching = {} /\ attaches = {}
        /\ tried = {} /\ skipped = {} /\ remembered = {} /\ left = {} /\ crossed = {}
    BY DEF Init
  <2>5. TypeOK
    BY <2>1, <2>2, <2>3, <2>4 DEF TypeOK, AcceptRecords, LeaveRecords
  <2>6. QED BY <2>5 DEF Init, TypeInv, GensAreStarted
<1>2. TypeInv /\ [Next]_vars => TypeInv'
  <2> SUFFICES ASSUME TypeInv, [Next]_vars
               PROVE  TypeInv'
    OBVIOUS
  <2>1. CASE UNCHANGED vars
    <3>1. AttachRecords' = AttachRecords
      BY <2>1 DEF AttachRecords, vars, nodeVars
    <3>2. QED
      BY <2>1, <3>1 DEF TypeInv, TypeOK, GensAreStarted, vars, nodeVars, slotVars, attachVars, bootVars
  <2>2. CASE Next
    BY <2>2, NodeStepTypes, OfferTypes, AttachTypes, SweepTypes, AcceptTypes, LeaveTypes DEF Next
  <2>3. QED BY <2>1, <2>2
<1>3. QED BY <1>1, <1>2, PTL DEF Spec

(* Every variable has its type in every reachable state, and what is        *)
(* attached is on a node that was started.                                  *)
THEOREM RuntimeTypes == Spec => []TypeOK
<1>1. TypeInv => TypeOK
  BY DEF TypeInv
<1>2. QED BY <1>1, TypeInvHolds, PTL

-----------------------------------------------------------------------------
(* The attaches that consult `attaching`. *)

(* Following offers attaches only strands that are not being attached. *)
LEMMA FollowAlone ==
    ASSUME GuardedAttachesAreAlone, NEW offers, Follow(offers)
    PROVE  GuardedAttachesAreAlone'
<1> DEFINE new == {s \in offers : s \notin attaching /\ s \notin running}
<1>1. /\ attaching' = attaching \cup new
      /\ attaches' = attaches \cup {Attach("discovered", s, gen) : s \in new}
  BY DEF Follow
<1>2. \A s : Guarded(Attach("discovered", s, gen)) /\ Attach("discovered", s, gen).strand = s
  BY DEF Guarded, Attach
<1>3. \A a \in attaches : Guarded(a) => a.strand \in attaching
  BY DEF GuardedAttachesAreAlone
<1>4. ASSUME NEW a \in attaches', NEW b \in attaches', Guarded(a), Guarded(b), a.strand = b.strand
      PROVE  a = b
  <2>1. CASE a \in attaches /\ b \in attaches
    BY <1>4, <2>1 DEF GuardedAttachesAreAlone
  <2>2. CASE a \in attaches /\ b \notin attaches
    BY <1>1, <1>2, <1>3, <1>4, <2>2
  <2>3. CASE a \notin attaches /\ b \in attaches
    BY <1>1, <1>2, <1>3, <1>4, <2>3
  <2>4. CASE a \notin attaches /\ b \notin attaches
    BY <1>1, <1>2, <1>4, <2>4
  <2>5. QED BY <2>1, <2>2, <2>3, <2>4
<1>5. attaching' = {a.strand : a \in {x \in attaches' : Guarded(x)}}
  <2>1. \A s \in attaching' : \E a \in attaches' : Guarded(a) /\ a.strand = s
    BY <1>1, <1>2 DEF GuardedAttachesAreAlone
  <2>2. \A a \in attaches' : Guarded(a) => a.strand \in attaching'
    BY <1>1, <1>2, <1>3
  <2>3. QED BY <2>1, <2>2
<1>6. QED BY <1>4, <1>5 DEF GuardedAttachesAreAlone

(* One attach is added: one that does not consult `attaching`, or one of a  *)
(* strand that is not in it.                                                *)
LEMMA AddAlone ==
    ASSUME GuardedAttachesAreAlone, NEW c, attaches' = attaches \cup {c},
           IF Guarded(c) THEN c.strand \notin attaching /\ attaching' = attaching \cup {c.strand}
                         ELSE attaching' = attaching
    PROVE  GuardedAttachesAreAlone'
<1>1. \A a \in attaches : Guarded(a) => a.strand \in attaching
  BY DEF GuardedAttachesAreAlone
<1>2. ASSUME NEW a \in attaches', NEW b \in attaches', Guarded(a), Guarded(b), a.strand = b.strand
      PROVE  a = b
  BY <1>1, <1>2 DEF GuardedAttachesAreAlone
<1>3. \A s \in attaching' : \E a \in attaches' : Guarded(a) /\ a.strand = s
  BY DEF GuardedAttachesAreAlone
<1>4. \A a \in attaches' : Guarded(a) => a.strand \in attaching'
  BY <1>1
<1>5. attaching' = {a.strand : a \in {x \in attaches' : Guarded(x)}}
  BY <1>3, <1>4
<1>6. QED BY <1>2, <1>5 DEF GuardedAttachesAreAlone

(* An attach resolves or ends. *)
LEMMA AttachAlone ==
    ASSUME TypeInv, GuardedAttachesAreAlone, NEW a \in attaches, AddResolves(a) \/ AttachEnds(a)
    PROVE  GuardedAttachesAreAlone'
<1>1. \A c \in attaches : Guarded(c) => c.strand \in attaching
  BY DEF GuardedAttachesAreAlone
<1>2. CASE AddResolves(a)
  <2> DEFINE r == [a EXCEPT !.pc = "registering"]
  <2>1. a \in AttachRecords
    BY DEF TypeInv, TypeOK
  <2>2. attaches' = (attaches \ {a}) \cup {r} /\ attaching' = attaching
    BY <1>2 DEF AddResolves
  <2>3. r.strand = a.strand /\ (Guarded(r) <=> Guarded(a))
    BY <2>1 DEF AttachRecords, Guarded
  <2>4. ASSUME NEW c \in attaches', NEW d \in attaches', Guarded(c), Guarded(d), c.strand = d.strand
        PROVE  c = d
    BY <2>2, <2>3, <2>4 DEF GuardedAttachesAreAlone
  <2>5. \A s \in attaching' : \E c \in attaches' : Guarded(c) /\ c.strand = s
    BY <2>2, <2>3 DEF GuardedAttachesAreAlone
  <2>6. \A c \in attaches' : Guarded(c) => c.strand \in attaching'
    BY <1>1, <2>2, <2>3
  <2>7. attaching' = {c.strand : c \in {x \in attaches' : Guarded(x)}}
    BY <2>5, <2>6
  <2>8. QED BY <2>4, <2>7 DEF GuardedAttachesAreAlone
<1>3. CASE AttachEnds(a)
  <2>1. /\ attaches' = attaches \ {a}
        /\ attaching' = IF Guarded(a) THEN attaching \ {a.strand} ELSE attaching
    BY <1>3 DEF AttachEnds
  <2>2. \A c, d \in attaches' : Guarded(c) /\ Guarded(d) /\ c.strand = d.strand => c = d
    BY <2>1 DEF GuardedAttachesAreAlone
  <2>3. ASSUME NEW s \in attaching'
        PROVE  \E c \in attaches' : Guarded(c) /\ c.strand = s
    <3>1. PICK c \in attaches : Guarded(c) /\ c.strand = s
      BY <2>1, <2>3 DEF GuardedAttachesAreAlone
    <3>2. c # a
      BY <2>1, <2>3, <3>1
    <3>3. QED BY <2>1, <3>1, <3>2
  <2>4. ASSUME NEW c \in attaches', Guarded(c)
        PROVE  c.strand \in attaching'
    BY <1>1, <2>1, <2>4 DEF GuardedAttachesAreAlone
  <2>5. attaching' = {c.strand : c \in {x \in attaches' : Guarded(x)}}
    BY <2>3, <2>4
  <2>6. QED BY <2>2, <2>5 DEF GuardedAttachesAreAlone
<1>4. QED BY <1>2, <1>3

(* Never two attaches that consult `attaching` of one strand at once, over  *)
(* boots, offers, drains, rebuilds and sweeps (attachDiscovered and         *)
(* attachJoined).                                                           *)
THEOREM GuardedAttachesStayAlone == Spec => []GuardedAttachesAreAlone
<1>1. Init => GuardedAttachesAreAlone
  BY DEF Init, GuardedAttachesAreAlone
<1>2. TypeInv /\ GuardedAttachesAreAlone /\ [Next]_vars => GuardedAttachesAreAlone'
  <2> SUFFICES ASSUME TypeInv, GuardedAttachesAreAlone, [Next]_vars
               PROVE  GuardedAttachesAreAlone'
    OBVIOUS
  <2> USE DEF nodeVars, slotVars, attachVars, bootVars
  <2>1. CASE UNCHANGED <<attaching, attaches>>
    BY <2>1 DEF GuardedAttachesAreAlone
  <2>2. CASE drainDiscovered \/ watchDiscovered
    BY <2>2, FollowAlone DEF drainDiscovered, watchDiscovered
  <2>3. ASSUME NEW s \in Strands, Offer(s)
        PROVE  GuardedAttachesAreAlone'
    BY <2>1, <2>3, FollowAlone DEF Offer
  <2>4. CASE Crash
    BY <2>4 DEF Crash, GuardedAttachesAreAlone
  <2>5. CASE AttachStep
    BY <2>5, AttachAlone DEF AttachStep
  <2>6. ASSUME NEW t \in Sweeps, SweepStep(t)
        PROVE  GuardedAttachesAreAlone'
    <3>1. ASSUME NEW s \in Strands, SweepNext(t, s)
          PROVE  GuardedAttachesAreAlone'
      <4> DEFINE c == Attach(t, s, sweep[t].gen)
      <4>1. c.strand = s /\ Guarded(c)
        BY DEF Attach, Guarded, Sweeps
      <4>2. \/ UNCHANGED <<attaching, attaches>>
            \/ s \notin attaching /\ attaching' = attaching \cup {s} /\ attaches' = attaches \cup {c}
        BY <3>1 DEF SweepNext
      <4>3. QED BY <2>1, <4>1, <4>2, AddAlone
    <3>2. QED BY <2>1, <2>6, <3>1 DEF SweepStep, SweepReads, SweepFindsNode, SweepEnds
  <2>7. ASSUME NEW s \in Strands, AcceptStep(s)
        PROVE  GuardedAttachesAreAlone'
    <3>1. CASE AcceptAttaches(s)
      <4> DEFINE c == Attach("accept", s, accept[s].gen)
      <4>1. ~Guarded(c)
        BY DEF Attach, Guarded
      <4>2. attaching' = attaching /\ attaches' = attaches \cup {c}
        BY <3>1 DEF AcceptAttaches
      <4>3. QED BY <4>1, <4>2, AddAlone
    <3>2. QED BY <2>1, <2>7, <3>1 DEF AcceptStep, formStrand, RememberReads, RememberWrites, RememberFails
  <2>8. ASSUME NEW s \in Strands, LeaveStep(s)
        PROVE  GuardedAttachesAreAlone'
    BY <2>1, <2>8 DEF LeaveStep, LeaveReads, LeaveStops, LeaveFails, LeaveWrites
  <2>9. CASE NodeStarts \/ Rebuild \/ BootFails \/ retryBoot \/ UNCHANGED vars
    BY <2>1, <2>9 DEF NodeStarts, Rebuild, BootFails, retryBoot, vars
  <2>10. QED BY <2>2, <2>3, <2>4, <2>5, <2>6, <2>7, <2>8, <2>9 DEF Next
<1>3. QED BY <1>1, <1>2, TypeInvHolds, PTL DEF Spec

-----------------------------------------------------------------------------
(* Offers are followed. *)

Wired == boot = "done" => wired /\ up

(* What runs was attached on this node, and so is what is being attached on *)
(* it; OffersTried is what OffersAreFollowed rests on when a strand stops.  *)
RunningIsTried == running \subseteq tried
AttachIsTried == \A a \in attaches : a.gen = gen => a.strand \in tried
OffersTried == boot = "done" /\ ~drainDue => offered \subseteq tried \cup skipped

OffersInv == Wired /\ RunningIsTried /\ AttachIsTried /\ OffersTried

(* Following offers leaves each of them tried, or skipped behind an attach  *)
(* to an earlier node.                                                      *)
LEMMA FollowTries ==
    ASSUME GuardedAttachesAreAlone, RunningIsTried, AttachIsTried, NEW offers, Follow(offers), gen' = gen
    PROVE  /\ RunningIsTried' /\ AttachIsTried' /\ offers \subseteq tried' \cup skipped'
           /\ tried \subseteq tried' /\ skipped \subseteq skipped'
<1> DEFINE new == {s \in offers : s \notin attaching /\ s \notin running}
<1>1. /\ tried' = tried \cup new /\ running' = running
      /\ attaches' = attaches \cup {Attach("discovered", s, gen) : s \in new}
      /\ skipped' = skipped \cup
            {s \in offers : \E a \in attaches : a.strand = s /\ Guarded(a) /\ a.gen # gen}
  BY DEF Follow
<1>2. AttachIsTried'
  BY <1>1 DEF AttachIsTried, Attach
<1>3. ASSUME NEW s \in offers
      PROVE  s \in tried' \cup skipped'
  <2>1. CASE s \in new \/ s \in running
    BY <1>1, <2>1 DEF RunningIsTried
  <2>2. CASE s \in attaching
    <3>1. PICK a \in attaches : Guarded(a) /\ a.strand = s
      BY <2>2 DEF GuardedAttachesAreAlone
    <3>2. CASE a.gen = gen
      BY <1>1, <3>1, <3>2 DEF AttachIsTried
    <3>3. CASE a.gen # gen
      BY <1>1, <3>1, <3>3
    <3>4. QED BY <3>2, <3>3
  <2>3. QED BY <2>1, <2>2
<1>4. QED BY <1>1, <1>2, <1>3 DEF RunningIsTried

LEMMA OffersInvHolds == Spec => []OffersInv
<1>1. Init => OffersInv
  BY DEF Init, OffersInv, Wired, RunningIsTried, AttachIsTried, OffersTried
<1>2. TypeInv /\ GuardedAttachesAreAlone /\ OffersInv /\ [Next]_vars => OffersInv'
  <2> SUFFICES ASSUME TypeInv, GuardedAttachesAreAlone, OffersInv, [Next]_vars
               PROVE  OffersInv'
    OBVIOUS
  <2> USE DEF nodeVars, slotVars, attachVars, bootVars, OffersInv
  <2>1. \A a \in attaches : a.gen # gen + 1
    <3>1. \A a \in attaches : a.gen \in 1..gen /\ gen \in Nat
      BY DEF TypeInv, TypeOK, AttachRecords
    <3>2. QED BY <3>1
  <2>2. CASE NodeStarts
    BY <2>1, <2>2 DEF NodeStarts, Wired, RunningIsTried, AttachIsTried, OffersTried
  <2>3. CASE Rebuild
    BY <2>1, <2>3 DEF Rebuild, Wired, RunningIsTried, AttachIsTried, OffersTried
  <2>4. CASE Crash
    BY <2>4 DEF Crash, Wired, RunningIsTried, AttachIsTried, OffersTried
  <2>5. CASE drainDiscovered \/ watchDiscovered
    <3>1. Follow(offered) /\ gen' = gen /\ offered' = offered /\ up' = up /\ up
      BY <2>5 DEF drainDiscovered, watchDiscovered
    <3>2. RunningIsTried' /\ AttachIsTried' /\ OffersTried'
      BY <3>1, FollowTries DEF OffersTried
    <3>3. Wired'
      BY <2>5, <3>1 DEF drainDiscovered, watchDiscovered, Wired
    <3>4. QED BY <3>2, <3>3
  <2>6. CASE BootFails \/ retryBoot
    BY <2>6 DEF BootFails, retryBoot, Wired, RunningIsTried, AttachIsTried, OffersTried
  <2>7. ASSUME NEW s \in Strands, Offer(s)
        PROVE  OffersInv'
    <3>1. /\ offered' = offered \cup {s} /\ UNCHANGED <<up, gen, wired, drainDue, boot>>
      BY <2>7 DEF Offer
    <3>2. CASE wired
      <4>1. Follow({s})
        BY <2>7, <3>2 DEF Offer
      <4>2. /\ RunningIsTried' /\ AttachIsTried' /\ s \in tried' \cup skipped'
            /\ tried \subseteq tried' /\ skipped \subseteq skipped'
        BY <3>1, <4>1, FollowTries
      <4>3. QED BY <3>1, <4>2 DEF Wired, OffersTried
    <3>3. CASE ~wired
      BY <2>7, <3>1, <3>3 DEF Offer, Wired, RunningIsTried, AttachIsTried, OffersTried
    <3>4. QED BY <3>2, <3>3
  <2>8. CASE AttachStep
    <3>1. PICK a \in attaches : AddResolves(a) \/ AttachEnds(a)
      BY <2>8 DEF AttachStep
    <3>2. UNCHANGED <<up, gen, offered, tried, skipped, wired, drainDue, boot>>
      BY <3>1 DEF AddResolves, AttachEnds
    <3>3. running' = running \/ (a.gen = gen /\ running' = running \cup {a.strand})
      BY <3>1 DEF AddResolves, AttachEnds
    <3>4. [a EXCEPT !.pc = "registering"].gen = a.gen /\ [a EXCEPT !.pc = "registering"].strand = a.strand
      BY DEF TypeInv, TypeOK, AttachRecords
    <3>5. attaches' \subseteq attaches \cup {[a EXCEPT !.pc = "registering"]}
      BY <3>1 DEF AddResolves, AttachEnds
    <3>6. RunningIsTried' /\ AttachIsTried'
      BY <3>2, <3>3, <3>4, <3>5 DEF RunningIsTried, AttachIsTried
    <3>7. QED BY <3>2, <3>6 DEF Wired, OffersTried
  <2>9. ASSUME NEW t \in Sweeps, SweepStep(t)
        PROVE  OffersInv'
    <3>1. UNCHANGED <<up, gen, offered, running, skipped, wired, drainDue, boot>>
      BY <2>9 DEF SweepStep, SweepReads, SweepFindsNode, SweepEnds, SweepNext
    <3>2. CASE UNCHANGED <<attaches, tried>>
      BY <3>1, <3>2 DEF Wired, RunningIsTried, AttachIsTried, OffersTried
    <3>3. ASSUME NEW s \in Strands, attaches' = attaches \cup {Attach(t, s, sweep[t].gen)},
                 tried' = IF sweep[t].gen = gen THEN tried \cup {s} ELSE tried
          PROVE  OffersInv'
      BY <3>1, <3>3 DEF Wired, RunningIsTried, AttachIsTried, OffersTried, Attach
    <3>4. QED BY <2>9, <3>2, <3>3 DEF SweepStep, SweepReads, SweepFindsNode, SweepEnds, SweepNext
  <2>10. ASSUME NEW s \in Strands, AcceptStep(s)
         PROVE  OffersInv'
    <3>1. UNCHANGED <<up, gen, offered, running, skipped, wired, drainDue, boot>>
      BY <2>10 DEF AcceptStep, formStrand, RememberReads, RememberWrites, RememberFails, AcceptAttaches
    <3>2. CASE UNCHANGED <<attaches, tried>>
      BY <3>1, <3>2 DEF Wired, RunningIsTried, AttachIsTried, OffersTried
    <3>3. CASE AcceptAttaches(s)
      BY <3>1, <3>3 DEF AcceptAttaches, Wired, RunningIsTried, AttachIsTried, OffersTried, Attach
    <3>4. QED BY <2>10, <3>2, <3>3 DEF AcceptStep, formStrand, RememberReads, RememberWrites, RememberFails
  <2>11. ASSUME NEW s \in Strands, LeaveStep(s)
         PROVE  OffersInv'
    <3>1. /\ UNCHANGED <<up, gen, offered, attaches, tried, skipped, wired, drainDue, boot>>
          /\ running' \subseteq running
      BY <2>11 DEF LeaveStep, LeaveReads, LeaveStops, LeaveFails, LeaveWrites
    <3>2. QED BY <3>1 DEF Wired, RunningIsTried, AttachIsTried, OffersTried
  <2>12. CASE UNCHANGED vars
    BY <2>12 DEF vars, Wired, RunningIsTried, AttachIsTried, OffersTried
  <2>13. QED
    BY <2>2, <2>3, <2>4, <2>5, <2>6, <2>7, <2>8, <2>9, <2>10, <2>11, <2>12 DEF Next
<1>3. QED BY <1>1, <1>2, TypeInvHolds, GuardedAttachesStayAlone, PTL DEF Spec

(* Every offer is followed on the node that made it, in whatever order the  *)
(* subscription, the offer, a rebuild, a leave and its drain come           *)
(* (watchDiscovered and drainDiscovered).                                   *)
THEOREM EveryOfferIsFollowed == Spec => []OffersAreFollowed
<1>1. OffersInv => OffersAreFollowed
  BY DEF OffersInv, OffersTried, OffersAreFollowed
<1>2. QED BY <1>1, OffersInvHolds, PTL

-----------------------------------------------------------------------------
(* Joins and leaves, however many run at once. *)

(* The list an operation read before it awaited still says of every strand  *)
(* what the slot does, but for those whose row was written since.           *)
ListsAreCurrent ==
    \A s \in Strands, x \in Strands \ crossed :
        /\ accept[s].pc = "remember" => accept[s].list[x] = joined[x]
        /\ leave[s].pc # "no" => leave[s].list[x] = joined[x]

(* A leave about to write has withdrawn what it found, founded or joined.   *)
WrittenIsWithdrawn ==
    \A s \in Strands \ crossed :
        leave[s].pc = "write" /\ (leave[s].list[s] # "none" \/ s \in Founded \cup remembered) => s \notin control

JoinsInv == ListsAreCurrent /\ WrittenIsWithdrawn /\ JoinsAreKept /\ LeaveLasts

SlotTypes ==
    /\ joined \in [Strands -> Rows]
    /\ accept \in [Strands -> AcceptRecords] /\ leave \in [Strands -> LeaveRecords]
    /\ control \subseteq Strands /\ remembered \subseteq Strands /\ left \subseteq Strands /\ crossed \subseteq Strands

LEMMA SlotIsTyped == ASSUME TypeInv PROVE SlotTypes
BY DEF TypeInv, TypeOK, SlotTypes, AcceptRecords, LeaveRecords

(* What no operation on the slot touches. *)
LEMMA SlotUntouched ==
    ASSUME JoinsInv, SlotTypes,
           UNCHANGED <<joined, remembered, left, crossed>>, control' \subseteq control,
           \A s \in Strands : accept'[s] \in {accept[s], Idle} /\ leave'[s] \in {leave[s], Idle}
    PROVE  JoinsInv'
<1>1. Idle.pc = "no"
  BY IdleTypes
<1>2. ListsAreCurrent'
  BY <1>1 DEF JoinsInv, ListsAreCurrent
<1>3. WrittenIsWithdrawn'
  BY <1>1 DEF JoinsInv, WrittenIsWithdrawn
<1>4. JoinsAreKept' /\ LeaveLasts'
  BY DEF JoinsInv, JoinsAreKept, LeaveLasts, SlotTypes
<1>5. QED BY <1>2, <1>3, <1>4 DEF JoinsInv

(* A join is made: its strand is not left any more, and a leave of it that  *)
(* is going on has been crossed.                                            *)
LEMMA FormKeeps ==
    ASSUME SlotTypes, JoinsInv, NEW s \in Strands, formStrand(s)
    PROVE  JoinsInv'
<1>1. /\ accept' = [accept EXCEPT ![s] = [Idle EXCEPT !.pc = "formed", !.gen = gen]]
      /\ control' = control \cup {s} /\ left' = left \ {s} /\ remembered' = remembered \ {s}
      /\ crossed \subseteq crossed' /\ (leave[s].pc # "no" => s \in crossed')
      /\ joined' = joined /\ leave' = leave
  BY DEF formStrand
<1>2. \A x \in Strands : accept'[x].pc = "remember" => accept'[x] = accept[x]
  BY <1>1, IdleTypes DEF SlotTypes, AcceptRecords
<1>3. ListsAreCurrent'
  BY <1>1, <1>2 DEF JoinsInv, ListsAreCurrent
<1>4. WrittenIsWithdrawn'
  BY <1>1 DEF JoinsInv, WrittenIsWithdrawn
<1>5. JoinsAreKept' /\ LeaveLasts'
  BY <1>1 DEF JoinsInv, JoinsAreKept, LeaveLasts
<1>6. QED BY <1>3, <1>4, <1>5 DEF JoinsInv

(* remember() reads the list. *)
LEMMA RememberReadsKeeps ==
    ASSUME SlotTypes, JoinsInv, NEW s \in Strands, RememberReads(s)
    PROVE  JoinsInv'
<1>1. /\ accept' = [accept EXCEPT ![s].pc = "remember", ![s].list = joined]
      /\ UNCHANGED <<control, joined, leave, remembered, left, crossed>>
  BY DEF RememberReads, nodeVars
<1>2. /\ \A x \in Strands : x # s => accept'[x] = accept[x]
      /\ accept'[s].list = joined
  BY <1>1 DEF SlotTypes, AcceptRecords
<1>3. ListsAreCurrent'
  <2> SUFFICES ASSUME NEW t \in Strands, NEW x \in Strands \ crossed'
               PROVE  /\ accept'[t].pc = "remember" => accept'[t].list[x] = joined'[x]
                      /\ leave'[t].pc # "no" => leave'[t].list[x] = joined'[x]
    BY DEF ListsAreCurrent
  <2>1. joined' = joined /\ leave' = leave /\ x \in Strands \ crossed
    BY <1>1
  <2>2. /\ accept[t].pc = "remember" => accept[t].list[x] = joined[x]
        /\ leave[t].pc # "no" => leave[t].list[x] = joined[x]
    BY <2>1 DEF JoinsInv, ListsAreCurrent
  <2>3. CASE t = s
    BY <1>2, <2>1, <2>2, <2>3
  <2>4. CASE t # s
    <3>1. accept'[t] = accept[t]
      BY <1>2, <2>4
    <3>2. QED BY <2>1, <2>2, <3>1
  <2>5. QED BY <2>3, <2>4
<1>4. WrittenIsWithdrawn' /\ JoinsAreKept' /\ LeaveLasts'
  BY <1>1 DEF JoinsInv, WrittenIsWithdrawn, JoinsAreKept, LeaveLasts
<1>5. QED BY <1>3, <1>4 DEF JoinsInv

(* It writes the list back with the row in it: the rows of the other        *)
(* strands are as they were, and whoever holds an older list has been       *)
(* crossed.                                                                 *)
LEMMA RememberWritesKeeps ==
    ASSUME SlotTypes, JoinsInv, NEW s \in Strands, RememberWrites(s)
    PROVE  JoinsInv'
<1>1. /\ accept[s].pc = "remember"
      /\ joined' = [accept[s].list EXCEPT ![s] = "kept"]
      /\ remembered' = remembered \cup {s} /\ left' = left \ {s}
      /\ crossed' = IF Alone(<<"accept", s>>) THEN crossed \ {s} ELSE crossed \cup {s}
      /\ accept' = [accept EXCEPT ![s].pc = "attach", ![s].list = NoList]
      /\ UNCHANGED <<control, leave>>
  BY DEF RememberWrites, nodeVars
<1>2. /\ \A x \in Strands : x # s => accept'[x] = accept[x]
      /\ accept'[s].pc = "attach" /\ accept[s].list \in [Strands -> Rows]
  BY <1>1 DEF SlotTypes, AcceptRecords
<1>3. /\ joined'[s] = "kept"
      /\ \A x \in Strands \ crossed : x # s => joined'[x] = joined[x]
  BY <1>1, <1>2 DEF JoinsInv, ListsAreCurrent
<1>4. \A x \in Strands \ crossed' : x # s => x \notin crossed
  BY <1>1
<1>5. s \notin crossed' => \A x \in Strands : leave[x].pc = "no" /\ accept'[x].pc # "remember"
  <2>1. s \notin crossed' => Rewriting \subseteq {<<"accept", s>>}
    BY <1>1 DEF Alone
  <2>2. \A x \in Strands : leave[x].pc # "no" => <<"leave", x>> \in Rewriting
    BY DEF Rewriting
  <2>3. \A x \in Strands : accept[x].pc = "remember" => <<"accept", x>> \in Rewriting
    BY DEF Rewriting
  <2>4. QED BY <1>2, <2>1, <2>2, <2>3
<1>6. ListsAreCurrent'
  <2> SUFFICES ASSUME NEW t \in Strands, NEW x \in Strands \ crossed'
               PROVE  /\ accept'[t].pc = "remember" => accept'[t].list[x] = joined'[x]
                      /\ leave'[t].pc # "no" => leave'[t].list[x] = joined'[x]
    BY DEF ListsAreCurrent
  <2>1. leave' = leave /\ (x # s => x \notin crossed)
    BY <1>1, <1>4
  <2>2. CASE x = s
    BY <1>5, <2>1, <2>2
  <2>3. CASE x # s
    <3>1. joined'[x] = joined[x] /\ x \in Strands \ crossed
      BY <1>3, <2>1, <2>3
    <3>2. /\ accept[t].pc = "remember" => accept[t].list[x] = joined[x]
          /\ leave[t].pc # "no" => leave[t].list[x] = joined[x]
      BY <3>1 DEF JoinsInv, ListsAreCurrent
    <3>3. accept'[t].pc = "remember" => accept'[t] = accept[t]
      BY <1>2
    <3>4. QED BY <2>1, <3>1, <3>2, <3>3
  <2>4. QED BY <2>2, <2>3
<1>7. WrittenIsWithdrawn'
  BY <1>1, <1>4, <1>5 DEF JoinsInv, WrittenIsWithdrawn
<1>8. JoinsAreKept' /\ LeaveLasts'
  BY <1>1, <1>3, <1>4 DEF JoinsInv, JoinsAreKept, LeaveLasts, SlotTypes
<1>9. QED BY <1>6, <1>7, <1>8 DEF JoinsInv

(* leave() reads the list. *)
LEMMA LeaveReadsKeeps ==
    ASSUME SlotTypes, JoinsInv, NEW s \in Strands, LeaveReads(s)
    PROVE  JoinsInv'
<1>1. /\ leave' = [leave EXCEPT ![s] = [pc |-> "stop", list |-> joined, gen |-> gen]]
      /\ UNCHANGED <<control, joined, accept, remembered, left, crossed>>
  BY DEF LeaveReads, nodeVars
<1>2. /\ \A x \in Strands : x # s => leave'[x] = leave[x]
      /\ leave'[s].list = joined /\ leave'[s].pc = "stop"
  BY <1>1 DEF SlotTypes
<1>3. ListsAreCurrent'
  BY <1>1, <1>2 DEF JoinsInv, ListsAreCurrent
<1>4. WrittenIsWithdrawn'
  BY <1>1, <1>2 DEF JoinsInv, WrittenIsWithdrawn
<1>5. JoinsAreKept' /\ LeaveLasts'
  BY <1>1 DEF JoinsInv, JoinsAreKept, LeaveLasts
<1>6. QED BY <1>3, <1>4, <1>5 DEF JoinsInv

(* The strand is stopped and withdrawn: a join remembered is in the list    *)
(* read, unless it was left before, and then it is withdrawn already.       *)
LEMMA LeaveStopsKeeps ==
    ASSUME SlotTypes, JoinsInv, NEW s \in Strands, LeaveStops(s)
    PROVE  JoinsInv'
<1>1. /\ leave[s].pc = "stop" /\ leave' = [leave EXCEPT ![s].pc = "write"]
      /\ control' = IF leave[s].list[s] # "none" \/ s \in Founded THEN control \ {s} ELSE control
      /\ UNCHANGED <<joined, accept, remembered, left, crossed>>
  BY DEF LeaveStops
<1>2. /\ \A x \in Strands : x # s => leave'[x] = leave[x]
      /\ leave'[s].list = leave[s].list
  BY <1>1 DEF SlotTypes, LeaveRecords
<1>3. ListsAreCurrent'
  BY <1>1, <1>2 DEF JoinsInv, ListsAreCurrent
<1>4. WrittenIsWithdrawn'
  <2>1. s \notin crossed => leave[s].list[s] = joined[s]
    BY <1>1 DEF JoinsInv, ListsAreCurrent
  <2>2. s \in remembered \ crossed => joined[s] # "none" \/ s \notin control
    BY DEF JoinsInv, JoinsAreKept, LeaveLasts
  <2>3. s \notin crossed /\ (leave[s].list[s] # "none" \/ s \in Founded \cup remembered) => s \notin control'
    BY <1>1, <2>1, <2>2
  <2>4. \A x \in Strands \ crossed :
           leave'[x].pc = "write" /\ (leave'[x].list[x] # "none" \/ x \in Founded \cup remembered) => x \notin control'
    <3> SUFFICES ASSUME NEW x \in Strands \ crossed, leave'[x].pc = "write",
                        leave'[x].list[x] # "none" \/ x \in Founded \cup remembered
                 PROVE  x \notin control'
      OBVIOUS
    <3>1. CASE x = s BY <1>2, <2>3, <3>1
    <3>2. CASE x # s BY <1>1, <1>2, <3>2 DEF JoinsInv, WrittenIsWithdrawn
    <3> QED BY <3>1, <3>2
  <2>5. QED BY <1>1, <2>4 DEF WrittenIsWithdrawn
<1>5. JoinsAreKept' /\ LeaveLasts'
  BY <1>1 DEF JoinsInv, JoinsAreKept, LeaveLasts
<1>6. QED BY <1>3, <1>4, <1>5 DEF JoinsInv

(* The list is written back, with the row marked or taken out. *)
LEMMA LeaveWritesKeeps ==
    ASSUME SlotTypes, JoinsInv, NEW s \in Strands, LeaveWrites(s)
    PROVE  JoinsInv'
<1>1. /\ leave[s].pc = "write" /\ leave' = [leave EXCEPT ![s] = Idle] /\ left' = left \cup {s}
      /\ crossed' = IF Alone(<<"leave", s>>) THEN crossed ELSE crossed \cup {s}
      /\ UNCHANGED <<control, accept, remembered>>
      /\ \/ joined' = [leave[s].list EXCEPT ![s] = IF @ = "none" THEN "none" ELSE "left"]
         \/ joined' = [leave[s].list EXCEPT ![s] = "none"]
  BY DEF LeaveWrites, LeftNow, nodeVars
<1>2. /\ \A x \in Strands : leave'[x] = IF x = s THEN Idle ELSE leave[x]
      /\ Idle.pc = "no" /\ leave[s].list \in [Strands -> Rows]
  BY <1>1, IdleTypes DEF SlotTypes, LeaveRecords
<1>3. /\ joined'[s] \in {"none", "left"} /\ (leave[s].list[s] = "none" => joined'[s] = "none")
      /\ \A x \in Strands \ crossed : x # s => joined'[x] = joined[x]
  BY <1>1, <1>2 DEF JoinsInv, ListsAreCurrent
<1>4. crossed \subseteq crossed'
  BY <1>1
<1>5. s \notin crossed' => \A x \in Strands : leave'[x].pc = "no" /\ accept[x].pc # "remember"
  <2>1. s \notin crossed' => Rewriting \subseteq {<<"leave", s>>}
    BY <1>1 DEF Alone
  <2>2. \A x \in Strands : leave[x].pc # "no" => <<"leave", x>> \in Rewriting
    BY DEF Rewriting
  <2>3. \A x \in Strands : accept[x].pc = "remember" => <<"accept", x>> \in Rewriting
    BY DEF Rewriting
  <2>4. QED BY <1>2, <2>1, <2>2, <2>3
<1>6. ListsAreCurrent'
  BY <1>1, <1>2, <1>3, <1>4, <1>5 DEF JoinsInv, ListsAreCurrent
<1>7. WrittenIsWithdrawn'
  BY <1>1, <1>2, <1>4 DEF JoinsInv, WrittenIsWithdrawn
<1>8. s \notin crossed => (joined'[s] = "left" \/ s \in Founded \cup remembered => s \notin control)
  BY <1>1, <1>3 DEF JoinsInv, WrittenIsWithdrawn
<1>9. JoinsAreKept' /\ LeaveLasts'
  BY <1>1, <1>3, <1>4, <1>8 DEF JoinsInv, JoinsAreKept, LeaveLasts, SlotTypes
<1>10. QED BY <1>6, <1>7, <1>9 DEF JoinsInv

LEMMA JoinsInvHolds == Spec => []JoinsInv
<1>1. Init => JoinsInv
  <2> SUFFICES ASSUME Init
               PROVE  JoinsInv
    OBVIOUS
  <2>1. \A s \in Strands : accept[s].pc = "no" /\ leave[s].pc = "no"
    BY IdleTypes DEF Init
  <2>2. left = {} /\ remembered = {}
    BY DEF Init
  <2>3. QED BY <2>1, <2>2 DEF JoinsInv, ListsAreCurrent, WrittenIsWithdrawn, JoinsAreKept, LeaveLasts
<1>2. TypeInv /\ JoinsInv /\ [Next]_vars => JoinsInv'
  <2> SUFFICES ASSUME TypeInv, JoinsInv, [Next]_vars
               PROVE  JoinsInv'
    OBVIOUS
  <2> USE DEF nodeVars, slotVars
  <2>1. SlotTypes
    BY SlotIsTyped
  <2>2. CASE NodeStarts \/ Rebuild \/ drainDiscovered \/ watchDiscovered \/ BootFails \/ retryBoot \/ UNCHANGED vars
    BY <2>1, <2>2, SlotUntouched
    DEF NodeStarts, Rebuild, drainDiscovered, watchDiscovered, BootFails, retryBoot, vars
  <2>3. CASE Crash
    BY <2>1, <2>3, SlotUntouched DEF Crash
  <2>4. ASSUME NEW s \in Strands, Offer(s)
        PROVE  JoinsInv'
    BY <2>1, <2>4, SlotUntouched DEF Offer
  <2>5. CASE AttachStep
    BY <2>1, <2>5, SlotUntouched DEF AttachStep, AddResolves, AttachEnds, SlotTypes
  <2>6. ASSUME NEW t \in Sweeps, SweepStep(t)
        PROVE  JoinsInv'
    BY <2>1, <2>6, SlotUntouched DEF SweepStep, SweepReads, SweepFindsNode, SweepEnds, SweepNext
  <2>7. ASSUME NEW s \in Strands, AcceptStep(s)
        PROVE  JoinsInv'
    <3>1. CASE RememberFails(s) \/ AcceptAttaches(s)
      BY <2>1, <3>1, SlotUntouched DEF RememberFails, AcceptAttaches, SlotTypes
    <3>2. QED BY <2>1, <2>7, <3>1, FormKeeps, RememberReadsKeeps, RememberWritesKeeps DEF AcceptStep
  <2>8. ASSUME NEW s \in Strands, LeaveStep(s)
        PROVE  JoinsInv'
    <3>1. CASE LeaveFails(s)
      BY <2>1, <3>1, SlotUntouched DEF LeaveFails, SlotTypes
    <3>2. QED BY <2>1, <2>8, <3>1, LeaveReadsKeeps, LeaveStopsKeeps, LeaveWritesKeeps DEF LeaveStep
  <2>9. QED BY <2>2, <2>3, <2>4, <2>5, <2>6, <2>7, <2>8 DEF Next
<1>3. QED BY <1>1, <1>2, TypeInvHolds, PTL DEF Spec

(* A join that was remembered stays in the slot until it is left, through   *)
(* restarts and any number of other joins and leaves at once, unless its    *)
(* row was written while another operation was between its read of the      *)
(* slot and its write (remember, leave).                                    *)
THEOREM JoinsStayKept == Spec => []JoinsAreKept
<1>1. JoinsInv => JoinsAreKept
  BY DEF JoinsInv
<1>2. QED BY <1>1, JoinsInvHolds, PTL

(* What was left is not attached again at the next start, and the control   *)
(* store does not offer it if it was founded here or remembered, whatever   *)
(* other joins and leaves go on, with the same exception (leave).           *)
THEOREM LeavesLast == Spec => []LeaveLasts
<1>1. JoinsInv => LeaveLasts
  BY DEF JoinsInv
<1>2. QED BY <1>1, JoinsInvHolds, PTL
=============================================================================
