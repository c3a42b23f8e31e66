------------------------- MODULE MemberPartsProofs -------------------------
(***************************************************************************)
(* Theorems about five of the parts that Screens composes: this device's   *)
(* row in each strand, accepting an invitation, making one, the composer   *)
(* of a conversation, and the statements that write what was composed.     *)
(* Each is proved on its own.                                              *)
(***************************************************************************)
EXTENDS Registration, Accepting, Invitations, Composer, Writing, FiniteSetTheorems,
        SequenceTheorems, WellFoundedInduction, TLAPS

-----------------------------------------------------------------------------
(***************************************************************************)
(* Registration.                                                           *)
(* NameIsRegistered, for any strands, names and number of senders and      *)
(* renames.  The inductive invariant adds what each step under way knows:  *)
(* who is about to insert a message has a row, who saw a row will find one,*)
(* unless the members refused it.                                          *)
(***************************************************************************)
HasRow(s) == row[s] # None \/ s \in refused

(* What a registration, a send or a sync under way may rely on. *)
Sound(k) ==
    /\ k.pc \in {"row", "write", "members", "insert"} => k.strand \in Strands
    /\ k.pc \in {"row", "write", "next"} => k.name \in Names
    /\ k.pc = "write" /\ k.current # None => HasRow(k.strand)
    /\ k.pc = "insert" => HasRow(k.strand)

SendersKnow == \A t \in Senders : task[t].pc = "name" => task[t].strand \in Strands

RowsAgree ==
    /\ \A s \in Strands \ (ignored \cup refused) : registeredAs[s] # None => row[s] = registeredAs[s]
    /\ \A s \in Strands : registeredAs[s] # None \/ s \in ignored \cup spoke => HasRow(s)

RegistrationInv ==
    /\ RegistrationTypeOK /\ SendersKnow /\ RowsAgree
    /\ \A t \in Tasks : Sound(task[t])

RegistrationSpec == RegistrationInit /\ [][RegistrationNext]_registrationVars

Steps == [pc : {"idle", "name", "row", "write", "members", "insert", "next"},
          strand : Strands \cup {None}, name : Names \cup {None},
          current : Names \cup {None}, sends : BOOLEAN]

(* A row that is there stays or is refused, whatever a step does.           *)
LEMMA RowsStay ==
    ASSUME RegistrationConstants, RegistrationInv, [RegistrationNext]_registrationVars, NEW s \in Strands, HasRow(s)
    PROVE  HasRow(s)'
<1>1. row \in [Strands -> Names \cup {None}] /\ None \notin Names
  BY DEF RegistrationInv, RegistrationTypeOK, RegistrationConstants
<1>2. CASE UNCHANGED <<row, refused>>
  BY <1>2 DEF HasRow
<1>3. ASSUME NEW t \in Tasks, RowWritten(t) PROVE HasRow(s)'
  <2>1. task[t].name \in Names
    BY <1>3 DEF RegistrationInv, Sound, RowWritten
  <2>2. row' = row \/ row' = [row EXCEPT ![task[t].strand] = task[t].name]
    BY <1>3 DEF RowWritten
  <2> QED BY <1>1, <1>3, <2>1, <2>2 DEF HasRow, RowWritten
<1>4. ASSUME NEW r \in Strands, Refuse(r) PROVE HasRow(s)'
  BY <1>1, <1>4 DEF HasRow, Refuse
<1> QED BY <1>2, <1>3, <1>4, Zenon DEF RegistrationNext, registrationVars, registerSelf, NameRead, RowRead,
          RowFails, MembersRead, Inserted, SaveProfile, SyncNameRead, SyncNext, Crash

LEMMA StepTypes == NoTask \in Steps /\ NoTask.pc = "idle" /\ NoTask.sends = FALSE
BY DEF Steps, NoTask

LEMMA ToTypes ==
    ASSUME NEW pc \in {"members", "insert"}, NEW s \in Strands
    PROVE  /\ To(pc, s) \in Steps /\ To(pc, s).pc = pc /\ To(pc, s).strand = s
BY DEF Steps, NoTask, To

(* What is under way at t moves on to k. *)
MovesTo(t, k) == task' = [task EXCEPT ![t] = k] /\ Sound(k)' /\ (t \in Senders /\ k.pc = "name" => k.strand \in Strands)

LEMMA MoveKeeps ==
    ASSUME RegistrationConstants, RegistrationInv, [RegistrationNext]_registrationVars,
           NEW t \in Tasks, NEW k \in Steps, MovesTo(t, k)
    PROVE  task' \in [Tasks -> Steps] /\ SendersKnow' /\ (\A u \in Tasks : Sound(task[u]))'
<1>1. task \in [Tasks -> Steps] /\ SendersKnow /\ \A u \in Tasks : Sound(task[u])
  BY DEF RegistrationInv, RegistrationTypeOK, Steps
<1>2. task' \in [Tasks -> Steps] /\ task'[t] = k /\ (\A u \in Tasks : u # t => task'[u] = task[u])
  BY <1>1 DEF MovesTo
<1>3. SendersKnow'
  BY <1>1, <1>2 DEF SendersKnow, MovesTo, Tasks
<1>4. ASSUME NEW u \in Tasks PROVE Sound(task[u])'
  <2>1. CASE u = t
    BY <1>2, <2>1 DEF MovesTo, Sound
  <2>2. CASE u # t
    BY <1>1, <1>2, <2>2, RowsStay DEF Sound
  <2> QED BY <2>1, <2>2
<1> QED BY <1>2, <1>3, <1>4

(* After registering, a send goes on to insert: its strand has a row by     *)
(* then.                                                                    *)
LEMMA RegisteredMoves ==
    ASSUME RegistrationInv, NEW t \in Tasks, NEW s \in Strands, task[t].strand = s, HasRow(s)', task' = Registered(t)
    PROVE  \E k \in Steps : MovesTo(t, k)
<1>1. CASE task[t].sends
  <2>1. task' = [task EXCEPT ![t] = To("insert", s)]
    BY <1>1 DEF Registered, RegistrationInv, RegistrationTypeOK
  <2>2. PICK k \in Steps : k = To("insert", s) /\ k.pc = "insert" /\ k.strand = s
    BY ToTypes
  <2> QED BY <2>1, <2>2 DEF MovesTo, Sound, HasRow
<1>2. CASE ~task[t].sends
  <2>1. task' = [task EXCEPT ![t] = NoTask]
    BY <1>2 DEF Registered, RegistrationInv, RegistrationTypeOK
  <2>2. PICK k \in Steps : k = NoTask /\ k.pc = "idle"
    BY StepTypes
  <2> QED BY <2>1, <2>2 DEF MovesTo, Sound
<1> QED BY <1>1, <1>2

LEMMA GoesOnMoves ==
    ASSUME RegistrationInv, NEW t \in Tasks, NEW s \in Strands, task[t].strand = s, task' = GoesOn(t),
           task[t].name \in Names, t \in Syncs \/ HasRow(s)'
    PROVE  \E k \in Steps : MovesTo(t, k)
<1>1. CASE t \in Syncs
  <2>1. task' = [task EXCEPT ![t] = [NoTask EXCEPT !.pc = "next", !.name = task[t].name]]
    BY <1>1 DEF GoesOn
  <2>2. /\ [NoTask EXCEPT !.pc = "next", !.name = task[t].name] \in Steps
        /\ [NoTask EXCEPT !.pc = "next", !.name = task[t].name].pc = "next"
        /\ [NoTask EXCEPT !.pc = "next", !.name = task[t].name].name = task[t].name
    BY DEF Steps, NoTask
  <2>3. PICK k \in Steps : k = [NoTask EXCEPT !.pc = "next", !.name = task[t].name]
                          /\ k.pc = "next" /\ k.name = task[t].name
    BY <2>2
  <2> QED BY <2>1, <2>3 DEF MovesTo, Sound
<1>2. CASE t \notin Syncs
  BY <1>2, RegisteredMoves DEF GoesOn
<1> QED BY <1>1, <1>2

(* Every action moves one task, but for the crash.                          *)
LEMMA ActionsMove ==
    ASSUME RegistrationConstants, RegistrationInv, RegistrationNext, ~Crash
    PROVE  (\E t \in Tasks, k \in Steps : MovesTo(t, k)) \/ task' = task
<1>1. task \in [Tasks -> Steps] /\ SendersKnow /\ RowsAgree /\ None \notin Names /\ Senders \cap Syncs = {}
      /\ \A u \in Tasks : Sound(task[u])
  BY DEF RegistrationInv, RegistrationTypeOK, Steps, RegistrationConstants, Syncs
<1>2. \A s \in Strands : HasRow(s) => HasRow(s)'
  BY RowsStay
<1>3. ASSUME NEW t \in Senders, NEW s \in Strands, NEW sends \in BOOLEAN, registerSelf(t, s, sends)
      PROVE  \E k \in Steps : MovesTo(t, k)
  <2>1. [NoTask EXCEPT !.pc = "name", !.strand = s, !.sends = sends] \in Steps
    BY DEF Steps, NoTask
  <2>2. PICK k \in Steps : k = [NoTask EXCEPT !.pc = "name", !.strand = s, !.sends = sends]
    BY <2>1
  <2>3. k.pc = "name" /\ k.strand = s
    BY <2>2 DEF NoTask
  <2> QED BY <1>3, <2>2, <2>3 DEF registerSelf, MovesTo, Sound
<1>4. ASSUME NEW t \in Tasks, NameRead(t) PROVE \E k \in Steps : MovesTo(t, k)
  <2>1. profile \in Names /\ t \in Senders
    BY <1>4 DEF NameRead, RegistrationInv, RegistrationTypeOK
  <2>2. PICK s \in Strands : task[t].strand = s
    BY <1>1, <1>4, <2>1 DEF NameRead, SendersKnow
  <2>3. CASE registeredAs[s] = profile
    <3>1. HasRow(s)
      BY <1>1, <2>1, <2>3 DEF RowsAgree
    <3>2. task' = Registered(t)
      BY <1>4, <2>2, <2>3 DEF NameRead
    <3> QED BY <1>2, <2>2, <3>1, <3>2, RegisteredMoves
  <2>4. CASE registeredAs[s] # profile
    <3>1. [task[t] EXCEPT !.pc = "row", !.name = profile] \in Steps
      BY <1>1, <2>1 DEF Steps
    <3>2. PICK k \in Steps : k = [task[t] EXCEPT !.pc = "row", !.name = profile]
      BY <3>1
    <3>3. k.pc = "row" /\ k.name \in Names /\ k.strand = s
      BY <1>1, <2>1, <2>2, <3>2 DEF Steps
    <3>4. task' = [task EXCEPT ![t] = k]
      BY <1>1, <1>4, <2>2, <2>4, <3>2 DEF NameRead
    <3> QED BY <3>3, <3>4 DEF MovesTo, Sound
  <2> QED BY <2>3, <2>4
<1>5. ASSUME NEW t \in Tasks, RowRead(t) PROVE \E k \in Steps : MovesTo(t, k)
  <2>1. task[t].name \in Names /\ UNCHANGED <<row, refused>>
    BY <1>1, <1>5 DEF RowRead, Sound
  <2>2. PICK s \in Strands : task[t].strand = s
    BY <1>1, <1>5 DEF RowRead, Sound
  <2>3. CASE row[s] = task[t].name
    <3>1. HasRow(s)
      BY <1>1, <2>1, <2>3 DEF HasRow
    <3>2. task' = GoesOn(t)
      BY <1>5, <2>2, <2>3 DEF RowRead
    <3> QED BY <1>2, <2>1, <2>2, <3>1, <3>2, GoesOnMoves
  <2>4. CASE row[s] # task[t].name
    <3>1. [task[t] EXCEPT !.pc = "write", !.current = row[s]] \in Steps
      BY <1>1 DEF Steps, RegistrationInv, RegistrationTypeOK
    <3>2. PICK k \in Steps : k = [task[t] EXCEPT !.pc = "write", !.current = row[s]]
      BY <3>1
    <3>3. k.pc = "write" /\ k.name \in Names /\ k.strand = s /\ k.current = row[s]
      BY <1>1, <2>1, <2>2, <3>2 DEF Steps
    <3>4. task' = [task EXCEPT ![t] = k]
      BY <1>1, <1>5, <2>2, <2>4, <3>2 DEF RowRead
    <3> QED BY <2>1, <3>3, <3>4 DEF MovesTo, Sound, HasRow
  <2> QED BY <2>3, <2>4
<1>6. ASSUME NEW t \in Tasks, RowWritten(t) PROVE \E k \in Steps : MovesTo(t, k)
  <2>1. task[t].name \in Names /\ Sound(task[t])
    BY <1>1, <1>6 DEF RowWritten, Sound
  <2>2. PICK s \in Strands : task[t].strand = s
    BY <1>1, <1>6 DEF RowWritten, Sound
  <2>3. HasRow(s)'
    <3>1. CASE row' = [row EXCEPT ![s] = task[t].name]
      BY <1>1, <2>1, <3>1 DEF HasRow, RegistrationInv, RegistrationTypeOK
    <3>2. CASE row[s] # None
      BY <1>2, <3>2 DEF HasRow
    <3>3. CASE task[t].current # None
      BY <1>2, <1>6, <2>1, <2>2, <3>3 DEF Sound, RowWritten
    <3> QED BY <1>6, <2>2, <3>1, <3>2, <3>3 DEF RowWritten
  <2> QED BY <1>6, <2>1, <2>2, <2>3, GoesOnMoves DEF RowWritten
<1>7. ASSUME NEW t \in Tasks, RowFails(t) PROVE \E k \in Steps : MovesTo(t, k)
  <2>1. task[t].name \in Names \/ t \notin Syncs
    BY <1>1, <1>7 DEF RowFails, Sound
  <2>2. PICK s \in Strands : task[t].strand = s
    BY <1>1, <1>7 DEF RowFails, Sound
  <2>3. CASE t \in Syncs
    <3>1. task' = GoesOn(t)
      BY <1>7, <2>3 DEF RowFails
    <3> QED BY <2>1, <2>2, <2>3, <3>1, GoesOnMoves
  <2>4. CASE t \notin Syncs /\ task[t].sends
    <3>1. task' = [task EXCEPT ![t] = To("members", s)]
      BY <1>7, <2>2, <2>4 DEF RowFails
    <3>2. PICK k \in Steps : k = To("members", s) /\ k.pc = "members" /\ k.strand = s
      BY ToTypes
    <3> QED BY <3>1, <3>2 DEF MovesTo, Sound
  <2>5. CASE t \notin Syncs /\ ~task[t].sends
    <3>1. task' = [task EXCEPT ![t] = NoTask]
      BY <1>7, <2>5 DEF RowFails
    <3> QED BY <3>1, StepTypes DEF MovesTo, Sound
  <2> QED BY <2>3, <2>4, <2>5
<1>8. ASSUME NEW t \in Tasks, MembersRead(t) PROVE \E k \in Steps : MovesTo(t, k)
  <2>1. UNCHANGED <<row, refused>>
    BY <1>8 DEF MembersRead
  <2>2. PICK s \in Strands : task[t].strand = s
    BY <1>1, <1>8 DEF MembersRead, Sound
  <2>3. CASE row[s] = None
    <3>1. task' = [task EXCEPT ![t] = NoTask]
      BY <1>8, <2>2, <2>3 DEF MembersRead
    <3> QED BY <3>1, StepTypes DEF MovesTo, Sound
  <2>4. CASE row[s] # None
    <3>1. [task[t] EXCEPT !.pc = "insert"] \in Steps
      BY <1>1 DEF Steps
    <3>2. PICK k \in Steps : k = [task[t] EXCEPT !.pc = "insert"]
      BY <3>1
    <3>3. k.pc = "insert" /\ k.strand = s
      BY <1>1, <2>2, <3>2 DEF Steps
    <3>4. task' = [task EXCEPT ![t] = k]
      BY <1>1, <1>8, <2>2, <2>4, <3>2 DEF MembersRead
    <3> QED BY <2>1, <2>4, <3>3, <3>4 DEF MovesTo, Sound, HasRow
  <2> QED BY <2>3, <2>4
<1>9. ASSUME NEW t \in Tasks, Inserted(t) PROVE \E k \in Steps : MovesTo(t, k)
  BY <1>9, StepTypes DEF Inserted, MovesTo, Sound
<1>10. ASSUME NEW name \in Names, SaveProfile(name) PROVE \E t \in Tasks, k \in Steps : MovesTo(t, k)
  <2>1. renames' \in Syncs /\ task' = [task EXCEPT ![renames'] = [NoTask EXCEPT !.pc = "name"]]
    BY <1>10 DEF SaveProfile, RegistrationInv, RegistrationTypeOK, RegistrationConstants, Syncs
  <2>2. PICK n \in Syncs : n = renames'
    BY <2>1
  <2>3. [NoTask EXCEPT !.pc = "name"] \in Steps
    BY DEF Steps, NoTask
  <2>4. PICK k \in Steps : k = [NoTask EXCEPT !.pc = "name"]
    BY <2>3
  <2>5. k.pc = "name"
    BY <2>4 DEF NoTask
  <2>6. MovesTo(n, k)
    BY <1>1, <2>1, <2>2, <2>4, <2>5 DEF MovesTo, Sound
  <2> QED BY <2>2, <2>6 DEF Tasks
<1>11. ASSUME NEW n \in Syncs, SyncNameRead(n) PROVE \E k \in Steps : MovesTo(n, k)
  <2>1. profile \in Names /\ n \in Tasks
    BY DEF RegistrationInv, RegistrationTypeOK, Tasks
  <2>2. [task[n] EXCEPT !.pc = "next", !.name = profile] \in Steps
    BY <1>1, <2>1 DEF Steps
  <2>3. PICK k \in Steps : k = [task[n] EXCEPT !.pc = "next", !.name = profile]
    BY <2>2
  <2>4. k.pc = "next" /\ k.name \in Names
    BY <1>1, <2>1, <2>3 DEF Steps
  <2>5. task' = [task EXCEPT ![n] = k]
    BY <1>1, <1>11, <2>1, <2>3 DEF SyncNameRead
  <2> QED BY <2>4, <2>5 DEF MovesTo, Sound
<1>12. ASSUME NEW n \in Syncs, SyncNext(n) PROVE \E k \in Steps : MovesTo(n, k)
  <2>1. CASE task' = [task EXCEPT ![n] = NoTask]
    BY <2>1, StepTypes DEF MovesTo, Sound
  <2>2. ASSUME NEW s \in todo[n], task' = [task EXCEPT ![n].pc = "row", ![n].strand = s] PROVE \E k \in Steps : MovesTo(n, k)
    <3>1. s \in Strands /\ n \in Tasks
      BY DEF RegistrationInv, RegistrationTypeOK, Tasks
    <3>2. [task[n] EXCEPT !.pc = "row", !.strand = s] \in Steps
      BY <1>1, <3>1 DEF Steps
    <3>3. PICK k \in Steps : k = [task[n] EXCEPT !.pc = "row", !.strand = s]
      BY <3>2
    <3>4. task[n].name \in Names
      BY <1>1, <1>12, <3>1 DEF SyncNext, Sound
    <3>5. k.pc = "row" /\ k.strand \in Strands /\ k.name \in Names /\ n \notin Senders
      BY <1>1, <3>1, <3>3, <3>4 DEF Steps
    <3>6. task' = [task EXCEPT ![n] = k]
      BY <1>1, <2>2, <3>1, <3>3 DEF Steps
    <3> QED BY <3>5, <3>6 DEF MovesTo, Sound
  <2> QED BY <1>12, <2>1, <2>2 DEF SyncNext
<1>13. ASSUME NEW s \in Strands, Refuse(s) PROVE task' = task
  BY <1>13 DEF Refuse
<1> QED BY <1>3, <1>4, <1>5, <1>6, <1>7, <1>8, <1>9, <1>10, <1>11, <1>12, <1>13 DEF RegistrationNext, Tasks

-----------------------------------------------------------------------------
LEMMA RegistrationTypesStay ==
    ASSUME RegistrationConstants, RegistrationInv, [RegistrationNext]_registrationVars
    PROVE  /\ profile' \in Names /\ renames' \in 0 .. MaxRenames
           /\ row' \in [Strands -> Names \cup {None}] /\ registeredAs' \in [Strands -> Names \cup {None}]
           /\ todo' \in [Syncs -> SUBSET Strands]
           /\ spoke' \subseteq Strands /\ ignored' \subseteq Strands /\ refused' \subseteq Strands
<1>1. /\ profile \in Names /\ renames \in 0 .. MaxRenames
      /\ row \in [Strands -> Names \cup {None}] /\ registeredAs \in [Strands -> Names \cup {None}]
      /\ todo \in [Syncs -> SUBSET Strands]
      /\ spoke \subseteq Strands /\ ignored \subseteq Strands /\ refused \subseteq Strands
      /\ \A t \in Tasks : Sound(task[t])
  BY DEF RegistrationInv, RegistrationTypeOK
<1>2. ASSUME NEW t \in Tasks, NameRead(t) \/ RowRead(t) \/ RowWritten(t) \/ RowFails(t) \/ MembersRead(t) \/ Inserted(t)
      PROVE  /\ row' \in [Strands -> Names \cup {None}] /\ registeredAs' \in [Strands -> Names \cup {None}]
             /\ spoke' \subseteq Strands /\ ignored' \subseteq Strands
             /\ UNCHANGED <<profile, renames, todo, refused>>
  BY <1>1, <1>2 DEF NameRead, RowRead, RowWritten, RowFails, MembersRead, Inserted, Sound
<1>3. ASSUME NEW name \in Names, SaveProfile(name)
      PROVE  profile' \in Names /\ renames' \in 0 .. MaxRenames /\ UNCHANGED <<row, registeredAs, todo, spoke, ignored, refused>>
  BY <1>1, <1>3 DEF SaveProfile, RegistrationConstants
<1>4. ASSUME NEW n \in Syncs, SyncNameRead(n) \/ SyncNext(n)
      PROVE  todo' \in [Syncs -> SUBSET Strands] /\ UNCHANGED <<profile, renames, row, registeredAs, spoke, ignored, refused>>
  <2>1. \/ todo' = todo
        \/ \E set \in SUBSET Strands : todo' = [todo EXCEPT ![n] = set]
    BY <1>1, <1>4 DEF SyncNameRead, SyncNext
  <2> QED BY <1>1, <1>4, <2>1 DEF SyncNameRead, SyncNext
<1>5. ASSUME NEW s \in Strands, Refuse(s)
      PROVE  /\ row' \in [Strands -> Names \cup {None}] /\ refused' \subseteq Strands
             /\ UNCHANGED <<profile, renames, registeredAs, todo, spoke, ignored>>
  BY <1>1, <1>5 DEF Refuse
<1>6. CASE Crash
  BY <1>1, <1>6 DEF Crash
<1>7. ASSUME NEW t \in Senders, NEW s \in Strands, NEW sends \in BOOLEAN, registerSelf(t, s, sends)
      PROVE  UNCHANGED <<profile, renames, row, registeredAs, todo, spoke, ignored, refused>>
  BY <1>7 DEF registerSelf
<1>8. CASE UNCHANGED registrationVars
  BY <1>1, <1>8 DEF registrationVars
<1> QED BY <1>1, <1>2, <1>3, <1>4, <1>5, <1>6, <1>7, <1>8 DEF RegistrationNext

(* The name a strand is registered under is the one in its row, and who     *)
(* spoke has a row.                                                         *)
LEMMA RowsAgreeStays ==
    ASSUME RegistrationConstants, RegistrationInv, [RegistrationNext]_registrationVars
    PROVE  RowsAgree'
<1>1. /\ RowsAgree /\ None \notin Names /\ \A t \in Tasks : Sound(task[t])
      /\ row \in [Strands -> Names \cup {None}] /\ registeredAs \in [Strands -> Names \cup {None}]
  BY DEF RegistrationInv, RegistrationTypeOK, RegistrationConstants
<1>2. \A s \in Strands : HasRow(s) => HasRow(s)'
  BY RowsStay
<1>3. CASE UNCHANGED <<row, refused>> /\ registeredAs' = registeredAs /\ ignored' = ignored /\ spoke' = spoke
  BY <1>1, <1>3 DEF RowsAgree, HasRow
<1>4. ASSUME NEW t \in Tasks, RowRead(t) PROVE RowsAgree'
  <2>1. PICK s \in Strands : task[t].strand = s /\ task[t].name \in Names
    BY <1>1, <1>4 DEF RowRead, Sound
  <2>2. registeredAs' = registeredAs \/ (row[s] = task[t].name /\ registeredAs' = [registeredAs EXCEPT ![s] = task[t].name])
    BY <1>4, <2>1 DEF RowRead
  <2>3. UNCHANGED <<row, refused, ignored, spoke>>
    BY <1>4 DEF RowRead
  <2> QED BY <1>1, <2>1, <2>2, <2>3 DEF RowsAgree, HasRow
<1>5. ASSUME NEW t \in Tasks, RowWritten(t) PROVE RowsAgree'
  <2>1. PICK s \in Strands : task[t].strand = s /\ task[t].name \in Names
    BY <1>1, <1>5 DEF RowWritten, Sound
  <2>2. registeredAs' = [registeredAs EXCEPT ![s] = task[t].name] /\ UNCHANGED <<spoke, refused>>
    BY <1>5, <2>1 DEF RowWritten
  <2>3. \/ row' = [row EXCEPT ![s] = task[t].name] /\ ignored' = ignored
        \/ row' = row /\ row[s] # None /\ ignored' = ignored \cup {s}
        \/ row' = row /\ task[t].current # None /\ ignored' = ignored /\ row[s] = None
    BY <1>5, <2>1 DEF RowWritten
  <2>4. HasRow(s)
        \/ (row' = [row EXCEPT ![s] = task[t].name] /\ ignored' = ignored)
    BY <1>1, <1>5, <2>1, <2>3 DEF RowWritten, Sound, HasRow
  <2>5. HasRow(s)'
    BY <1>1, <1>2, <2>1, <2>4 DEF HasRow
  <2>6. ASSUME NEW r \in Strands \ (ignored' \cup refused'), registeredAs'[r] # None PROVE row'[r] = registeredAs'[r]
    <3>1. CASE r = s
      BY <1>1, <1>5, <2>1, <2>2, <2>3, <2>6, <3>1 DEF RowWritten, Sound, HasRow
    <3>2. CASE r # s
      BY <1>1, <2>2, <2>3, <2>6, <3>2 DEF RowsAgree
    <3> QED BY <3>1, <3>2
  <2>7. ASSUME NEW r \in Strands, registeredAs'[r] # None \/ r \in ignored' \cup spoke' PROVE HasRow(r)'
    <3>1. CASE r = s
      BY <2>5, <3>1 DEF HasRow
    <3>2. CASE r # s
      <4>1. HasRow(r)
        BY <1>1, <2>2, <2>3, <2>7, <3>2 DEF RowsAgree
      <4> QED BY <1>2, <4>1 DEF HasRow
    <3> QED BY <3>1, <3>2
  <2> QED BY <2>6, <2>7 DEF RowsAgree, HasRow
<1>6. ASSUME NEW t \in Tasks, Inserted(t) PROVE RowsAgree'
  BY <1>1, <1>6 DEF Inserted, Sound, RowsAgree, HasRow
<1>7. ASSUME NEW s \in Strands, Refuse(s) PROVE RowsAgree'
  BY <1>1, <1>7 DEF Refuse, RowsAgree, HasRow
<1>8. CASE Crash
  BY <1>1, <1>8 DEF Crash, RowsAgree, HasRow
<1>9. ASSUME NEW t \in Tasks, NameRead(t) \/ RowFails(t) \/ MembersRead(t) PROVE RowsAgree'
  BY <1>3, <1>9 DEF NameRead, RowFails, MembersRead
<1> QED BY <1>3, <1>4, <1>5, <1>6, <1>7, <1>8, <1>9 DEF RegistrationNext, registrationVars, registerSelf,
          SaveProfile, SyncNameRead, SyncNext

LEMMA RegistrationInitInv == RegistrationConstants /\ RegistrationInit => RegistrationInv
<1> SUFFICES ASSUME RegistrationConstants, RegistrationInit PROVE RegistrationInv
  OBVIOUS
<1>1. RegistrationTypeOK
  BY StepTypes DEF RegistrationInit, RegistrationTypeOK, RegistrationConstants, Steps
<1>2. \A t \in Tasks : task[t] = NoTask
  BY DEF RegistrationInit
<1>3. SendersKnow /\ \A t \in Tasks : Sound(task[t])
  BY <1>2, StepTypes DEF SendersKnow, Sound, Tasks
<1>4. RowsAgree
  BY DEF RegistrationInit, RowsAgree
<1> QED BY <1>1, <1>3, <1>4 DEF RegistrationInv

LEMMA RegistrationStep == RegistrationConstants /\ RegistrationInv /\ [RegistrationNext]_registrationVars => RegistrationInv'
<1> SUFFICES ASSUME RegistrationConstants, RegistrationInv, [RegistrationNext]_registrationVars PROVE RegistrationInv'
  OBVIOUS
<1>1. task' \in [Tasks -> Steps] /\ SendersKnow' /\ (\A u \in Tasks : Sound(task[u]))'
  <2>1. CASE Crash
    <3>1. task' = [t \in Tasks |-> NoTask]
      BY <2>1 DEF Crash
    <3> QED BY <3>1, StepTypes DEF SendersKnow, Sound, Tasks
  <2>2. CASE task' = task
    <3>1. task \in [Tasks -> Steps] /\ SendersKnow /\ \A u \in Tasks : Sound(task[u])
      BY DEF RegistrationInv, RegistrationTypeOK, Steps
    <3> QED BY <2>2, <3>1, RowsStay DEF SendersKnow, Sound
  <2>3. CASE \E t \in Tasks, k \in Steps : MovesTo(t, k)
    BY <2>3, MoveKeeps
  <2> QED BY <2>1, <2>2, <2>3, ActionsMove DEF registrationVars
<1>2. RegistrationTypeOK'
  BY <1>1, RegistrationTypesStay DEF RegistrationTypeOK, Steps
<1> QED BY <1>1, <1>2, RowsAgreeStays DEF RegistrationInv

(* A name a strand is registered under is the one in its row, so that no    *)
(* send has to look again, and nobody speaks where this device has no row:  *)
(* for any number of sends, attaches and renames at once, over crashes.     *)
THEOREM NameRegisteredAlone ==
    ASSUME RegistrationConstants
    PROVE  RegistrationSpec => []NameIsRegistered
<1>1. RegistrationInit => RegistrationInv
  BY RegistrationInitInv
<1>2. RegistrationInv /\ [RegistrationNext]_registrationVars => RegistrationInv'
  BY RegistrationStep
<1>3. RegistrationInv => NameIsRegistered
  BY DEF RegistrationInv, RegistrationTypeOK, RegistrationConstants, RowsAgree, HasRow, NameIsRegistered
<1> QED BY <1>1, <1>2, <1>3, PTL DEF RegistrationSpec

(* The names of rows, and of what is under way, are names. *)
LEMMA RegistrationTyped == ASSUME RegistrationConstants PROVE RegistrationSpec => []RegistrationTypeOK
<1>1. RegistrationInit => RegistrationInv
  BY RegistrationInitInv
<1>2. RegistrationInv /\ [RegistrationNext]_registrationVars => RegistrationInv'
  BY RegistrationStep
<1>3. RegistrationInv => RegistrationTypeOK
  BY DEF RegistrationInv
<1> QED BY <1>1, <1>2, <1>3, PTL DEF RegistrationSpec

-----------------------------------------------------------------------------
(***************************************************************************)
(* Accepting.                                                              *)
(* RetryCanSucceed, for any number of screens.  The inductive invariant    *)
(* adds that a screen with an accept under way is busy as long as it is    *)
(* open, so that nobody begins another, and that one which is still asking *)
(* has not redeemed the invitation.                                        *)
(***************************************************************************)
UnderWayIsBusy ==
    \A v \in Views : accepts[v] # "no" => (IsOpen(v) => v \in busy) /\ failed[v] # "accept"

AskersHaveNot == \A v \in Views : accepts[v] \in {"asks", "waits"} => v \notin redeemer

AcceptingInv == AcceptingTypeOK /\ UnderWayIsBusy /\ AskersHaveNot /\ RetryCanSucceed

AcceptingSpec == AcceptingInit /\ [][AcceptingNext]_acceptingVars

-----------------------------------------------------------------------------
LEMMA AcceptingInitInv == AcceptingInit => AcceptingInv
BY DEF AcceptingInit, AcceptingInv, AcceptingTypeOK, UnderWayIsBusy, AskersHaveNot, RetryCanSucceed, IsOpen

LEMMA AcceptingTypesStay == AcceptingTypeOK /\ [AcceptingNext]_acceptingVars => AcceptingTypeOK'
<1> SUFFICES ASSUME AcceptingTypeOK, [AcceptingNext]_acceptingVars PROVE AcceptingTypeOK'
  OBVIOUS
<1> USE DEF AcceptingTypeOK
<1>1. CASE Inviter
  BY <1>1 DEF Inviter, joinVars
<1>2. ASSUME NEW v \in Views, OpenView(v) \/ Reload(v) \/ accept(v) \/ Decline(v) PROVE AcceptingTypeOK'
  BY <1>2 DEF OpenView, Reload, accept, Decline, joinVars
<1>3. ASSUME NEW v \in Views, Approved(v) \/ Incomplete(v) PROVE AcceptingTypeOK'
  BY <1>3 DEF Approved, Incomplete, Redeems, Fails
<1>4. ASSUME NEW v \in Views, StillStarting(v) \/ AsksAgain(v) \/ NotLetIn(v) \/ Attached(v) PROVE AcceptingTypeOK'
  BY <1>4 DEF StillStarting, AsksAgain, NotLetIn, Attached, Fails, joinVars
<1>5. ASSUME NEW v \in Views, NEW found \in {"live", "dead", "fails"}, Loaded(v, found) PROVE AcceptingTypeOK'
  BY <1>5 DEF Loaded, joinVars
<1>6. ASSUME NEW v \in Views, NEW fails \in BOOLEAN, Remembered(v, fails) PROVE AcceptingTypeOK'
  BY <1>6 DEF Remembered, Fails
<1>7. CASE AcceptDies
  BY <1>7 DEF AcceptDies
<1>8. CASE UNCHANGED acceptingVars
  BY <1>8 DEF acceptingVars
<1> QED BY <1>1, <1>2, <1>3, <1>4, <1>5, <1>6, <1>7, <1>8 DEF AcceptingNext

LEMMA AcceptingStep == AcceptingInv /\ [AcceptingNext]_acceptingVars => AcceptingInv'
<1> SUFFICES ASSUME AcceptingInv, [AcceptingNext]_acceptingVars PROVE AcceptingInv'
  OBVIOUS
<1>1. AcceptingTypeOK'
  BY AcceptingTypesStay DEF AcceptingInv
<1> SUFFICES (UnderWayIsBusy /\ AskersHaveNot /\ RetryCanSucceed)'
  BY <1>1 DEF AcceptingInv
<1> USE DEF AcceptingInv, AcceptingTypeOK, UnderWayIsBusy, AskersHaveNot, RetryCanSucceed, IsOpen
<1>2. CASE Inviter
  BY <1>2 DEF Inviter, joinVars
<1>3. ASSUME NEW v \in Views, OpenView(v) PROVE (UnderWayIsBusy /\ AskersHaveNot /\ RetryCanSucceed)'
  BY <1>3 DEF OpenView, joinVars
<1>4. ASSUME NEW v \in Views, Reload(v) PROVE (UnderWayIsBusy /\ AskersHaveNot /\ RetryCanSucceed)'
  BY <1>4 DEF Reload, joinVars
<1>5. ASSUME NEW v \in Views, accept(v) PROVE (UnderWayIsBusy /\ AskersHaveNot /\ RetryCanSucceed)'
  <2>1. accepts[v] = "no"
    BY <1>5 DEF accept, CanAccept, CanRetry
  <2> QED BY <1>5, <2>1 DEF accept, joinVars
<1>6. ASSUME NEW v \in Views, Decline(v) PROVE (UnderWayIsBusy /\ AskersHaveNot /\ RetryCanSucceed)'
  BY <1>6 DEF Decline, joinVars
<1>7. ASSUME NEW v \in Views, Approved(v) PROVE (UnderWayIsBusy /\ AskersHaveNot /\ RetryCanSucceed)'
  BY <1>7 DEF Approved, Redeems
<1>8. ASSUME NEW v \in Views, Incomplete(v) PROVE (UnderWayIsBusy /\ AskersHaveNot /\ RetryCanSucceed)'
  BY <1>8 DEF Incomplete, Redeems, Fails
<1>9. ASSUME NEW v \in Views, StillStarting(v) \/ AsksAgain(v) PROVE (UnderWayIsBusy /\ AskersHaveNot /\ RetryCanSucceed)'
  BY <1>9 DEF StillStarting, AsksAgain, joinVars
<1>10. ASSUME NEW v \in Views, NotLetIn(v) PROVE (UnderWayIsBusy /\ AskersHaveNot /\ RetryCanSucceed)'
  BY <1>10 DEF NotLetIn, Fails, joinVars
<1>11. ASSUME NEW v \in Views, Attached(v) PROVE (UnderWayIsBusy /\ AskersHaveNot /\ RetryCanSucceed)'
  BY <1>11 DEF Attached, joinVars
<1>12. ASSUME NEW v \in Views, NEW found \in {"live", "dead", "fails"}, Loaded(v, found)
       PROVE  (UnderWayIsBusy /\ AskersHaveNot /\ RetryCanSucceed)'
  BY <1>12 DEF Loaded, joinVars
<1>13. ASSUME NEW v \in Views, NEW fails \in BOOLEAN, Remembered(v, fails)
       PROVE  (UnderWayIsBusy /\ AskersHaveNot /\ RetryCanSucceed)'
  BY <1>13 DEF Remembered, Fails
<1>14. CASE AcceptDies
  BY <1>14 DEF AcceptDies
<1>15. CASE UNCHANGED acceptingVars
  BY <1>15 DEF acceptingVars
<1> QED BY <1>2, <1>3, <1>4, <1>5, <1>6, <1>7, <1>8, <1>9, <1>10, <1>11, <1>12, <1>13, <1>14, <1>15 DEF AcceptingNext

(* The key of a redeemed invitation is in the slot or on the way there, and *)
(* no screen offers to repeat the accept that redeemed it, unless the key   *)
(* was lost: for any number of screens, closed and opened again meanwhile.  *)
THEOREM RetrySucceedsAlone == AcceptingSpec => []RetryCanSucceed
<1>1. AcceptingInv => RetryCanSucceed
  BY DEF AcceptingInv
<1> QED BY <1>1, AcceptingInitInv, AcceptingStep, PTL DEF AcceptingSpec

LEMMA AcceptingTyped == AcceptingSpec => []AcceptingTypeOK
<1>1. AcceptingInv => AcceptingTypeOK
  BY DEF AcceptingInv
<1> QED BY <1>1, AcceptingInitInv, AcceptingStep, PTL DEF AcceptingSpec

-----------------------------------------------------------------------------
(***************************************************************************)
(* Invitations.                                                            *)
(* InvitationsAreKept, for any kinds, creators and number of               *)
(* conversations.  A conversation that was founded is in one place at a    *)
(* time: prepared, with the job that prepares it, with the creator that    *)
(* took or founded it, or handed out; the inductive invariant says so, and *)
(* what each creator under way has and has not done.                       *)
(***************************************************************************)
JobStates == [pc : {"idle", "checks", "founds", "reads", "saves"}, seen : Slot, id : Conversations \cup {Unset}]
CreateStates ==
    [pc : {"idle", "waits", "reads", "saves", "founds", "publishes", "notes", "stores"},
     kind : Kinds \cup {Unset}, seen : Slot, id : Conversations \cup {Unset}, out : SUBSET Conversations]
ListingStates == [pc : {"idle", "asks"}, seen : SUBSET Conversations]
ForgettingStates == {NotForgetting} \cup [of : Conversations, seen : SUBSET Conversations]

InvitingTypes ==
    /\ prepared \in Slot /\ founded \in 0 .. MaxFounded /\ attached \subseteq 1 .. founded
    /\ job \in [Kinds -> JobStates] /\ create \in [Creators -> CreateStates]
    /\ outgoing \subseteq Conversations
    /\ listing \in ListingStates /\ forgetting \in ForgettingStates
    /\ handed \in [Conversations -> SUBSET Creators]
    /\ gone \subseteq Conversations /\ forgotten \subseteq gone
    /\ raced \in BOOLEAN /\ dropped \in BOOLEAN

Holds(c) == create[c].pc \in {"publishes", "notes", "stores"}
Noting(c) == create[c].pc \in {"notes", "stores"}

JobsKnow == \A k \in Kinds :
    IF job[k].pc \in {"reads", "saves"} THEN job[k].id \in 1 .. founded ELSE job[k].id = Unset

CreatorsKnow == \A c \in Creators :
    /\ Holds(c) => create[c].id \in 1 .. founded
    /\ create[c].pc = "saves" => create[c].id \in 1 .. founded /\ create[c].seen[create[c].kind] = create[c].id
    /\ create[c].pc \in {"waits", "reads", "saves"} => create[c].kind \in Kinds

HandedOnce == \A c \in Creators :
    /\ Noting(c) => c \in handed[create[c].id]
    /\ ~Noting(c) /\ create[c].pc # "idle" => \A s \in Conversations : c \notin handed[s]

(* One place at a time. *)
PreparedApart == \A k, l \in Kinds :
    /\ prepared[k] # Unset => prepared[k] <= founded /\ (prepared[k] = prepared[l] => k = l)
    /\ job[k].id # Unset => prepared[l] # job[k].id /\ (job[k].id = job[l].id => k = l)

HeldApart == \A c \in Creators : Holds(c) =>
    /\ \A k \in Kinds : prepared[k] # create[c].id /\ job[k].id # create[c].id
    /\ \A d \in Creators : Holds(d) /\ create[d].id = create[c].id => c = d
    /\ handed[create[c].id] \subseteq {c}

HandedApart == \A s \in Conversations : handed[s] # {} =>
    /\ s <= founded /\ \E c \in Creators : handed[s] = {c}
    /\ \A k \in Kinds : prepared[k] # s /\ job[k].id # s

InOnePlace == PreparedApart /\ HeldApart /\ HandedApart

ListedOrUsed == \A s \in Conversations :
    handed[s] # {} /\ s \notin gone => s \in outgoing \/ \E c \in Creators : Noting(c) /\ create[c].id = s

(* One on the list, or forgotten, was handed out, and nobody is about to    *)
(* write it there again.                                                    *)
ForgottenIsOver ==
    /\ forgotten \cap outgoing = {}
    /\ \A s \in Conversations : s \in outgoing \cup forgotten \/ forgetting.of = s =>
         handed[s] # {} /\ \A c \in Creators : Holds(c) => create[c].id # s

InvitingInv ==
    /\ InvitingTypes
    /\ JobsKnow /\ CreatorsKnow /\ HandedOnce
    /\ ~raced => InOnePlace
    /\ ~dropped => ListedOrUsed
    /\ ~raced /\ ~dropped => ForgottenIsOver

InvitingSpec == InvitationsInit /\ [][InvitationsNext]_invitationVars

LEMMA InvitingInitInv == InvitationConstants /\ InvitationsInit => InvitingInv
<1> SUFFICES ASSUME InvitationConstants, InvitationsInit PROVE InvitingInv
  OBVIOUS
<1>1. NoJob.seen = [k \in Kinds |-> Unset] /\ NoJob.seen \in Slot
  BY DEF NoJob, Slot
<1>2. /\ \A k \in Kinds : job[k] = NoJob /\ prepared[k] = Unset
      /\ \A c \in Creators : create[c] = NoCreate
      /\ \A s \in Conversations : handed[s] = {}
  BY <1>1 DEF InvitationsInit
<1>3. NoJob.pc = "idle" /\ NoJob.id = Unset /\ NoCreate.pc = "idle"
  BY DEF NoJob, NoCreate
<1>4. InvitingTypes
  <2>1. NoJob \in JobStates /\ NoCreate \in CreateStates
    BY <1>1 DEF NoJob, NoCreate, JobStates, CreateStates
  <2>2. job \in [Kinds -> JobStates] /\ create \in [Creators -> CreateStates] /\ prepared \in Slot
    BY <1>1, <2>1 DEF InvitationsInit
  <2>3. listing \in ListingStates /\ forgetting \in ForgettingStates /\ handed \in [Conversations -> SUBSET Creators]
    BY DEF InvitationsInit, NoListing, NotForgetting, ListingStates, ForgettingStates
  <2>4. founded \in 0 .. MaxFounded
    BY DEF InvitationsInit, InvitationConstants
  <2> QED BY <2>2, <2>3, <2>4 DEF InvitationsInit, InvitingTypes
<1>5. JobsKnow /\ CreatorsKnow /\ HandedOnce
  BY <1>2, <1>3 DEF InvitationsInit, JobsKnow, CreatorsKnow, HandedOnce, Holds, Noting
<1>6. InOnePlace
  BY <1>2, <1>3 DEF InOnePlace, PreparedApart, HeldApart, HandedApart, Holds
<1>7. ListedOrUsed
  BY <1>2 DEF ListedOrUsed
<1>8. ForgottenIsOver
  <2>1. forgetting.of \notin Conversations
    BY DEF InvitationsInit, NotForgetting, InvitationConstants, Conversations
  <2> QED BY <2>1 DEF InvitationsInit, ForgottenIsOver
<1> QED BY <1>4, <1>5, <1>6, <1>7, <1>8 DEF InvitingInv

-----------------------------------------------------------------------------
(* Types. *)

LEMMA JobEndsTyped ==
    ASSUME job \in [Kinds -> JobStates], create \in [Creators -> CreateStates], NEW k \in Kinds, JobEnds(k)
    PROVE  /\ job' \in [Kinds -> JobStates] /\ create' \in [Creators -> CreateStates]
           /\ job'[k] = NoJob /\ \A l \in Kinds : l # k => job'[l] = job[l]
           /\ \A c \in Creators : \/ create'[c] = create[c]
                                  \/ create[c].pc = "waits" /\ create'[c] = [create[c] EXCEPT !.pc = "reads"]
<1>1. NoJob \in JobStates
  BY DEF NoJob, JobStates, Slot
<1>2. \A c \in Creators : [create[c] EXCEPT !.pc = "reads"] \in CreateStates
  BY DEF CreateStates
<1> QED BY <1>1, <1>2 DEF JobEnds

AnyPrepare(k) ==
    prepareStrand(k) \/ PreparedAlready(k) \/ PreparedFounded(k) \/ ReadBeforeSave(k) \/ PreparedSaved(k) \/ PrepareFails(k)

LEMMA FoundTyped ==
    ASSUME InvitationConstants, InvitingTypes, Found
    PROVE  /\ founded' \in 0 .. MaxFounded /\ attached' \subseteq 1 .. founded' /\ founded' \in Conversations
           /\ founded' = founded + 1 /\ founded \in Nat
BY DEF InvitationConstants, InvitingTypes, Found, Conversations

LEMMA PreparesTyped ==
    ASSUME InvitationConstants, InvitingTypes, NEW k \in Kinds, AnyPrepare(k)
    PROVE  InvitingTypes'
<1> USE DEF InvitingTypes
<1>1. \A j \in JobStates, pc \in {"checks", "founds", "reads", "saves"} :
        /\ [j EXCEPT !.pc = pc] \in JobStates
        /\ \A id \in Conversations : [j EXCEPT !.pc = pc, !.id = id] \in JobStates
        /\ \A seen \in Slot : [j EXCEPT !.pc = pc, !.seen = seen] \in JobStates
  BY DEF JobStates
<1>0. job[k] \in JobStates
  OBVIOUS
<1>2. UNCHANGED <<outgoing, listing, handed, gone, dropped, forgetting, forgotten>>
  BY DEF AnyPrepare, prepareStrand, PreparedAlready, PreparedFounded, ReadBeforeSave, PreparedSaved, PrepareFails, forgetVars
<1>3. founded' \in 0 .. MaxFounded /\ attached' \subseteq 1 .. founded'
  <2>1. CASE Found
    BY <2>1, FoundTyped
  <2>2. CASE UNCHANGED <<founded, attached>>
    BY <2>2
  <2> QED BY <2>1, <2>2 DEF AnyPrepare, prepareStrand, PreparedAlready, PreparedFounded, ReadBeforeSave, PreparedSaved, PrepareFails
<1>4. job' \in [Kinds -> JobStates] /\ create' \in [Creators -> CreateStates]
  <2>1. CASE JobEnds(k)
    BY <2>1, JobEndsTyped
  <2>2. CASE create' = create /\ \E j \in JobStates : job' = [job EXCEPT ![k] = j]
    BY <2>2
  <2>3. ASSUME prepareStrand(k) PROVE \E j \in JobStates : job' = [job EXCEPT ![k] = j]
    <3>1. job' = [job EXCEPT ![k] = [job[k] EXCEPT !.pc = "checks"]]
      BY <2>3 DEF prepareStrand
    <3>2. [job[k] EXCEPT !.pc = "checks"] \in JobStates
      BY <1>1, <1>0
    <3> QED BY <3>1, <3>2
  <2>4. ASSUME PreparedAlready(k), create' = create, job' = [job EXCEPT ![k].pc = "founds"] PROVE \E j \in JobStates : job' = [job EXCEPT ![k] = j]
    <3>1. job' = [job EXCEPT ![k] = [job[k] EXCEPT !.pc = "founds"]]
      BY <2>4
    <3>2. [job[k] EXCEPT !.pc = "founds"] \in JobStates
      BY <1>1, <1>0
    <3> QED BY <3>1, <3>2
  <2>5. ASSUME PreparedFounded(k) PROVE \E j \in JobStates : job' = [job EXCEPT ![k] = j]
    <3>1. founded' \in Conversations /\ job' = [job EXCEPT ![k] = [job[k] EXCEPT !.pc = "reads", !.id = founded']]
      BY <2>5, FoundTyped DEF PreparedFounded
    <3> QED BY <1>1, <3>1
  <2>6. ASSUME ReadBeforeSave(k) PROVE \E j \in JobStates : job' = [job EXCEPT ![k] = j]
    <3>1. job' = [job EXCEPT ![k] = [job[k] EXCEPT !.pc = "saves", !.seen = prepared]]
      BY <2>6 DEF ReadBeforeSave
    <3>2. [job[k] EXCEPT !.pc = "saves", !.seen = prepared] \in JobStates
      BY <1>1, <1>0
    <3> QED BY <3>1, <3>2
  <2> QED BY <2>1, <2>2, <2>3, <2>4, <2>5, <2>6
          DEF AnyPrepare, prepareStrand, PreparedAlready, PreparedFounded, ReadBeforeSave, PreparedSaved, PrepareFails
<1>5. prepared' \in Slot /\ raced' \in BOOLEAN
  <2>1. CASE UNCHANGED <<prepared, raced>>
    BY <2>1
  <2>2. CASE PreparedSaved(k)
    <3>1. job[k].seen \in Slot /\ job[k].id \in Conversations \cup {Unset}
      BY DEF JobStates
    <3> QED BY <2>2, <3>1 DEF PreparedSaved, SavePrepared, Slot
  <2> QED BY <2>1, <2>2 DEF AnyPrepare, prepareStrand, PreparedAlready, PreparedFounded, ReadBeforeSave, PrepareFails
<1> QED BY <1>2, <1>3, <1>4, <1>5

(* A creator's step changes that creator only: what it becomes. *)
AnyCreate(c) ==
    \/ \E k \in Kinds : createInvitation(c, k)
    \/ takePrepared(c) \/ Taken(c) \/ FoundedNow(c) \/ Published(c) \/ CreateFails(c)
    \/ RememberReads(c) \/ RememberStores(c) \/ NotRemembered(c)

LEMMA CreatesMove ==
    ASSUME InvitationConstants, InvitingTypes, CreatorsKnow, NEW c \in Creators, AnyCreate(c)
    PROVE  \E r \in CreateStates : create' = [create EXCEPT ![c] = r]
<1> USE DEF InvitingTypes
<1>1. /\ \A r \in CreateStates, pc \in {"saves", "founds", "publishes", "notes", "stores"} :
           [r EXCEPT !.pc = pc] \in CreateStates
      /\ \A r \in CreateStates, pc \in {"publishes", "saves", "founds"}, id \in Conversations \cup {Unset}, seen \in Slot :
           /\ [r EXCEPT !.pc = pc, !.id = id] \in CreateStates
           /\ [r EXCEPT !.seen = seen, !.pc = pc, !.id = id] \in CreateStates
      /\ \A r \in CreateStates, out \in SUBSET Conversations : [r EXCEPT !.pc = "stores", !.out = out] \in CreateStates
      /\ \A r \in CreateStates, pc \in {"reads", "waits"}, k \in Kinds : [r EXCEPT !.pc = pc, !.kind = k] \in CreateStates
  BY DEF CreateStates
<1>2. create[c] \in CreateStates /\ NoCreate \in CreateStates
  BY DEF NoCreate, NoJob, CreateStates, Slot
<1>3. ASSUME NEW k \in Kinds, createInvitation(c, k) PROVE \E r \in CreateStates : create' = [create EXCEPT ![c] = r]
  <2> DEFINE pc == IF job[k].pc = "idle" THEN "reads" ELSE "waits"
  <2>1. pc \in {"reads", "waits"}
    OBVIOUS
  <2>2. create' = [create EXCEPT ![c] = [NoCreate EXCEPT !.pc = pc, !.kind = k]]
    BY <1>3 DEF createInvitation
  <2> HIDE DEF pc
  <2>3. [NoCreate EXCEPT !.pc = pc, !.kind = k] \in CreateStates
    BY <1>1, <1>2, <2>1
  <2> QED BY <2>2, <2>3
<1>4. ASSUME takePrepared(c) PROVE \E r \in CreateStates : create' = [create EXCEPT ![c] = r]
  <2> DEFINE id == prepared[create[c].kind]
             pc == IF id \in attached THEN "saves" ELSE "founds"
             taken == IF id \in attached THEN id ELSE Unset
  <2>1. create' = [create EXCEPT ![c] = [create[c] EXCEPT !.seen = prepared, !.pc = pc, !.id = taken]]
    BY <1>4 DEF takePrepared
  <2>2. create[c].kind \in Kinds
    BY <1>4 DEF takePrepared, CreatorsKnow
  <2>3. pc \in {"publishes", "saves", "founds"} /\ taken \in Conversations \cup {Unset}
    BY <2>2 DEF Slot
  <2> HIDE DEF pc, taken
  <2>4. [create[c] EXCEPT !.seen = prepared, !.pc = pc, !.id = taken] \in CreateStates
    BY <1>1, <1>2, <2>3
  <2> QED BY <2>1, <2>4
<1>5. ASSUME FoundedNow(c) PROVE \E r \in CreateStates : create' = [create EXCEPT ![c] = r]
  <2>1. founded' \in Conversations
    BY <1>5, FoundTyped DEF FoundedNow
  <2>2. create' = [create EXCEPT ![c] = [create[c] EXCEPT !.pc = "publishes", !.id = founded']]
    BY <1>5 DEF FoundedNow
  <2>3. [create[c] EXCEPT !.pc = "publishes", !.id = founded'] \in CreateStates
    BY <1>1, <1>2, <2>1
  <2> QED BY <2>2, <2>3
<1>6. ASSUME NEW pc \in {"saves", "founds", "publishes", "notes", "stores"}, create' = [create EXCEPT ![c].pc = pc]
      PROVE  \E r \in CreateStates : create' = [create EXCEPT ![c] = r]
  <2>1. create' = [create EXCEPT ![c] = [create[c] EXCEPT !.pc = pc]]
    BY <1>6
  <2>2. [create[c] EXCEPT !.pc = pc] \in CreateStates
    BY <1>1, <1>2
  <2> QED BY <2>1, <2>2
<1>7. CASE Taken(c) \/ Published(c)
  BY <1>6, <1>7 DEF Taken, Published
<1>8. CASE CreateFails(c) \/ RememberStores(c) \/ NotRemembered(c)
  BY <1>2, <1>8 DEF CreateFails, RememberStores, NotRemembered
<1>9. ASSUME RememberReads(c) PROVE \E r \in CreateStates : create' = [create EXCEPT ![c] = r]
  <2>1. create' = [create EXCEPT ![c] = [create[c] EXCEPT !.pc = "stores", !.out = outgoing]]
    BY <1>9 DEF RememberReads
  <2>2. [create[c] EXCEPT !.pc = "stores", !.out = outgoing] \in CreateStates
    BY <1>1, <1>2
  <2> QED BY <2>1, <2>2
<1> QED BY <1>3, <1>4, <1>5, <1>7, <1>8, <1>9 DEF AnyCreate

LEMMA CreatesTyped ==
    ASSUME InvitationConstants, InvitingTypes, CreatorsKnow, NEW c \in Creators, AnyCreate(c)
    PROVE  InvitingTypes' /\ \A d \in Creators : d # c => create'[d] = create[d]
<1> USE DEF InvitingTypes
<1>1. create' \in [Creators -> CreateStates] /\ \A d \in Creators : d # c => create'[d] = create[d]
  BY CreatesMove
<1>2. create[c] \in CreateStates
  OBVIOUS
<1>9. 1 .. founded \subseteq Conversations
  BY DEF Conversations, InvitationConstants
<1>3. UNCHANGED <<job, listing, forgetting, forgotten>>
  BY DEF AnyCreate, createInvitation, takePrepared, Taken, FoundedNow, Published, CreateFails, RememberReads,
         RememberStores, NotRemembered, forgetVars
<1>4. founded' \in 0 .. MaxFounded /\ attached' \subseteq 1 .. founded'
  <2>1. CASE FoundedNow(c)
    BY <2>1, FoundTyped DEF FoundedNow
  <2>2. CASE UNCHANGED <<founded, attached>>
    BY <2>2
  <2> QED BY <2>1, <2>2 DEF AnyCreate, createInvitation, takePrepared, Taken, Published, CreateFails, RememberReads,
                            RememberStores, NotRemembered
<1>5. prepared' \in Slot /\ raced' \in BOOLEAN
  <2>1. CASE UNCHANGED <<prepared, raced>>
    BY <2>1
  <2>2. CASE Taken(c)
    <3>1. create[c].seen \in Slot
      BY <1>2 DEF CreateStates
    <3> QED BY <2>2, <3>1 DEF Taken, SavePrepared, Slot
  <2> QED BY <2>1, <2>2 DEF AnyCreate, createInvitation, takePrepared, FoundedNow, Published, CreateFails,
                            RememberReads, RememberStores, NotRemembered
<1>6. outgoing' \subseteq Conversations /\ dropped' \in BOOLEAN
  <2>1. CASE UNCHANGED <<outgoing, dropped>>
    BY <2>1
  <2>2. CASE RememberStores(c)
    <3>0. create[c].id \in 1 .. founded
      BY <2>2 DEF RememberStores, CreatorsKnow, Holds
    <3>1. create[c].out \subseteq Conversations
      BY <1>2 DEF CreateStates
    <3> QED BY <2>2, <3>0, <3>1, <1>9 DEF RememberStores, StoreOutgoing
  <2> QED BY <2>1, <2>2 DEF AnyCreate, createInvitation, takePrepared, Taken, FoundedNow, Published, CreateFails,
                            RememberReads, NotRemembered, forgetVars
<1>7. handed' \in [Conversations -> SUBSET Creators]
  <2>1. CASE UNCHANGED handed
    BY <2>1
  <2>2. CASE Published(c)
    BY <2>2 DEF Published
  <2> QED BY <2>1, <2>2 DEF AnyCreate, createInvitation, takePrepared, Taken, FoundedNow, CreateFails, RememberReads,
                            RememberStores, NotRemembered
<1>8. gone' \subseteq Conversations /\ forgotten' \subseteq gone'
  <2>1. CASE UNCHANGED gone
    BY <1>3, <2>1
  <2>2. CASE NotRemembered(c)
    <3>0. create[c].id \in 1 .. founded
      BY <2>2 DEF NotRemembered, CreatorsKnow, Holds
    <3>1. create[c].id \in Conversations
      BY <3>0, <1>9
    <3> QED BY <1>3, <2>2, <3>1 DEF NotRemembered
  <2> QED BY <2>1, <2>2 DEF AnyCreate, createInvitation, takePrepared, Taken, FoundedNow, Published, CreateFails,
                            RememberReads, RememberStores
<1> QED BY <1>1, <1>3, <1>4, <1>5, <1>6, <1>7, <1>8

(* The rest: the listing, forgetting, use, and the end of the process. *)
AnyOther ==
    \/ \E s \in Conversations : Redeemed(s) \/ OpensAgain(s) \/ ForgetReads(s)
    \/ ForgetStores \/ ListReads \/ ListStores \/ InvitingDies

LEMMA OthersTyped ==
    ASSUME InvitationConstants, InvitingTypes, AnyOther
    PROVE  /\ InvitingTypes' /\ UNCHANGED <<prepared, founded, handed, raced>>
           /\ ~InvitingDies => UNCHANGED <<job, create>>
<1> USE DEF InvitingTypes
<1>1. UNCHANGED <<prepared, founded, handed, raced>>
  BY DEF AnyOther, Redeemed, OpensAgain, ForgetReads, ForgetStores, ListReads, ListStores, InvitingDies
<1>2. ~InvitingDies => UNCHANGED <<job, create>>
  BY DEF AnyOther, Redeemed, OpensAgain, ForgetReads, ForgetStores, ListReads, ListStores
<1>3. job' \in [Kinds -> JobStates] /\ create' \in [Creators -> CreateStates]
  <2>1. NoJob \in JobStates /\ NoCreate \in CreateStates
    BY DEF NoJob, NoCreate, JobStates, CreateStates, Slot
  <2> QED BY <1>2, <2>1 DEF InvitingDies
<1>4. attached' \subseteq 1 .. founded'
  BY <1>1 DEF AnyOther, Redeemed, OpensAgain, ForgetReads, ForgetStores, ListReads, ListStores, InvitingDies
<1>5. listing' \in ListingStates
  BY DEF AnyOther, Redeemed, OpensAgain, ForgetReads, ForgetStores, ListReads, ListStores, InvitingDies, forgetVars,
         ListingStates, NoListing
<1>6. forgetting' \in ForgettingStates
  BY DEF AnyOther, Redeemed, OpensAgain, ForgetReads, ForgetStores, ListReads, ListStores, InvitingDies, forgetVars,
         ForgettingStates, NotForgetting
<1>7. outgoing' \subseteq Conversations /\ dropped' \in BOOLEAN
  <2>1. CASE UNCHANGED <<outgoing, dropped>>
    BY <2>1
  <2>2. CASE ForgetStores
    BY <2>2 DEF ForgetStores, StoreOutgoing, ForgettingStates
  <2>3. CASE ListStores
    BY <2>3 DEF ListStores, StoreOutgoing, ListingStates
  <2> QED BY <2>1, <2>2, <2>3 DEF AnyOther, Redeemed, OpensAgain, ForgetReads, ListReads, InvitingDies, forgetVars
<1>8. gone' \subseteq Conversations /\ forgotten' \subseteq gone'
  <2>1. ASSUME forgetting # NotForgetting PROVE forgetting.of \in Conversations
    BY <2>1 DEF ForgettingStates, NotForgetting
  <2>2. CASE UNCHANGED <<gone, forgotten>>
    BY <2>2
  <2>3. CASE ForgetStores
    BY <2>1, <2>3 DEF ForgetStores
  <2> QED BY <2>2, <2>3 DEF AnyOther, Redeemed, OpensAgain, ForgetReads, ListReads, ListStores, InvitingDies, forgetVars
<1> QED BY <1>1, <1>2, <1>3, <1>4, <1>5, <1>6, <1>7, <1>8

-----------------------------------------------------------------------------
(* What jobs and creators know. *)

LEMMA PreparesWait ==
    ASSUME InvitationConstants, InvitingTypes, NEW k \in Kinds, AnyPrepare(k)
    PROVE  /\ \A c \in Creators :
                /\ create'[c].id = create[c].id /\ create'[c].kind = create[c].kind /\ create'[c].seen = create[c].seen
                /\ create'[c].pc = create[c].pc \/ (create[c].pc = "waits" /\ create'[c].pc = "reads")
           /\ \A l \in Kinds : l # k => job'[l] = job[l]
           /\ founded \in Nat /\ founded' \in Nat /\ founded <= founded'
           /\ UNCHANGED <<outgoing, handed, gone, dropped, forgetting, forgotten>>
<1> USE DEF InvitingTypes
<1>1. UNCHANGED <<outgoing, handed, gone, dropped, forgetting, forgotten>>
  BY DEF AnyPrepare, prepareStrand, PreparedAlready, PreparedFounded, ReadBeforeSave, PreparedSaved, PrepareFails, forgetVars
<1>2. founded \in Nat /\ founded' \in Nat /\ founded <= founded'
  BY DEF AnyPrepare, prepareStrand, PreparedAlready, PreparedFounded, ReadBeforeSave, PreparedSaved, PrepareFails,
         Found, InvitationConstants
<1>3. JobEnds(k) \/ UNCHANGED create
  BY DEF AnyPrepare, prepareStrand, PreparedAlready, PreparedFounded, ReadBeforeSave, PreparedSaved, PrepareFails
<1>4. \A l \in Kinds : l # k => job'[l] = job[l]
  BY DEF AnyPrepare, prepareStrand, PreparedAlready, PreparedFounded, ReadBeforeSave, PreparedSaved, PrepareFails, JobEnds
<1>5. ASSUME NEW c \in Creators
      PROVE  /\ create'[c].id = create[c].id /\ create'[c].kind = create[c].kind /\ create'[c].seen = create[c].seen
             /\ create'[c].pc = create[c].pc \/ (create[c].pc = "waits" /\ create'[c].pc = "reads")
  <2>1. \/ create'[c] = create[c]
        \/ create[c].pc = "waits" /\ create'[c] = [create[c] EXCEPT !.pc = "reads"]
    BY <1>3, JobEndsTyped
  <2>2. create[c] \in CreateStates
    OBVIOUS
  <2> DEFINE r == [create[c] EXCEPT !.pc = "reads"]
  <2>3. r.id = create[c].id /\ r.kind = create[c].kind /\ r.seen = create[c].seen /\ r.pc = "reads"
    BY <2>2 DEF CreateStates
  <2> HIDE DEF r
  <2>4. CASE create[c].pc = "waits" /\ create'[c] = r
    BY <2>3, <2>4
  <2>5. CASE create'[c] = create[c]
    BY <2>5
  <2> QED BY <2>1, <2>4, <2>5 DEF r
<1> QED BY <1>1, <1>2, <1>4, <1>5

(* What the job of a kind holds after a step of it. *)
LEMMA JobBecomes ==
    ASSUME InvitationConstants, InvitingTypes, JobsKnow, NEW k \in Kinds, AnyPrepare(k)
    PROVE  \/ job'[k].pc \notin {"reads", "saves"} /\ job'[k].id = Unset /\ UNCHANGED <<prepared, founded, raced>>
           \/ /\ job'[k].pc = "saves" /\ job[k].pc = "reads" /\ job'[k].id = job[k].id
              /\ UNCHANGED <<prepared, founded, raced>>
           \/ /\ PreparedFounded(k) /\ job'[k].pc = "reads" /\ job'[k].id = founded' /\ job[k].id = Unset
              /\ founded' = founded + 1 /\ UNCHANGED <<prepared, raced>>
           \/ PreparedSaved(k) /\ job'[k].pc = "idle" /\ job'[k].id = Unset /\ job[k].pc = "saves" /\ UNCHANGED founded
<1> USE DEF InvitingTypes
<1>0. job[k] \in JobStates /\ NoJob.pc = "idle" /\ NoJob.id = Unset
  BY DEF NoJob
<1>1. CASE prepareStrand(k)
  <2>1. job[k].id = Unset /\ job'[k] = [job[k] EXCEPT !.pc = "checks"] /\ UNCHANGED <<prepared, founded, raced>>
    BY <1>1 DEF prepareStrand, JobsKnow
  <2>2. job'[k].pc = "checks" /\ job'[k].id = job[k].id
    BY <1>0, <2>1 DEF JobStates
  <2> QED BY <2>1, <2>2
<1>2. CASE PreparedAlready(k)
  <2>1. job[k].id = Unset /\ UNCHANGED <<prepared, founded, raced>>
    BY <1>2 DEF PreparedAlready, JobsKnow
  <2>2. CASE JobEnds(k)
    BY <1>0, <2>1, <2>2 DEF JobEnds
  <2>3. CASE job' = [job EXCEPT ![k].pc = "founds"]
    <3>1. job'[k] = [job[k] EXCEPT !.pc = "founds"]
      BY <2>3
    <3>2. job'[k].pc = "founds" /\ job'[k].id = job[k].id
      BY <1>0, <3>1 DEF JobStates
    <3> QED BY <2>1, <3>2
  <2> QED BY <1>2, <2>2, <2>3 DEF PreparedAlready
<1>3. CASE PreparedFounded(k)
  <2>1. job[k].id = Unset /\ UNCHANGED <<prepared, raced>> /\ founded' = founded + 1
    BY <1>3 DEF PreparedFounded, JobsKnow, Found
  <2>2. job'[k] = [job[k] EXCEPT !.pc = "reads", !.id = founded']
    BY <1>3 DEF PreparedFounded
  <2>3. job'[k].pc = "reads" /\ job'[k].id = founded'
    BY <1>0, <2>2 DEF JobStates
  <2> QED BY <1>3, <2>1, <2>3
<1>4. CASE ReadBeforeSave(k)
  <2>1. job[k].pc = "reads" /\ UNCHANGED <<prepared, founded, raced>>
        /\ job'[k] = [job[k] EXCEPT !.pc = "saves", !.seen = prepared]
    BY <1>4 DEF ReadBeforeSave
  <2>2. job'[k].pc = "saves" /\ job'[k].id = job[k].id
    BY <1>0, <2>1 DEF JobStates
  <2> QED BY <2>1, <2>2
<1>5. CASE PreparedSaved(k)
  BY <1>0, <1>5 DEF PreparedSaved, JobEnds
<1>6. CASE PrepareFails(k)
  BY <1>0, <1>6 DEF PrepareFails, JobEnds
<1> QED BY <1>1, <1>2, <1>3, <1>4, <1>5, <1>6 DEF AnyPrepare

LEMMA PreparesKnow ==
    ASSUME InvitationConstants, InvitingTypes, JobsKnow, CreatorsKnow, HandedOnce, NEW k \in Kinds, AnyPrepare(k)
    PROVE  JobsKnow' /\ CreatorsKnow' /\ HandedOnce'
<1>1. /\ \A c \in Creators :
           /\ create'[c].id = create[c].id /\ create'[c].kind = create[c].kind /\ create'[c].seen = create[c].seen
           /\ create'[c].pc = create[c].pc \/ (create[c].pc = "waits" /\ create'[c].pc = "reads")
      /\ \A l \in Kinds : l # k => job'[l] = job[l]
      /\ founded \in Nat /\ founded' \in Nat /\ founded <= founded' /\ handed' = handed
  BY PreparesWait
<1>2. 1 .. founded \subseteq 1 .. founded'
  BY <1>1
<1>3. JobsKnow'
  <2>1. ASSUME NEW l \in Kinds, l # k
        PROVE  IF job'[l].pc \in {"reads", "saves"} THEN job'[l].id \in 1 .. founded' ELSE job'[l].id = Unset
    BY <1>1, <1>2, <2>1 DEF JobsKnow
  <2>2. IF job'[k].pc \in {"reads", "saves"} THEN job'[k].id \in 1 .. founded' ELSE job'[k].id = Unset
    <3>1. job'[k].pc = "saves" /\ job[k].pc = "reads" /\ job'[k].id = job[k].id => job'[k].id \in 1 .. founded'
      BY <1>2 DEF JobsKnow
    <3>2. founded' = founded + 1 => founded' \in 1 .. founded'
      BY <1>1
    <3> QED BY <3>1, <3>2, JobBecomes
  <2> QED BY <2>1, <2>2 DEF JobsKnow
<1>4. CreatorsKnow'
  BY <1>1, <1>2 DEF CreatorsKnow, Holds
<1>5. HandedOnce'
  BY <1>1 DEF HandedOnce, Noting
<1> QED BY <1>3, <1>4, <1>5

(* What a creator is after a step of it. *)
LEMMA CreateBecomes ==
    ASSUME InvitationConstants, InvitingTypes, CreatorsKnow, NEW c \in Creators, AnyCreate(c)
    PROVE  /\ \A k \in Kinds : createInvitation(c, k) => create'[c].pc \in {"reads", "waits"} /\ create'[c].kind = k
           /\ takePrepared(c) => /\ create'[c].pc \in {"saves", "founds"} /\ create'[c].kind = create[c].kind
                                 /\ create'[c].pc = "saves" => /\ create'[c].seen[create[c].kind] = create'[c].id
                                                               /\ create'[c].id \in attached
           /\ Taken(c) => create'[c].pc = "publishes" /\ create'[c].id = create[c].id
           /\ FoundedNow(c) => create'[c].pc = "publishes" /\ create'[c].id = founded' /\ founded' = founded + 1
           /\ Published(c) => create'[c].pc = "notes" /\ create'[c].id = create[c].id
           /\ RememberReads(c) => create'[c].pc = "stores" /\ create'[c].id = create[c].id
           /\ CreateFails(c) \/ RememberStores(c) \/ NotRemembered(c) => create'[c].pc = "idle"
<1> USE DEF InvitingTypes
<1>0. create[c] \in CreateStates /\ NoCreate.pc = "idle"
  BY DEF NoCreate
<1>1. ASSUME NEW k \in Kinds, createInvitation(c, k)
      PROVE  create'[c].pc \in {"reads", "waits"} /\ create'[c].kind = k
  BY <1>1 DEF createInvitation, NoCreate
<1>2. ASSUME takePrepared(c)
      PROVE  /\ create'[c].pc \in {"saves", "founds"} /\ create'[c].kind = create[c].kind
             /\ create'[c].pc = "saves" => create'[c].seen[create[c].kind] = create'[c].id /\ create'[c].id \in attached
  <2> DEFINE id == prepared[create[c].kind]
             pc == IF id \in attached THEN "saves" ELSE "founds"
             taken == IF id \in attached THEN id ELSE Unset
  <2>1. create'[c] = [create[c] EXCEPT !.seen = prepared, !.pc = pc, !.id = taken]
    BY <1>2 DEF takePrepared
  <2>2. pc \in {"saves", "founds"} /\ (pc = "saves" => id \in attached /\ taken = id)
    OBVIOUS
  <2> HIDE DEF pc, taken
  <2>3. create'[c].pc = pc /\ create'[c].id = taken /\ create'[c].seen = prepared /\ create'[c].kind = create[c].kind
    BY <1>0, <2>1 DEF CreateStates
  <2> QED BY <2>2, <2>3
<1>3. ASSUME NEW pc, create'[c] = [create[c] EXCEPT !.pc = pc] PROVE create'[c].pc = pc /\ create'[c].id = create[c].id
  BY <1>0, <1>3 DEF CreateStates
<1>4. Taken(c) => create'[c].pc = "publishes" /\ create'[c].id = create[c].id
  <2> HAVE Taken(c)
  <2>1. create'[c] = [create[c] EXCEPT !.pc = "publishes"]
    BY DEF Taken
  <2> QED BY <1>3, <2>1
<1>5. Published(c) => create'[c].pc = "notes" /\ create'[c].id = create[c].id
  <2> HAVE Published(c)
  <2>1. create'[c] = [create[c] EXCEPT !.pc = "notes"]
    BY DEF Published
  <2> QED BY <1>3, <2>1
<1>6. FoundedNow(c) => create'[c].pc = "publishes" /\ create'[c].id = founded' /\ founded' = founded + 1
  <2> HAVE FoundedNow(c)
  <2>1. create'[c] = [create[c] EXCEPT !.pc = "publishes", !.id = founded'] /\ founded' = founded + 1
    BY DEF FoundedNow, Found
  <2> QED BY <1>0, <2>1 DEF CreateStates
<1>7. RememberReads(c) => create'[c].pc = "stores" /\ create'[c].id = create[c].id
  <2> HAVE RememberReads(c)
  <2>1. create'[c] = [create[c] EXCEPT !.pc = "stores", !.out = outgoing]
    BY DEF RememberReads
  <2> QED BY <1>0, <2>1 DEF CreateStates
<1>8. CreateFails(c) \/ RememberStores(c) \/ NotRemembered(c) => create'[c].pc = "idle"
  BY <1>0 DEF CreateFails, RememberStores, NotRemembered
<1> QED BY <1>1, <1>2, <1>4, <1>5, <1>6, <1>7, <1>8

LEMMA CreatesKnow ==
    ASSUME InvitationConstants, InvitingTypes, JobsKnow, CreatorsKnow, HandedOnce, NEW c \in Creators, AnyCreate(c)
    PROVE  JobsKnow' /\ CreatorsKnow' /\ HandedOnce'
<1>1. /\ create \in [Creators -> CreateStates] /\ handed \in [Conversations -> SUBSET Creators]
      /\ attached \subseteq 1 .. founded /\ founded \in Nat
  BY DEF InvitingTypes, InvitationConstants
<1>2. \A d \in Creators : d # c => create'[d] = create[d]
  BY CreatesTyped
<1>3. UNCHANGED job
  BY DEF AnyCreate, createInvitation, takePrepared, Taken, FoundedNow, Published, CreateFails, RememberReads,
         RememberStores, NotRemembered
<1>4. founded' = founded \/ (FoundedNow(c) /\ founded' = founded + 1)
  <2>1. FoundedNow(c) => founded' = founded + 1
    BY DEF FoundedNow, Found
  <2>2. FoundedNow(c) \/ founded' = founded
    BY DEF AnyCreate, createInvitation, takePrepared, Taken, Published, CreateFails, RememberReads, RememberStores,
           NotRemembered
  <2> QED BY <2>1, <2>2
<1>5. 1 .. founded \subseteq 1 .. founded' /\ (FoundedNow(c) => founded' \in 1 .. founded')
  <2>1. FoundedNow(c) => founded' = founded + 1
    BY DEF FoundedNow, Found
  <2> QED BY <1>1, <1>4, <2>1
<1>6. \/ handed' = handed
      \/ /\ Published(c) /\ create[c].id \in Conversations
         /\ handed' = [handed EXCEPT ![create[c].id] = @ \cup {c}]
  <2>1. Published(c) => create[c].id \in 1 .. founded
    BY DEF Published, CreatorsKnow, Holds
  <2>2. 1 .. founded \subseteq Conversations
    BY DEF InvitingTypes, Conversations, InvitationConstants
  <2>3. Published(c) => handed' = [handed EXCEPT ![create[c].id] = @ \cup {c}]
    BY DEF Published
  <2>4. Published(c) \/ handed' = handed
    BY DEF AnyCreate, createInvitation, takePrepared, Taken, FoundedNow, CreateFails, RememberReads, RememberStores,
           NotRemembered
  <2> QED BY <2>1, <2>2, <2>3, <2>4
<1>7. JobsKnow'
  BY <1>3, <1>5 DEF JobsKnow
<1>8. CreatorsKnow'
  <2> SUFFICES ASSUME NEW d \in Creators
               PROVE  /\ Holds(d)' => create'[d].id \in 1 .. founded'
                      /\ create'[d].pc = "saves" => create'[d].id \in 1 .. founded' /\ create'[d].seen[create'[d].kind] = create'[d].id
                      /\ create'[d].pc \in {"waits", "reads", "saves"} => create'[d].kind \in Kinds
    BY DEF CreatorsKnow
  <2>1. CASE d # c
    BY <1>2, <1>5, <2>1 DEF CreatorsKnow, Holds
  <2>2. CASE d = c
    <3>1. /\ Taken(c) \/ Published(c) \/ RememberReads(c) => create[c].id \in 1 .. founded
          /\ takePrepared(c) => create[c].kind \in Kinds
      BY DEF CreatorsKnow, Taken, Published, RememberReads, takePrepared, Holds
    <3>2. CASE \E k \in Kinds : createInvitation(c, k)
      BY <2>2, <3>2, CreateBecomes DEF Holds
    <3>3. CASE takePrepared(c)
      BY <1>1, <1>5, <2>2, <3>1, <3>3, CreateBecomes DEF Holds
    <3>4. CASE Taken(c) \/ Published(c) \/ RememberReads(c)
      BY <1>5, <2>2, <3>1, <3>4, CreateBecomes DEF Holds
    <3>5. CASE FoundedNow(c)
      BY <1>5, <2>2, <3>5, CreateBecomes DEF Holds
    <3>6. CASE CreateFails(c) \/ RememberStores(c) \/ NotRemembered(c)
      BY <2>2, <3>6, CreateBecomes DEF Holds
    <3> QED BY <3>2, <3>3, <3>4, <3>5, <3>6 DEF AnyCreate
  <2> QED BY <2>1, <2>2
<1>9. HandedOnce'
  <2> SUFFICES ASSUME NEW d \in Creators
               PROVE  /\ Noting(d)' => d \in handed'[create'[d].id]
                      /\ ~Noting(d)' /\ create'[d].pc # "idle" => \A s \in Conversations : d \notin handed'[s]
    BY DEF HandedOnce
  <2>1. CASE d # c
    <3>1. \A s \in Conversations : d \in handed'[s] <=> d \in handed[s]
      BY <1>1, <1>6, <2>1
    <3>2. Noting(d) => create[d].id \in Conversations
      BY DEF Noting, CreatorsKnow, Holds, InvitingTypes, Conversations, InvitationConstants
    <3> QED BY <1>2, <2>1, <3>1, <3>2 DEF HandedOnce, Noting
  <2>2. CASE d = c
    <3>1. CASE \E k \in Kinds : createInvitation(c, k)
      <4>1. create'[c].pc \in {"reads", "waits"} /\ handed' = handed /\ \A s \in Conversations : c \notin handed[s]
        BY <3>1, CreateBecomes DEF createInvitation
      <4> QED BY <2>2, <4>1 DEF Noting
    <3>2. CASE takePrepared(c) \/ Taken(c) \/ FoundedNow(c)
      <4>1. handed' = handed /\ \A s \in Conversations : c \notin handed[s]
        BY <3>2 DEF takePrepared, Taken, FoundedNow, HandedOnce, Noting
      <4>2. create'[c].pc \in {"saves", "founds", "publishes"}
        BY <3>2, CreateBecomes
      <4> QED BY <2>2, <4>1, <4>2 DEF Noting
    <3>3. CASE Published(c)
      <4>1. create'[c].pc = "notes" /\ create'[c].id = create[c].id
        BY <3>3, CreateBecomes
      <4>2. create[c].id \in Conversations /\ handed' = [handed EXCEPT ![create[c].id] = @ \cup {c}]
        BY <3>3, <1>6, <1>1 DEF Published, CreatorsKnow, Holds, Conversations, InvitingTypes, InvitationConstants
      <4> QED BY <1>1, <2>2, <4>1, <4>2 DEF Noting
    <3>4. CASE RememberReads(c)
      <4>1. create'[c].pc = "stores" /\ create'[c].id = create[c].id /\ create[c].pc = "notes" /\ handed' = handed
        BY <3>4, CreateBecomes DEF RememberReads
      <4> QED BY <2>2, <4>1 DEF Noting, HandedOnce
    <3>5. CASE CreateFails(c) \/ RememberStores(c) \/ NotRemembered(c)
      BY <2>2, <3>5, CreateBecomes DEF Noting
    <3> QED BY <3>1, <3>2, <3>3, <3>4, <3>5 DEF AnyCreate
  <2> QED BY <2>1, <2>2
<1> QED BY <1>7, <1>8, <1>9

LEMMA OthersKnow ==
    ASSUME InvitationConstants, InvitingTypes, JobsKnow, CreatorsKnow, HandedOnce, AnyOther
    PROVE  JobsKnow' /\ CreatorsKnow' /\ HandedOnce'
<1>1. UNCHANGED <<prepared, founded, handed, raced>> /\ (~InvitingDies => UNCHANGED <<job, create>>)
  BY OthersTyped
<1>2. CASE UNCHANGED <<job, create>>
  BY <1>1, <1>2 DEF JobsKnow, CreatorsKnow, HandedOnce, Holds, Noting
<1>3. CASE InvitingDies
  <2>1. /\ \A k \in Kinds : job'[k].pc = "idle" /\ job'[k].id = Unset
        /\ \A c \in Creators : create'[c].pc = "idle"
    BY <1>3 DEF InvitingDies, NoJob, NoCreate
  <2> QED BY <2>1 DEF JobsKnow, CreatorsKnow, HandedOnce, Holds, Noting
<1> QED BY <1>1, <1>2, <1>3

-----------------------------------------------------------------------------
(* In one place. *)

LEMMA PlacesOnlyEmptied ==
    ASSUME InOnePlace, founded <= founded', founded \in Nat, founded' \in Nat, prepared \in Slot, Unset \notin Nat,
           \A s \in Conversations : s \in Nat,
           \A k \in Kinds : /\ prepared'[k] \in {prepared[k], Unset}
                            /\ job'[k].id \in {job[k].id, Unset},
           \A c \in Creators : Holds(c)' => Holds(c) /\ create'[c].id = create[c].id,
           \A c \in Creators : Holds(c) => create[c].id \in Conversations,
           handed' = handed
    PROVE  InOnePlace'
<1>1. PreparedApart'
  <2> SUFFICES ASSUME NEW k \in Kinds, NEW l \in Kinds
               PROVE  /\ prepared'[k] # Unset => prepared'[k] <= founded' /\ (prepared'[k] = prepared'[l] => k = l)
                      /\ job'[k].id # Unset => prepared'[l] # job'[k].id /\ (job'[k].id = job'[l].id => k = l)
    BY DEF PreparedApart
  <2>1. ASSUME prepared'[k] # Unset PROVE prepared'[k] <= founded' /\ (prepared'[k] = prepared'[l] => k = l)
    <3>1. prepared'[k] = prepared[k] /\ prepared[k] <= founded /\ prepared[k] \in Nat
      BY <2>1 DEF InOnePlace, PreparedApart, Slot
    <3>2. prepared'[k] = prepared'[l] => k = l
      BY <2>1, <3>1 DEF InOnePlace, PreparedApart
    <3> QED BY <3>1, <3>2
  <2>2. ASSUME job'[k].id # Unset PROVE prepared'[l] # job'[k].id /\ (job'[k].id = job'[l].id => k = l)
    BY <2>2 DEF InOnePlace, PreparedApart
  <2> QED BY <2>1, <2>2
<1>2. HeldApart'
  <2> SUFFICES ASSUME NEW c \in Creators, Holds(c)'
               PROVE  /\ \A k \in Kinds : prepared'[k] # create'[c].id /\ job'[k].id # create'[c].id
                      /\ \A d \in Creators : Holds(d)' /\ create'[d].id = create'[c].id => c = d
                      /\ handed'[create'[c].id] \subseteq {c}
    BY DEF HeldApart
  <2>1. Holds(c) /\ create'[c].id = create[c].id /\ create[c].id # Unset
    OBVIOUS
  <2>2. /\ \A k \in Kinds : prepared[k] # create[c].id /\ job[k].id # create[c].id
        /\ \A d \in Creators : Holds(d) /\ create[d].id = create[c].id => c = d
        /\ handed[create[c].id] \subseteq {c}
    BY <2>1 DEF InOnePlace, HeldApart
  <2> QED BY <2>1, <2>2
<1>3. HandedApart'
  <2> SUFFICES ASSUME NEW s \in Conversations, handed[s] # {}
               PROVE  /\ s <= founded' /\ \E c \in Creators : handed[s] = {c}
                      /\ \A k \in Kinds : prepared'[k] # s /\ job'[k].id # s
    BY DEF HandedApart
  <2>1. /\ s <= founded /\ \E c \in Creators : handed[s] = {c}
        /\ \A k \in Kinds : prepared[k] # s /\ job[k].id # s
    BY DEF InOnePlace, HandedApart
  <2>2. s <= founded'
    BY <2>1
  <2> QED BY <2>1, <2>2
<1> QED BY <1>1, <1>2, <1>3 DEF InOnePlace

LEMMA PreparesApart ==
    ASSUME InvitationConstants, InvitingTypes, JobsKnow, CreatorsKnow, InOnePlace, ~raced', NEW k \in Kinds, AnyPrepare(k)
    PROVE  InOnePlace'
<1> USE DEF InvitingTypes
<1>1. /\ \A c \in Creators : Holds(c)' <=> Holds(c)
      /\ \A c \in Creators : create'[c].id = create[c].id
      /\ \A l \in Kinds : l # k => job'[l] = job[l]
      /\ founded \in Nat /\ founded' \in Nat /\ founded <= founded' /\ handed' = handed
  BY PreparesWait DEF Holds
<1>2. prepared \in Slot /\ Unset \notin Nat /\ (\A s \in Conversations : s \in Nat) /\ 1 .. founded \subseteq Conversations
  BY DEF InvitationConstants, Conversations
<1>3. /\ \A c \in Creators : Holds(c) => create[c].id \in 1 .. founded
      /\ \A l \in Kinds : job[l].id # Unset => job[l].id \in 1 .. founded
      /\ \A l \in Kinds : prepared[l] # Unset => prepared[l] <= founded /\ prepared[l] \in Nat
  BY <1>2 DEF CreatorsKnow, JobsKnow, InOnePlace, PreparedApart, Slot
<1>4. CASE PreparedFounded(k)
  <2>1. /\ \A l \in Kinds : prepared'[l] = prepared[l] /\ job[k].id = Unset
        /\ founded' = founded + 1 /\ job'[k].id = founded' /\ founded' # Unset
    <3>1. founded' = founded + 1 /\ founded' # founded /\ prepared' = prepared
      BY <1>1, <1>4 DEF PreparedFounded, Found
    <3>2. job[k].id = Unset /\ job'[k].id = founded'
      BY <3>1, JobBecomes
    <3> QED BY <1>1, <1>2, <3>1, <3>2
  <2>2. /\ \A l \in Kinds : prepared[l] # founded' /\ job[l].id # founded'
        /\ \A c \in Creators : Holds(c) => create[c].id # founded'
        /\ \A s \in Conversations : handed[s] # {} => s # founded'
    BY <1>1, <1>2, <1>3, <2>1 DEF InOnePlace, HandedApart
  <2>3. PreparedApart'
    <3> SUFFICES ASSUME NEW l \in Kinds, NEW m \in Kinds
                 PROVE  /\ prepared'[l] # Unset => prepared'[l] <= founded' /\ (prepared'[l] = prepared'[m] => l = m)
                        /\ job'[l].id # Unset => prepared'[m] # job'[l].id /\ (job'[l].id = job'[m].id => l = m)
      BY DEF PreparedApart
    <3>1. prepared'[l] # Unset => prepared'[l] <= founded'
      BY <1>1, <1>3, <2>1
    <3>2. prepared'[l] # Unset => (prepared'[l] = prepared'[m] => l = m)
      BY <2>1 DEF InOnePlace, PreparedApart
    <3>3. job'[l].id # Unset => prepared'[m] # job'[l].id /\ (job'[l].id = job'[m].id => l = m)
      <4>1. CASE l = k \/ m = k
        BY <1>1, <2>1, <2>2, <4>1 DEF InOnePlace, PreparedApart
      <4>2. CASE l # k /\ m # k
        BY <1>1, <2>1, <4>2 DEF InOnePlace, PreparedApart
      <4> QED BY <4>1, <4>2
    <3> QED BY <3>1, <3>2, <3>3
  <2>4. HeldApart'
    <3> SUFFICES ASSUME NEW c \in Creators, Holds(c)
                 PROVE  /\ \A l \in Kinds : prepared'[l] # create'[c].id /\ job'[l].id # create'[c].id
                        /\ \A d \in Creators : Holds(d) /\ create'[d].id = create'[c].id => c = d
                        /\ handed'[create'[c].id] \subseteq {c}
      BY <1>1 DEF HeldApart
    <3>1. /\ \A l \in Kinds : prepared[l] # create[c].id /\ job[l].id # create[c].id
          /\ \A d \in Creators : Holds(d) /\ create[d].id = create[c].id => c = d
          /\ handed[create[c].id] \subseteq {c}
      BY DEF InOnePlace, HeldApart
    <3> QED BY <1>1, <2>1, <2>2, <3>1
  <2>5. HandedApart'
    <3>1. \A s \in Conversations : s <= founded => s <= founded'
      BY <1>1, <1>2
    <3> QED BY <1>1, <2>1, <2>2, <3>1 DEF InOnePlace, HandedApart
  <2> QED BY <2>3, <2>4, <2>5 DEF InOnePlace
<1>5. CASE PreparedSaved(k)
  <2>1. job[k].pc = "saves" /\ job'[k].id = Unset /\ founded' = founded
    BY <1>5, <1>1, JobBecomes DEF PreparedSaved, PreparedFounded
  <2>2. prepared' = [prepared EXCEPT ![k] = job[k].id]
    BY <1>5 DEF PreparedSaved, SavePrepared
  <2>3. /\ prepared'[k] = job[k].id /\ \A l \in Kinds : l # k => prepared'[l] = prepared[l] /\ job'[l] = job[l]
        /\ job[k].id \in 1 .. founded /\ job[k].id # Unset
    BY <1>1, <1>2, <2>1, <2>2 DEF Slot, JobsKnow
  <2>4. PreparedApart'
    <3> SUFFICES ASSUME NEW l \in Kinds, NEW m \in Kinds
                 PROVE  /\ prepared'[l] # Unset => prepared'[l] <= founded' /\ (prepared'[l] = prepared'[m] => l = m)
                        /\ job'[l].id # Unset => prepared'[m] # job'[l].id /\ (job'[l].id = job'[m].id => l = m)
      BY DEF PreparedApart
    <3>1. prepared'[l] # Unset => prepared'[l] <= founded'
      BY <1>1, <1>3, <2>1, <2>3
    <3>2. prepared'[l] # Unset => (prepared'[l] = prepared'[m] => l = m)
      BY <2>3 DEF InOnePlace, PreparedApart
    <3>3. job'[l].id # Unset => prepared'[m] # job'[l].id /\ (job'[l].id = job'[m].id => l = m)
      BY <2>1, <2>3 DEF InOnePlace, PreparedApart
    <3> QED BY <3>1, <3>2, <3>3
  <2>5. HeldApart'
    BY <1>1, <1>2, <1>3, <2>1, <2>3 DEF InOnePlace, HeldApart
  <2>6. HandedApart'
    BY <1>1, <1>2, <2>1, <2>3 DEF InOnePlace, HandedApart
  <2> QED BY <2>4, <2>5, <2>6 DEF InOnePlace
<1>6. CASE ~PreparedFounded(k) /\ ~PreparedSaved(k)
  <2>1. \A l \in Kinds : prepared'[l] = prepared[l] /\ job'[l].id \in {job[l].id, Unset}
    BY <1>1, <1>6, JobBecomes
  <2> QED BY <1>1, <1>2, <1>3, <2>1, PlacesOnlyEmptied
<1> QED BY <1>4, <1>5, <1>6

LEMMA CreatesApart ==
    ASSUME InvitationConstants, InvitingTypes, JobsKnow, CreatorsKnow, HandedOnce, InOnePlace, ~raced',
           NEW c \in Creators, AnyCreate(c)
    PROVE  InOnePlace'
<1> USE DEF InvitingTypes
<1>1. /\ \A d \in Creators : d # c => create'[d] = create[d]
      /\ \A d \in Creators : d # c => (Holds(d)' <=> Holds(d))
  BY CreatesTyped DEF Holds
<1>2. /\ prepared \in Slot /\ Unset \notin Nat /\ (\A s \in Conversations : s \in Nat) /\ 1 .. founded \subseteq Conversations
      /\ founded \in Nat /\ handed \in [Conversations -> SUBSET Creators]
  BY DEF InvitationConstants, Conversations
<1>3. /\ \A d \in Creators : Holds(d) => create[d].id \in 1 .. founded
      /\ \A l \in Kinds : job[l].id # Unset => job[l].id \in 1 .. founded
      /\ \A l \in Kinds : prepared[l] # Unset => prepared[l] <= founded /\ prepared[l] \in Nat
  BY <1>2 DEF CreatorsKnow, JobsKnow, InOnePlace, PreparedApart, Slot
<1>4. UNCHANGED job
  BY DEF AnyCreate, createInvitation, takePrepared, Taken, FoundedNow, Published, CreateFails, RememberReads,
         RememberStores, NotRemembered
<1>5. CASE Taken(c)
  <2> DEFINE k == create[c].kind
  <2>1. /\ k \in Kinds /\ create[c].seen[k] = create[c].id /\ create[c].id \in 1 .. founded
        /\ \A s \in Conversations : c \notin handed[s]
    BY <1>5 DEF Taken, CreatorsKnow, HandedOnce, Noting
  <2> HIDE DEF k
  <2>2. prepared' = [prepared EXCEPT ![k] = Unset] /\ prepared[k] = create[c].id /\ UNCHANGED <<founded, handed>>
    BY <1>5, <2>1 DEF Taken, SavePrepared, k
  <2>3. create'[c].pc = "publishes" /\ create'[c].id = create[c].id
    BY <1>5, CreateBecomes
  <2>4. /\ \A l \in Kinds : l # k => prepared'[l] = prepared[l] /\ prepared[l] # create[c].id
        /\ prepared'[k] = Unset /\ create[c].id # Unset
        /\ \A l \in Kinds : job[l].id # create[c].id
        /\ \A d \in Creators : Holds(d) => create[d].id # create[c].id
        /\ handed[create[c].id] = {}
    BY <1>2, <1>3, <2>1, <2>2 DEF InOnePlace, PreparedApart, HeldApart, HandedApart, Slot
  <2>5. PreparedApart'
    <3> SUFFICES ASSUME NEW l \in Kinds, NEW m \in Kinds
                 PROVE  /\ prepared'[l] # Unset => prepared'[l] <= founded /\ (prepared'[l] = prepared'[m] => l = m)
                        /\ job[l].id # Unset => prepared'[m] # job[l].id /\ (job[l].id = job[m].id => l = m)
      BY <1>4, <2>2 DEF PreparedApart
    <3> QED BY <1>3, <2>4 DEF InOnePlace, PreparedApart
  <2>6. HeldApart'
    <3> SUFFICES ASSUME NEW d \in Creators, Holds(d)'
                 PROVE  /\ \A l \in Kinds : prepared'[l] # create'[d].id /\ job[l].id # create'[d].id
                        /\ \A e \in Creators : Holds(e)' /\ create'[e].id = create'[d].id => d = e
                        /\ handed[create'[d].id] \subseteq {d}
      BY <1>4, <2>2 DEF HeldApart
    <3>1. CASE d = c
      BY <1>1, <2>3, <2>4, <3>1
    <3>2. CASE d # c
      <4>1. Holds(d) /\ create'[d].id = create[d].id /\ create[d].id # Unset
        BY <1>1, <1>2, <1>3, <3>2
      <4>2. /\ \A l \in Kinds : prepared[l] # create[d].id /\ job[l].id # create[d].id
            /\ \A e \in Creators : Holds(e) /\ create[e].id = create[d].id => d = e
            /\ handed[create[d].id] \subseteq {d}
        BY <4>1 DEF InOnePlace, HeldApart
      <4>3. ASSUME NEW e \in Creators, Holds(e)', create'[e].id = create'[d].id PROVE d = e
        BY <1>1, <2>3, <2>4, <4>1, <4>2, <4>3
      <4> QED BY <2>4, <4>1, <4>2, <4>3
    <3> QED BY <3>1, <3>2
  <2>7. HandedApart'
    BY <1>2, <1>4, <2>2, <2>4 DEF InOnePlace, HandedApart
  <2> QED BY <2>5, <2>6, <2>7 DEF InOnePlace
<1>6. CASE FoundedNow(c)
  <2>1. /\ create'[c].pc = "publishes" /\ create'[c].id = founded' /\ founded' = founded + 1
        /\ UNCHANGED <<prepared, handed>> /\ founded' # Unset /\ founded <= founded'
    <3>1. create'[c].pc = "publishes" /\ create'[c].id = founded'
      BY <1>6, CreateBecomes
    <3>2. founded' = founded + 1 /\ UNCHANGED <<prepared, handed>>
      BY <1>6 DEF FoundedNow, Found
    <3> QED BY <1>2, <3>1, <3>2
  <2>2. founded' \in Conversations
    BY <1>6, FoundTyped DEF FoundedNow
  <2>3. /\ \A l \in Kinds : prepared[l] # founded' /\ job[l].id # founded'
        /\ \A d \in Creators : Holds(d) => create[d].id # founded'
        /\ handed[founded'] = {}
    BY <1>2, <1>3, <2>1, <2>2 DEF InOnePlace, HandedApart
  <2>4. PreparedApart'
    <3>1. \A l \in Kinds : prepared[l] # Unset => prepared[l] <= founded'
      BY <1>2, <1>3, <2>1
    <3> QED BY <1>4, <2>1, <3>1 DEF InOnePlace, PreparedApart
  <2>5. HeldApart'
    <3> SUFFICES ASSUME NEW d \in Creators, Holds(d)'
                 PROVE  /\ \A l \in Kinds : prepared[l] # create'[d].id /\ job[l].id # create'[d].id
                        /\ \A e \in Creators : Holds(e)' /\ create'[e].id = create'[d].id => d = e
                        /\ handed[create'[d].id] \subseteq {d}
      BY <1>4, <2>1 DEF HeldApart
    <3>1. CASE d = c
      BY <1>1, <2>1, <2>3, <3>1
    <3>2. CASE d # c
      <4>1. Holds(d) /\ create'[d].id = create[d].id
        BY <1>1, <3>2
      <4>2. /\ \A l \in Kinds : prepared[l] # create[d].id /\ job[l].id # create[d].id
            /\ \A e \in Creators : Holds(e) /\ create[e].id = create[d].id => d = e
            /\ handed[create[d].id] \subseteq {d}
        BY <4>1 DEF InOnePlace, HeldApart
      <4>3. ASSUME NEW e \in Creators, Holds(e)', create'[e].id = create'[d].id PROVE d = e
        BY <1>1, <2>1, <2>3, <4>1, <4>2, <4>3
      <4> QED BY <4>1, <4>2, <4>3
    <3> QED BY <3>1, <3>2
  <2>6. HandedApart'
    <3>1. \A s \in Conversations : s <= founded => s <= founded'
      BY <1>2, <2>1
    <3> QED BY <1>4, <2>1, <3>1 DEF InOnePlace, HandedApart
  <2> QED BY <2>4, <2>5, <2>6 DEF InOnePlace
<1>7. CASE Published(c)
  <2> DEFINE s == create[c].id
  <2>1. /\ Holds(c) /\ s \in 1 .. founded /\ s \in Conversations /\ \A t \in Conversations : c \notin handed[t]
    BY <1>2, <1>3, <1>7 DEF Published, HandedOnce, Noting, Holds
  <2>2. create'[c].pc = "notes" /\ create'[c].id = s
    BY <1>7, CreateBecomes
  <2> HIDE DEF s
  <2>3. handed' = [handed EXCEPT ![s] = @ \cup {c}] /\ UNCHANGED <<prepared, founded>>
    BY <1>7 DEF Published, s
  <2>4. /\ \A l \in Kinds : prepared[l] # s /\ job[l].id # s
        /\ \A d \in Creators : Holds(d) /\ create[d].id = s => c = d
        /\ handed[s] = {}
    BY <2>1 DEF InOnePlace, HeldApart, s
  <2>5. handed'[s] = {c} /\ \A t \in Conversations : t # s => handed'[t] = handed[t]
    BY <1>2, <2>1, <2>3, <2>4
  <2>6. \A d \in Creators : (Holds(d)' <=> Holds(d)) /\ (Holds(d) => create'[d].id = create[d].id)
    BY <1>1, <2>1, <2>2 DEF Holds, s
  <2>7. HeldApart'
    <3> SUFFICES ASSUME NEW d \in Creators, Holds(d)
                 PROVE  /\ \A l \in Kinds : prepared[l] # create'[d].id /\ job[l].id # create'[d].id
                        /\ \A e \in Creators : Holds(e) /\ create'[e].id = create'[d].id => d = e
                        /\ handed'[create'[d].id] \subseteq {d}
      BY <1>4, <2>3, <2>6 DEF HeldApart
    <3>1. /\ \A l \in Kinds : prepared[l] # create[d].id /\ job[l].id # create[d].id
          /\ \A e \in Creators : Holds(e) /\ create[e].id = create[d].id => d = e
          /\ handed[create[d].id] \subseteq {d} /\ create[d].id \in Conversations
      BY <1>2, <1>3 DEF InOnePlace, HeldApart
    <3>2. handed'[create[d].id] \subseteq {d}
      BY <2>4, <2>5, <3>1
    <3> QED BY <2>6, <3>1, <3>2
  <2>8. HandedApart'
    <3>1. s <= founded
      BY <2>1
    <3> QED BY <1>4, <2>3, <2>4, <2>5, <3>1 DEF InOnePlace, HandedApart
  <2>9. PreparedApart'
    BY <1>4, <2>3 DEF InOnePlace, PreparedApart
  <2> QED BY <2>7, <2>8, <2>9 DEF InOnePlace
<1>8. CASE ~Taken(c) /\ ~FoundedNow(c) /\ ~Published(c)
  <2>1. UNCHANGED <<prepared, founded, handed>>
    BY <1>8 DEF AnyCreate, createInvitation, takePrepared, CreateFails, RememberReads, RememberStores, NotRemembered
  <2>2. Holds(c)' => Holds(c) /\ create'[c].id = create[c].id
    BY <1>8, CreateBecomes DEF AnyCreate, Holds, RememberReads
  <2> QED BY <1>1, <1>2, <1>3, <1>4, <2>1, <2>2, PlacesOnlyEmptied
<1> QED BY <1>5, <1>6, <1>7, <1>8

LEMMA OthersApart ==
    ASSUME InvitationConstants, InvitingTypes, CreatorsKnow, InOnePlace, AnyOther
    PROVE  InOnePlace'
<1>1. /\ UNCHANGED <<prepared, founded, handed, raced>> /\ (~InvitingDies => UNCHANGED <<job, create>>)
      /\ founded \in Nat /\ prepared \in Slot /\ Unset \notin Nat /\ \A s \in Conversations : s \in Nat
  BY OthersTyped DEF InvitingTypes, InvitationConstants, Conversations
<1>2. \A c \in Creators : Holds(c) => create[c].id \in Conversations
  BY DEF InvitingTypes, InvitationConstants, Conversations, CreatorsKnow
<1>3. \A k \in Kinds : job'[k].id \in {job[k].id, Unset}
  BY <1>1 DEF InvitingDies, NoJob
<1>4. \A c \in Creators : Holds(c)' => Holds(c) /\ create'[c].id = create[c].id
  BY <1>1 DEF InvitingDies, NoCreate, Holds
<1> QED BY <1>1, <1>2, <1>3, <1>4, PlacesOnlyEmptied

-----------------------------------------------------------------------------
(* Listed, or used. *)

LEMMA ListedStays ==
    ASSUME ListedOrUsed, handed' = handed, gone \subseteq gone',
           \A s \in Conversations : s \in outgoing => s \in outgoing' \cup gone',
           \A c \in Creators : Noting(c) => \/ Noting(c)' /\ create'[c].id = create[c].id
                                            \/ create[c].id \in outgoing' \cup gone'
    PROVE  ListedOrUsed'
<1> SUFFICES ASSUME NEW s \in Conversations, handed[s] # {}, s \notin gone'
             PROVE  s \in outgoing' \/ \E c \in Creators : Noting(c)' /\ create'[c].id = s
  BY DEF ListedOrUsed
<1>1. s \in outgoing \/ \E c \in Creators : Noting(c) /\ create[c].id = s
  BY DEF ListedOrUsed
<1>2. CASE s \in outgoing
  BY <1>2
<1>3. CASE \E c \in Creators : Noting(c) /\ create[c].id = s
  <2>1. PICK c \in Creators : Noting(c) /\ create[c].id = s
    BY <1>3
  <2> QED BY <2>1
<1> QED BY <1>1, <1>2, <1>3

LEMMA PreparesListed ==
    ASSUME InvitationConstants, InvitingTypes, ListedOrUsed, NEW k \in Kinds, AnyPrepare(k)
    PROVE  ListedOrUsed'
<1>1. /\ \A c \in Creators : Noting(c) => Noting(c)' /\ create'[c].id = create[c].id
      /\ UNCHANGED <<outgoing, handed, gone>>
  BY PreparesWait DEF Noting
<1> QED BY <1>1, ListedStays

LEMMA CreatesListed ==
    ASSUME InvitationConstants, InvitingTypes, CreatorsKnow, ListedOrUsed, ~dropped', NEW c \in Creators, AnyCreate(c)
    PROVE  ListedOrUsed'
<1>1. \A d \in Creators : d # c => create'[d] = create[d] /\ (Noting(d)' <=> Noting(d))
  BY CreatesTyped DEF Noting
<1>2. CASE Published(c)
  <2>1. create'[c].pc = "notes" /\ create'[c].id = create[c].id /\ create[c].pc = "publishes"
    BY <1>2, CreateBecomes DEF Published
  <2>2. /\ handed' = [handed EXCEPT ![create[c].id] = @ \cup {c}] /\ UNCHANGED <<outgoing, gone>>
        /\ handed \in [Conversations -> SUBSET Creators]
    BY <1>2 DEF Published, InvitingTypes
  <2> SUFFICES ASSUME NEW s \in Conversations, handed'[s] # {}, s \notin gone
               PROVE  s \in outgoing \/ \E d \in Creators : Noting(d)' /\ create'[d].id = s
    BY <2>2 DEF ListedOrUsed
  <2>3. CASE s = create[c].id
    BY <2>1, <2>3 DEF Noting
  <2>4. CASE s # create[c].id
    <3>1. handed'[s] = handed[s]
      BY <2>2, <2>4
    <3>2. s \in outgoing \/ \E d \in Creators : Noting(d) /\ create[d].id = s
      BY <3>1 DEF ListedOrUsed
    <3>3. ~Noting(c)
      BY <2>1 DEF Noting
    <3> QED BY <1>1, <3>2, <3>3
  <2> QED BY <2>3, <2>4
<1>3. CASE ~Published(c)
  <2>1. UNCHANGED handed
    BY <1>3 DEF AnyCreate, createInvitation, takePrepared, Taken, FoundedNow, CreateFails, RememberReads, RememberStores,
                NotRemembered
  <2>2. gone \subseteq gone'
    BY <1>3 DEF AnyCreate, createInvitation, takePrepared, Taken, FoundedNow, CreateFails, RememberReads, RememberStores,
                NotRemembered
  <2>3. CASE RememberStores(c)
    <3>1. outgoing' = outgoing \cup {create[c].id}
      BY <2>3 DEF RememberStores, StoreOutgoing, InvitingTypes
    <3> QED BY <1>1, <2>1, <2>2, <3>1, ListedStays
  <2>4. CASE NotRemembered(c)
    <3>1. gone' = gone \cup {create[c].id} /\ outgoing' = outgoing
      BY <2>4 DEF NotRemembered
    <3> QED BY <1>1, <2>1, <2>2, <3>1, ListedStays
  <2>5. CASE ~RememberStores(c) /\ ~NotRemembered(c)
    <3>1. outgoing' = outgoing
      BY <1>3, <2>5 DEF AnyCreate, createInvitation, takePrepared, Taken, FoundedNow, CreateFails, RememberReads
    <3>2. Noting(c) => Noting(c)' /\ create'[c].id = create[c].id
      <4> SUFFICES ASSUME Noting(c) PROVE Noting(c)' /\ create'[c].id = create[c].id
        OBVIOUS
      <4>1. RememberReads(c)
        BY <1>3, <2>5 DEF Noting, AnyCreate, createInvitation, takePrepared, Taken, FoundedNow, CreateFails
      <4> QED BY <4>1, CreateBecomes DEF Noting
    <3> QED BY <1>1, <2>1, <2>2, <3>1, <3>2, ListedStays
  <2> QED BY <2>3, <2>4, <2>5
<1> QED BY <1>2, <1>3

LEMMA OthersListed ==
    ASSUME InvitationConstants, InvitingTypes, ListedOrUsed, ~dropped', AnyOther
    PROVE  ListedOrUsed'
<1>1. UNCHANGED handed /\ (~InvitingDies => UNCHANGED create)
  BY OthersTyped
<1>2. gone \subseteq gone'
  BY DEF AnyOther, Redeemed, OpensAgain, ForgetReads, ForgetStores, ListReads, ListStores, InvitingDies
<1>3. CASE InvitingDies
  BY <1>1, <1>3 DEF InvitingDies, ListedOrUsed
<1>4. CASE ~InvitingDies
  <2>1. \A s \in Conversations : s \in outgoing => s \in outgoing' \cup gone'
    <3>1. CASE UNCHANGED outgoing
      BY <3>1
    <3>2. CASE ForgetStores
      BY <3>2 DEF ForgetStores, StoreOutgoing, InvitingTypes
    <3>3. CASE ListStores
      BY <1>2, <3>3 DEF ListStores, StoreOutgoing, InvitingTypes
    <3> QED BY <1>4, <3>1, <3>2, <3>3 DEF AnyOther, Redeemed, OpensAgain, ForgetReads, ListReads
  <2>2. \A c \in Creators : Noting(c) => Noting(c)' /\ create'[c].id = create[c].id
    BY <1>1, <1>4 DEF Noting
  <2> QED BY <1>1, <1>2, <2>1, <2>2, ListedStays
<1> QED BY <1>3, <1>4

-----------------------------------------------------------------------------
(* Forgotten is over. *)

LEMMA ForgottenStays ==
    ASSUME ForgottenIsOver, outgoing' \subseteq outgoing, forgotten' = forgotten,
           \A s \in Conversations : handed[s] # {} => handed'[s] # {},
           \A s \in Conversations : forgetting'.of = s => forgetting.of = s \/ s \in outgoing,
           \A c \in Creators : Holds(c)' => \/ Holds(c) /\ create'[c].id = create[c].id
                                            \/ create'[c].id \in Conversations => handed[create'[c].id] = {}
    PROVE  ForgottenIsOver'
<1>1. forgotten' \cap outgoing' = {}
  BY DEF ForgottenIsOver
<1>2. ASSUME NEW s \in Conversations, s \in outgoing' \cup forgotten' \/ forgetting'.of = s
      PROVE  handed'[s] # {} /\ \A c \in Creators : Holds(c)' => create'[c].id # s
  <2>1. s \in outgoing \cup forgotten \/ forgetting.of = s
    BY <1>2
  <2>2. handed[s] # {} /\ \A c \in Creators : Holds(c) => create[c].id # s
    BY <2>1 DEF ForgottenIsOver
  <2> QED BY <2>2
<1> QED BY <1>1, <1>2 DEF ForgottenIsOver

LEMMA PreparesForgotten ==
    ASSUME InvitationConstants, InvitingTypes, ForgottenIsOver, NEW k \in Kinds, AnyPrepare(k)
    PROVE  ForgottenIsOver'
<1>1. /\ \A c \in Creators : Holds(c)' => Holds(c) /\ create'[c].id = create[c].id
      /\ UNCHANGED <<outgoing, handed, forgetting, forgotten>>
  BY PreparesWait DEF Holds
<1> QED BY <1>1, ForgottenStays

LEMMA CreatesForgotten ==
    ASSUME InvitationConstants, InvitingTypes, CreatorsKnow, HandedOnce, InOnePlace, ForgottenIsOver, ~raced', ~dropped',
           NEW c \in Creators, AnyCreate(c)
    PROVE  ForgottenIsOver'
<1>1. \A d \in Creators : d # c => create'[d] = create[d] /\ (Holds(d)' <=> Holds(d))
  BY CreatesTyped DEF Holds
<1>2. UNCHANGED <<forgetting, forgotten>>
  BY DEF AnyCreate, createInvitation, takePrepared, Taken, FoundedNow, Published, CreateFails, RememberReads,
         RememberStores, NotRemembered, forgetVars
<1>3. \A s \in Conversations : handed[s] # {} => handed'[s] # {}
  <2>1. CASE Published(c)
    BY <2>1 DEF Published, InvitingTypes
  <2>2. CASE UNCHANGED handed
    BY <2>2
  <2> QED BY <2>1, <2>2 DEF AnyCreate, createInvitation, takePrepared, Taken, FoundedNow, CreateFails, RememberReads,
                            RememberStores, NotRemembered
<1>4. CASE RememberStores(c)
  <2> DEFINE s == create[c].id
  <2>1. Holds(c) /\ Noting(c) /\ create'[c].pc = "idle" /\ handed' = handed
    BY <1>4, CreateBecomes DEF RememberStores, Holds, Noting
  <2>2. outgoing' = outgoing \cup {s}
    BY <1>4 DEF RememberStores, StoreOutgoing, InvitingTypes
  <2>3. s \in Conversations /\ c \in handed[s] /\ \A d \in Creators : Holds(d) /\ create[d].id = s => c = d
    <3>1. s \in 1 .. founded /\ 1 .. founded \subseteq Conversations
      BY <2>1 DEF CreatorsKnow, InvitingTypes, Conversations, InvitationConstants
    <3>2. c \in handed[s]
      BY <2>1 DEF HandedOnce
    <3>3. \A d \in Creators : Holds(d) /\ create[d].id = s => c = d
      BY <2>1 DEF InOnePlace, HeldApart
    <3> QED BY <3>1, <3>2, <3>3
  <2>4. s \notin forgotten
    BY <2>1, <2>3 DEF ForgottenIsOver
  <2> HIDE DEF s
  <2>5. forgotten' \cap outgoing' = {}
    BY <1>2, <2>2, <2>4 DEF ForgottenIsOver
  <2>6. ASSUME NEW t \in Conversations, t \in outgoing' \cup forgotten' \/ forgetting'.of = t
        PROVE  handed'[t] # {} /\ \A d \in Creators : Holds(d)' => create'[d].id # t
    <3>1. ~Holds(c)'
      BY <2>1 DEF Holds
    <3>2. CASE t = s
      BY <1>1, <2>1, <2>3, <3>1, <3>2
    <3>3. CASE t # s
      <4>1. t \in outgoing \cup forgotten \/ forgetting.of = t
        BY <1>2, <2>2, <2>6, <3>3
      <4>2. handed[t] # {} /\ \A d \in Creators : Holds(d) => create[d].id # t
        BY <4>1 DEF ForgottenIsOver
      <4> QED BY <1>1, <2>1, <3>1, <4>2
    <3> QED BY <3>2, <3>3
  <2> QED BY <2>5, <2>6 DEF ForgottenIsOver
<1>5. CASE ~RememberStores(c)
  <2>1. UNCHANGED outgoing
    BY <1>5 DEF AnyCreate, createInvitation, takePrepared, Taken, FoundedNow, Published, CreateFails, RememberReads,
                NotRemembered
  <2>2. Holds(c)' => \/ Holds(c) /\ create'[c].id = create[c].id
                     \/ create'[c].id \in Conversations => handed[create'[c].id] = {}
    <3>1. CASE Taken(c)
      <4>1. create[c].seen[create[c].kind] = create[c].id /\ create[c].kind \in Kinds /\ create[c].seen = prepared
        BY <3>1 DEF Taken, CreatorsKnow, SavePrepared, InvitingTypes
      <4>2. create'[c].id = create[c].id
        BY <3>1, CreateBecomes
      <4> QED BY <4>1, <4>2 DEF InOnePlace, HandedApart
    <3>2. CASE FoundedNow(c)
      <4>1. create'[c].id = founded + 1
        BY <3>2, CreateBecomes
      <4>2. ~(founded + 1 <= founded)
        BY DEF InvitingTypes, InvitationConstants
      <4> QED BY <4>1, <4>2 DEF InOnePlace, HandedApart
    <3>3. CASE Published(c) \/ RememberReads(c)
      BY <3>3, CreateBecomes DEF Published, RememberReads, Holds
    <3>4. CASE ~Taken(c) /\ ~FoundedNow(c) /\ ~Published(c) /\ ~RememberReads(c)
      BY <1>5, <3>4, CreateBecomes DEF AnyCreate, Holds
    <3> QED BY <3>1, <3>2, <3>3, <3>4
  <2> QED BY <1>1, <1>2, <1>3, <2>1, <2>2, ForgottenStays
<1> QED BY <1>4, <1>5

LEMMA OthersForgotten ==
    ASSUME InvitationConstants, InvitingTypes, ForgottenIsOver, ~dropped', AnyOther
    PROVE  ForgottenIsOver'
<1>1. UNCHANGED handed /\ (~InvitingDies => UNCHANGED create)
  BY OthersTyped
<1>2. \A c \in Creators : Holds(c)' => Holds(c) /\ create'[c].id = create[c].id
  BY <1>1 DEF InvitingDies, NoCreate, Holds
<1>3. Unset \notin Conversations
  BY DEF InvitationConstants, Conversations
<1>4. CASE ForgetStores
  <2> DEFINE s == forgetting.of
  <2>1. s \in Conversations
    BY <1>4 DEF ForgetStores, InvitingTypes, ForgettingStates, NotForgetting
  <2>2. outgoing' = outgoing \ {s} /\ forgotten' = forgotten \cup {s} /\ forgetting'.of = Unset
    BY <1>4 DEF ForgetStores, StoreOutgoing, InvitingTypes, NotForgetting
  <2>3. forgotten' \cap outgoing' = {}
    BY <2>2 DEF ForgottenIsOver
  <2>4. ASSUME NEW t \in Conversations, t \in outgoing' \cup forgotten' \/ forgetting'.of = t
        PROVE  handed'[t] # {} /\ \A c \in Creators : Holds(c)' => create'[c].id # t
    <3>1. t \in outgoing \cup forgotten \/ forgetting.of = t
      BY <1>3, <2>2, <2>4
    <3> QED BY <1>1, <1>2, <3>1 DEF ForgottenIsOver
  <2> QED BY <2>3, <2>4 DEF ForgottenIsOver
<1>5. CASE ~ForgetStores
  <2>1. forgotten' = forgotten
    BY <1>5 DEF AnyOther, Redeemed, OpensAgain, ForgetReads, ListReads, ListStores, InvitingDies, forgetVars
  <2>2. outgoing' \subseteq outgoing
    <3>1. CASE ListStores
      BY <3>1 DEF ListStores, StoreOutgoing, InvitingTypes
    <3>2. CASE ~ListStores
      BY <1>5, <3>2 DEF AnyOther, Redeemed, OpensAgain, ForgetReads, ListReads, InvitingDies
    <3> QED BY <3>1, <3>2
  <2>3. \A s \in Conversations : forgetting'.of = s => forgetting.of = s \/ s \in outgoing
    <3>1. forgetting' = forgetting \/ forgetting' = NotForgetting \/ \E s \in Conversations : ForgetReads(s)
      BY <1>5 DEF AnyOther, Redeemed, OpensAgain, ListReads, ListStores, InvitingDies, forgetVars
    <3> QED BY <1>3, <3>1 DEF ForgetReads, NotForgetting
  <2> QED BY <1>1, <1>2, <2>1, <2>2, <2>3, ForgottenStays
<1> QED BY <1>4, <1>5

-----------------------------------------------------------------------------
LEMMA InvitingStep == InvitationConstants /\ InvitingInv /\ [InvitationsNext]_invitationVars => InvitingInv'
<1> SUFFICES ASSUME InvitationConstants, InvitingInv, [InvitationsNext]_invitationVars PROVE InvitingInv'
  OBVIOUS
<1>1. /\ InvitingTypes /\ JobsKnow /\ CreatorsKnow /\ HandedOnce
      /\ ~raced => InOnePlace
      /\ ~dropped => ListedOrUsed
      /\ ~raced /\ ~dropped => ForgottenIsOver
  BY DEF InvitingInv
<1>2. ASSUME NEW k \in Kinds, AnyPrepare(k) PROVE InvitingInv'
  <2>1. (~raced' => ~raced) /\ (~dropped' => ~dropped)
    <3>1. dropped' = dropped
      BY <1>2, PreparesWait, <1>1
    <3>2. PreparedSaved(k) \/ raced' = raced
      BY <1>2 DEF AnyPrepare, prepareStrand, PreparedAlready, PreparedFounded, ReadBeforeSave, PrepareFails
    <3>3. PreparedSaved(k) => (~raced' => ~raced)
      BY DEF PreparedSaved, SavePrepared
    <3> QED BY <3>1, <3>2, <3>3
  <2>2. InvitingTypes' /\ JobsKnow' /\ CreatorsKnow' /\ HandedOnce'
    BY <1>1, <1>2, PreparesTyped, PreparesKnow
  <2>3. ~raced' => InOnePlace'
    BY <1>1, <1>2, <2>1, PreparesApart
  <2>4. ~dropped' => ListedOrUsed'
    BY <1>1, <1>2, <2>1, PreparesListed
  <2>5. ~raced' /\ ~dropped' => ForgottenIsOver'
    BY <1>1, <1>2, <2>1, PreparesForgotten
  <2> QED BY <2>2, <2>3, <2>4, <2>5 DEF InvitingInv
<1>3. ASSUME NEW c \in Creators, AnyCreate(c) PROVE InvitingInv'
  <2>1. (~raced' => ~raced) /\ (~dropped' => ~dropped)
    <3>1. Taken(c) \/ raced' = raced
      BY <1>3 DEF AnyCreate, createInvitation, takePrepared, FoundedNow, Published, CreateFails, RememberReads,
                  RememberStores, NotRemembered
    <3>2. RememberStores(c) \/ dropped' = dropped
      BY <1>3 DEF AnyCreate, createInvitation, takePrepared, Taken, FoundedNow, Published, CreateFails, RememberReads,
                  NotRemembered
    <3>3. (Taken(c) => (~raced' => ~raced)) /\ (RememberStores(c) => (~dropped' => ~dropped))
      BY DEF Taken, SavePrepared, RememberStores, StoreOutgoing
    <3> QED BY <3>1, <3>2, <3>3
  <2>2. InvitingTypes' /\ JobsKnow' /\ CreatorsKnow' /\ HandedOnce'
    BY <1>1, <1>3, CreatesTyped, CreatesKnow
  <2>3. ~raced' => InOnePlace'
    BY <1>1, <1>3, <2>1, CreatesApart
  <2>4. ~dropped' => ListedOrUsed'
    BY <1>1, <1>3, <2>1, CreatesListed
  <2>5. ~raced' /\ ~dropped' => ForgottenIsOver'
    BY <1>1, <1>3, <2>1, CreatesForgotten
  <2> QED BY <2>2, <2>3, <2>4, <2>5 DEF InvitingInv
<1>4. ASSUME AnyOther PROVE InvitingInv'
  <2>1. (~raced' => ~raced) /\ (~dropped' => ~dropped)
    <3>1. raced' = raced
      BY <1>1, <1>4, OthersTyped
    <3>2. ForgetStores \/ ListStores \/ dropped' = dropped
      BY <1>4 DEF AnyOther, Redeemed, OpensAgain, ForgetReads, ListReads, InvitingDies
    <3>3. ForgetStores \/ ListStores => (~dropped' => ~dropped)
      BY DEF ForgetStores, ListStores, StoreOutgoing
    <3> QED BY <3>1, <3>2, <3>3
  <2>2. InvitingTypes' /\ JobsKnow' /\ CreatorsKnow' /\ HandedOnce'
    BY <1>1, <1>4, OthersTyped, OthersKnow
  <2>3. ~raced' => InOnePlace'
    BY <1>1, <1>4, <2>1, OthersApart
  <2>4. ~dropped' => ListedOrUsed'
    BY <1>1, <1>4, <2>1, OthersListed
  <2>5. ~raced' /\ ~dropped' => ForgottenIsOver'
    BY <1>1, <1>4, <2>1, OthersForgotten
  <2> QED BY <2>2, <2>3, <2>4, <2>5 DEF InvitingInv
<1>5. ASSUME UNCHANGED invitationVars PROVE InvitingInv'
  <2>1. InvitingTypes' /\ JobsKnow' /\ CreatorsKnow' /\ HandedOnce'
    BY <1>1, <1>5 DEF invitationVars, InvitingTypes, JobsKnow, CreatorsKnow, HandedOnce, Holds, Noting
  <2>2. InOnePlace => InOnePlace'
    BY <1>5 DEF invitationVars, InOnePlace, PreparedApart, HeldApart, HandedApart, Holds
  <2>3. (ListedOrUsed => ListedOrUsed') /\ (ForgottenIsOver => ForgottenIsOver')
    BY <1>5 DEF invitationVars, ListedOrUsed, ForgottenIsOver, Holds, Noting
  <2>4. raced' = raced /\ dropped' = dropped
    BY <1>5 DEF invitationVars
  <2> QED BY <1>1, <2>1, <2>2, <2>3, <2>4 DEF InvitingInv
<1>6. \/ \E k \in Kinds : AnyPrepare(k)
      \/ \E c \in Creators : AnyCreate(c)
      \/ AnyOther
      \/ UNCHANGED invitationVars
  BY DEF InvitationsNext, AnyPrepare, AnyCreate, AnyOther
<1> QED BY <1>2, <1>3, <1>4, <1>5, <1>6

(* A conversation is handed to one new invitation only, and one with an     *)
(* invitation out is not hidden as prepared; an unused invitation stays     *)
(* listed and a forgotten one does not - unless a slot was written between  *)
(* another's read and write of it.  Whatever is prepared, created, listed,  *)
(* used and forgotten meanwhile, whatever fails and whenever the process    *)
(* dies (model.ts, local-state.ts).                                         *)
THEOREM InvitationsKeptAlone == ASSUME InvitationConstants PROVE InvitingSpec => []InvitationsAreKept
<1>1. InvitingInv => InvitationsAreKept
  <2> SUFFICES ASSUME InvitingInv PROVE InvitationsAreKept
    OBVIOUS
  <2>1. ASSUME ~raced, NEW s \in Conversations, handed[s] # {}
        PROVE  Cardinality(handed[s]) = 1 /\ \A k \in Kinds : prepared[k] # s /\ job[k].id # s
    <3>1. /\ \E c \in Creators : handed[s] = {c}
          /\ \A k \in Kinds : prepared[k] # s /\ job[k].id # s
      BY <2>1 DEF InvitingInv, InOnePlace, HandedApart
    <3> QED BY <3>1, FS_Singleton
  <2>2. ASSUME ~dropped, NEW s \in Conversations, handed[s] # {}, s \notin gone
        PROVE  s \in outgoing \/ \E c \in handed[s] : create[c].pc \in {"notes", "stores"}
    <3>1. s \in outgoing \/ \E c \in Creators : Noting(c) /\ create[c].id = s
      BY <2>2 DEF InvitingInv, ListedOrUsed
    <3> QED BY <3>1 DEF InvitingInv, HandedOnce, Noting
  <2>3. ~dropped /\ ~raced => forgotten \cap outgoing = {}
    BY DEF InvitingInv, ForgottenIsOver
  <2> QED BY <2>1, <2>2, <2>3 DEF InvitationsAreKept
<1> QED BY <1>1, InvitingInitInv, InvitingStep, PTL DEF InvitingSpec

(* What the slots and those who read them hold are conversations founded within the bound. *)
LEMMA InvitationsTyped == ASSUME InvitationConstants PROVE InvitingSpec => []InvitationsTypeOK
<1>1. ASSUME InvitingTypes PROVE InvitationsTypeOK
  <2>1. founded \in Nat /\ founded <= MaxFounded /\ MaxFounded \in Nat
    BY <1>1 DEF InvitingTypes, InvitationConstants
  <2>2. attached \subseteq Conversations
    <3>1. 1 .. founded \subseteq 1 .. MaxFounded BY <2>1
    <3> QED BY <1>1, <3>1 DEF InvitingTypes, Conversations
  <2>3. forgetting \in [of : Conversations \cup {Unset}, seen : SUBSET Conversations]
    <3>1. forgetting \in ForgettingStates BY <1>1 DEF InvitingTypes
    <3>2. NotForgetting \in [of : Conversations \cup {Unset}, seen : SUBSET Conversations]
      BY DEF NotForgetting
    <3> QED BY <3>1, <3>2 DEF ForgettingStates
  <2>4. job \in [Kinds -> [pc : {"idle", "checks", "founds", "reads", "saves"}, seen : Slot,
                          id : Conversations \cup {Unset}]]
    BY <1>1, Zenon DEF InvitingTypes, JobStates
  <2>5. create \in [Creators ->
          [pc : {"idle", "waits", "reads", "saves", "founds", "publishes", "notes", "stores"},
           kind : Kinds \cup {Unset}, seen : Slot, id : Conversations \cup {Unset}, out : SUBSET Conversations]]
    BY <1>1, Zenon DEF InvitingTypes, CreateStates
  <2>6. listing \in [pc : {"idle", "asks"}, seen : SUBSET Conversations]
    BY <1>1, Zenon DEF InvitingTypes, ListingStates
  <2> QED BY <1>1, <2>2, <2>3, <2>4, <2>5, <2>6, Zenon DEF InvitingTypes, InvitationsTypeOK
<1>2. InvitingInv => InvitationsTypeOK BY <1>1 DEF InvitingInv
<1> QED BY <1>2, InvitingInitInv, InvitingStep, PTL DEF InvitingSpec

-----------------------------------------------------------------------------
(***************************************************************************)
(* Composer.                                                               *)
(* WordsAreKept, for any number of texts, of screens and of storage calls. *)
(* The inductive invariant adds that what a screen shows is what the last  *)
(* save there is to come stores, or else counts as lost, and that a screen *)
(* left shows nothing.                                                     *)
(***************************************************************************)
StorageCalls == [op : {"load", "save"}, text : Texts, by : 0 .. MaxMounts]

DraftIsSaved == shown => Typed(draft) \subseteq lost \/ draft = ReadsBack(Len(waiting))

HiddenIsEmpty == IF shown THEN mounts # 0 ELSE draft = Empty

ComposerInv == ComposerTypeOK /\ DraftIsSaved /\ HiddenIsEmpty /\ WordsAreKept

ComposerSpec == ComposerInit /\ [][ComposerNext]_composerVars

(* The last save among the first i of the calls q. *)
SavesIn(q, i) == {j \in 1 .. i : q[j].op # "load"}
IsLast(q, i, j) == j \in SavesIn(q, i) /\ \A k \in SavesIn(q, i) : k <= j

(* What a read that follows the first i of the calls q finds where s is     *)
(* stored: ReadsBack, of any calls.                                         *)
Back(q, s, i) ==
    IF SavesIn(q, i) = {} THEN s
    ELSE q[CHOOSE j \in SavesIn(q, i) : \A k \in SavesIn(q, i) : k <= j].text

LEMMA ReadsBackIsBack ==
    /\ \A i : ReadsBack(i) = Back(waiting, slot, i)
    /\ \A i : ReadsBack(i)' = Back(waiting', slot', i)
    /\ ReadsBack(Len(waiting))' = Back(waiting', slot', Len(waiting'))
BY DEF ReadsBack, Back, SavesIn, Reads

LEMMA LastSave ==
    ASSUME NEW q, NEW i \in Nat, SavesIn(q, i) # {}
    PROVE  \E j : IsLast(q, i, j)
<1> DEFINE S == 1 .. i
           Above(j) == {k \in SavesIn(q, i) : k > j}
           T == {Above(j) : j \in SavesIn(q, i)}
<1>1. T \subseteq FiniteSubsetsOf(S) /\ T # {}
  <2>1. \A A \in SUBSET S : IsFiniteSet(A)
    <3>1. IsFiniteSet(S)
      BY FS_Interval
    <3> QED BY <3>1, FS_Subset
  <2>2. \A j : Above(j) \subseteq S
    BY DEF SavesIn
  <2> QED BY <2>1, <2>2 DEF FiniteSubsetsOf
<1>2. PICK A \in T : \A B \in T : <<B, A>> \notin StrictSubsetOrdering(S)
  <2> HIDE DEF T
  <2> QED BY <1>1, FS_StrictSubsetOrderingWellFounded, WFMin
<1>3. PICK j \in SavesIn(q, i) : A = Above(j)
  OBVIOUS
<1>4. ASSUME NEW k \in SavesIn(q, i), k > j PROVE FALSE
  <2>1. Above(k) \subseteq Above(j) /\ k \in Above(j) /\ k \notin Above(k)
    BY <1>4 DEF SavesIn
  <2>2. Above(k) \in SUBSET S /\ Above(j) \in SUBSET S
    BY DEF SavesIn
  <2>3. <<Above(k), A>> \in StrictSubsetOrdering(S)
    BY <1>3, <2>1, <2>2 DEF StrictSubsetOrdering
  <2> QED BY <1>2, <2>3
<1> QED BY <1>3, <1>4 DEF IsLast, SavesIn

LEMMA BackIs ==
    ASSUME NEW q, NEW s, NEW i \in Nat
    PROVE  /\ SavesIn(q, i) = {} => Back(q, s, i) = s
           /\ \A j : IsLast(q, i, j) => Back(q, s, i) = q[j].text
<1> SUFFICES ASSUME NEW j, IsLast(q, i, j) PROVE Back(q, s, i) = q[j].text
  BY DEF Back
<1> DEFINE c == CHOOSE x \in SavesIn(q, i) : \A k \in SavesIn(q, i) : k <= x
<1>1. c \in SavesIn(q, i) /\ \A k \in SavesIn(q, i) : k <= c
  BY DEF IsLast
<1>2. c = j
  BY <1>1 DEF IsLast, SavesIn
<1> QED BY <1>2 DEF Back, IsLast

(* A call that follows does not change what is found before it. *)
LEMMA BackAppend ==
    ASSUME NEW q \in Seq(StorageCalls), NEW c \in StorageCalls, NEW s
    PROVE  /\ \A i \in 0 .. Len(q) : Back(Append(q, c), s, i) = Back(q, s, i)
           /\ Back(Append(q, c), s, Len(q) + 1) = IF c.op = "load" THEN Back(q, s, Len(q)) ELSE c.text
<1> DEFINE r == Append(q, c)
<1>1. Len(q) \in Nat /\ \A j \in 1 .. Len(q) : r[j] = q[j]
  BY AppendProperties
<1>2. r[Len(q) + 1] = c
  BY AppendProperties
<1> HIDE DEF r
<1>3. ASSUME NEW i \in 0 .. Len(q) PROVE Back(r, s, i) = Back(q, s, i)
  <2>1. SavesIn(r, i) = SavesIn(q, i)
    BY <1>1 DEF SavesIn
  <2>2. i \in Nat
    BY <1>1
  <2>3. CASE SavesIn(q, i) = {}
    BY <2>1, <2>2, <2>3, BackIs
  <2>4. CASE SavesIn(q, i) # {}
    <3>1. PICK j : IsLast(q, i, j)
      BY <2>2, <2>4, LastSave
    <3>2. IsLast(r, i, j)
      BY <2>1, <3>1 DEF IsLast
    <3>3. r[j].text = q[j].text
      BY <1>1, <3>1 DEF IsLast, SavesIn
    <3> QED BY <2>2, <3>1, <3>2, <3>3, BackIs
  <2> QED BY <2>3, <2>4
<1>4. Back(r, s, Len(q) + 1) = IF c.op = "load" THEN Back(q, s, Len(q)) ELSE c.text
  <2> DEFINE n == Len(q)
  <2>1. CASE c.op = "load"
    <3>1. SavesIn(r, n + 1) = SavesIn(r, n)
      BY <1>1, <1>2, <2>1 DEF SavesIn
    <3>2. Back(r, s, n + 1) = Back(r, s, n)
      <4>1. CASE SavesIn(r, n) = {}
        BY <1>1, <3>1, <4>1, BackIs
      <4>2. CASE SavesIn(r, n) # {}
        <5>1. PICK j : IsLast(r, n, j)
          BY <1>1, <4>2, LastSave
        <5>2. IsLast(r, n + 1, j)
          BY <3>1, <5>1 DEF IsLast
        <5> QED BY <1>1, <5>1, <5>2, BackIs
      <4> QED BY <4>1, <4>2
    <3> QED BY <1>1, <1>3, <2>1, <3>2
  <2>2. CASE c.op # "load"
    <3>1. IsLast(r, n + 1, n + 1)
      BY <1>1, <1>2, <2>2 DEF IsLast, SavesIn
    <3>2. Back(r, s, n + 1) = r[n + 1].text
      BY <1>1, <3>1, BackIs
    <3> QED BY <1>2, <2>2, <3>2
  <2> QED BY <2>1, <2>2
<1> QED BY <1>3, <1>4 DEF r

(* The first call done: a read leaves what the others find, and so does a   *)
(* save that stores its text; of one that failed only that text is missing. *)
LEMMA BackTail ==
    ASSUME NEW q \in Seq(StorageCalls), q # <<>>, NEW s, NEW i \in 1 .. Len(q)
    PROVE  /\ Head(q).op = "load" => Back(Tail(q), s, i - 1) = Back(q, s, i)
           /\ Head(q).op # "load" =>
                /\ Back(Tail(q), Head(q).text, i - 1) = Back(q, s, i)
                /\ Back(Tail(q), s, i - 1) = Back(q, s, i) \/ Back(q, s, i) = Head(q).text
<1> DEFINE r == Tail(q)
<1>1. /\ Len(q) \in Nat /\ Len(q) # 0 /\ Head(q) = q[1]
      /\ Len(r) = Len(q) - 1 /\ \A j \in 1 .. Len(q) - 1 : r[j] = q[j + 1]
  BY HeadTailProperties, EmptySeq
<1> HIDE DEF r
<1>2. i \in Nat /\ i - 1 \in Nat
  BY <1>1
<1>3. CASE SavesIn(r, i - 1) # {}
  <2>1. PICK j : IsLast(r, i - 1, j)
    BY <1>2, <1>3, LastSave
  <2>2. j \in 1 .. i - 1 /\ r[j].op # "load" /\ r[j] = q[j + 1]
    BY <1>1, <2>1 DEF IsLast, SavesIn
  <2>3. ASSUME NEW k \in SavesIn(q, i) PROVE k <= j + 1
    <3>1. CASE k = 1
      BY <2>2, <3>1
    <3>2. CASE k # 1
      <4>1. k - 1 \in 1 .. i - 1 /\ r[k - 1] = q[k]
        BY <1>1, <3>2 DEF SavesIn
      <4>2. k - 1 \in SavesIn(r, i - 1)
        BY <4>1 DEF SavesIn
      <4> QED BY <2>1, <2>2, <4>1, <4>2 DEF IsLast
    <3> QED BY <3>1, <3>2
  <2>4. IsLast(q, i, j + 1)
    BY <1>1, <2>2, <2>3 DEF IsLast, SavesIn
  <2>5. \A t : Back(r, t, i - 1) = r[j].text
    BY <1>2, <2>1, BackIs
  <2>6. Back(q, s, i) = q[j + 1].text
    BY <1>2, <2>4, BackIs
  <2> QED BY <2>2, <2>5, <2>6 DEF r
<1>4. CASE SavesIn(r, i - 1) = {}
  <2>1. \A t : Back(r, t, i - 1) = t
    BY <1>2, <1>4, BackIs
  <2>2. SavesIn(q, i) \subseteq {1}
    <3> SUFFICES ASSUME NEW k \in SavesIn(q, i), k # 1 PROVE FALSE
      OBVIOUS
    <3>1. k - 1 \in 1 .. i - 1 /\ r[k - 1] = q[k] /\ q[k].op # "load"
      BY <1>1 DEF SavesIn
    <3>2. k - 1 \in SavesIn(r, i - 1)
      BY <3>1 DEF SavesIn
    <3> QED BY <1>4, <3>2
  <2>3. CASE Head(q).op = "load"
    <3>1. SavesIn(q, i) = {}
      BY <1>1, <2>2, <2>3 DEF SavesIn
    <3> QED BY <1>2, <2>1, <2>3, <3>1, BackIs DEF r
  <2>4. CASE Head(q).op # "load"
    <3>1. IsLast(q, i, 1)
      BY <1>1, <2>2, <2>4 DEF IsLast, SavesIn
    <3>2. Back(q, s, i) = Head(q).text
      BY <1>1, <1>2, <3>1, BackIs
    <3> QED BY <2>1, <2>4, <3>2 DEF r
  <2> QED BY <2>3, <2>4
<1> QED BY <1>3, <1>4

(* A word is in the storage: a screen that opens, or else the next one,     *)
(* reads it.                                                                *)
Stored(q, s, sh, w) ==
    \/ \E i \in 1 .. Len(q) : q[i].op = "load" /\ Back(q, s, i) = w
    \/ ~sh /\ Back(q, s, Len(q)) = w

LEMMA HeldWords ==
    ASSUME NEW w
    PROVE  /\ w \in Held <=> draft = w \/ (\E f \in flights : f.text = w) \/ Stored(waiting, slot, shown, w)
           /\ w \in Held' <=> draft' = w \/ (\E f \in flights' : f.text = w) \/ Stored(waiting', slot', shown', w)
<1>1. w \in Held <=> draft = w \/ (\E f \in flights : f.text = w) \/ Stored(waiting, slot, shown, w)
  BY ReadsBackIsBack DEF Held, Stored, Reads
<1>2. w \in Held' <=> draft' = w \/ (\E f \in flights' : f.text = w) \/ Stored(waiting', slot', shown', w)
  BY ReadsBackIsBack DEF Held, Stored, Reads
<1> QED BY <1>1, <1>2

LEMMA StoredAppend ==
    ASSUME NEW q \in Seq(StorageCalls), NEW c \in StorageCalls, NEW s, NEW w, Stored(q, s, TRUE, w)
    PROVE  Stored(Append(q, c), s, TRUE, w)
<1>1. PICK i \in 1 .. Len(q) : q[i].op = "load" /\ Back(q, s, i) = w
  BY DEF Stored
<1>2. Len(q) \in Nat /\ Append(q, c)[i] = q[i] /\ Len(Append(q, c)) = Len(q) + 1
  BY AppendProperties
<1>3. i \in 0 .. Len(q) /\ i \in 1 .. Len(Append(q, c))
  BY <1>2
<1>4. Back(Append(q, c), s, i) = Back(q, s, i)
  BY <1>3, BackAppend
<1> QED BY <1>1, <1>2, <1>3, <1>4 DEF Stored

LEMMA StoredTail ==
    ASSUME NEW q \in Seq(StorageCalls), q # <<>>, NEW s, NEW sh \in BOOLEAN, NEW w, Stored(q, s, sh, w)
    PROVE  /\ Head(q).op = "load" => Stored(Tail(q), s, sh, w) \/ w = s
           /\ Head(q).op # "load" => /\ Stored(Tail(q), Head(q).text, sh, w)
                                     /\ Stored(Tail(q), s, sh, w) \/ w = Head(q).text
<1>1. /\ Len(q) \in Nat /\ Len(q) # 0 /\ Head(q) = q[1]
      /\ Len(Tail(q)) = Len(q) - 1 /\ \A j \in 1 .. Len(q) - 1 : Tail(q)[j] = q[j + 1]
  BY HeadTailProperties, EmptySeq
<1> DEFINE r == Tail(q)
<1>2. CASE ~sh /\ Back(q, s, Len(q)) = w
  <2>1. Len(q) \in 1 .. Len(q)
    BY <1>1
  <2> QED BY <1>1, <1>2, <2>1, BackTail DEF Stored
<1>3. ASSUME NEW i \in 1 .. Len(q), q[i].op = "load", Back(q, s, i) = w, i # 1
      PROVE  /\ Head(q).op = "load" => Stored(r, s, sh, w)
             /\ Head(q).op # "load" => /\ Stored(r, Head(q).text, sh, w)
                                       /\ Stored(r, s, sh, w) \/ w = Head(q).text
  <2>1. i - 1 \in 1 .. Len(r) /\ r[i - 1].op = "load"
    BY <1>1, <1>3
  <2> HIDE DEF r
  <2>2. \A t : Back(r, t, i - 1) = w => Stored(r, t, sh, w)
    BY <2>1 DEF Stored
  <2> USE DEF r
  <2>3. /\ Head(q).op = "load" => Back(r, s, i - 1) = w
        /\ Head(q).op # "load" => /\ Back(r, Head(q).text, i - 1) = w
                                  /\ Back(r, s, i - 1) = w \/ w = Head(q).text
    BY <1>3, BackTail
  <2> HIDE DEF r
  <2> QED BY <2>2, <2>3
<1>4. ASSUME q[1].op = "load", Back(q, s, 1) = w
      PROVE  Head(q).op = "load" /\ w = s
  <2>1. SavesIn(q, 1) = {}
    BY <1>4 DEF SavesIn
  <2> QED BY <1>1, <1>4, <2>1, BackIs
<1> QED BY <1>2, <1>3, <1>4 DEF Stored

(* What a change of the composer does to the storage. *)
LEMMA DraftIsSet ==
    ASSUME ComposerTypeOK, ComposerConstants, NEW text \in Texts, setDraft(text), slot' = slot
    PROVE  /\ draft' = text /\ waiting' \in Seq(StorageCalls)
           /\ \A w : Stored(waiting, slot, TRUE, w) => Stored(waiting', slot', TRUE, w)
           /\ (text = draft /\ waiting' = waiting) \/ Back(waiting', slot', Len(waiting')) = text
<1>1. Save(text) \in StorageCalls /\ waiting \in Seq(StorageCalls) /\ Save(text).text = text /\ Save(text).op = "save"
  BY DEF Save, StorageCalls, ComposerTypeOK
<1>2. CASE text = draft
  BY <1>1, <1>2 DEF setDraft
<1>3. CASE text # draft
  <2>1. waiting' = Append(waiting, Save(text))
    BY <1>3 DEF setDraft
  <2>2. waiting' \in Seq(StorageCalls) /\ Len(waiting') = Len(waiting) + 1
    BY <1>1, <2>1, AppendProperties
  <2>3. Back(waiting', slot, Len(waiting) + 1) = text
    BY <1>1, <2>1, BackAppend
  <2> QED BY <1>1, <2>1, <2>2, <2>3, StoredAppend DEF setDraft
<1> QED BY <1>2, <1>3

(* So a word that is owed stays where it is, unless the text over it is     *)
(* accounted for.                                                           *)
LEMMA DraftKeeps ==
    ASSUME ComposerConstants, ComposerInv, shown, NEW text \in Texts, setDraft(text), UNCHANGED <<slot, shown, mounts>>,
           lost \subseteq lost',
           \A w \in owed' \ lost' :
              w = text \/ (w \in owed /\ w # draft /\ \A f \in flights : f.text = w => f \in flights')
    PROVE  WordsAreKept' /\ DraftIsSaved' /\ HiddenIsEmpty' /\ draft' \in Texts /\ waiting' \in Seq(StorageCalls)
<1>1. /\ draft' = text /\ waiting' \in Seq(StorageCalls)
      /\ \A w : Stored(waiting, slot, TRUE, w) => Stored(waiting', slot', TRUE, w)
      /\ (text = draft /\ waiting' = waiting) \/ Back(waiting', slot', Len(waiting')) = text
  BY DraftIsSet DEF ComposerInv
<1>2. ASSUME NEW w \in owed' \ lost' PROVE w \in Held'
  <2>1. w \in Held' <=> draft' = w \/ (\E f \in flights' : f.text = w) \/ Stored(waiting', slot', TRUE, w)
    <3>1. shown' = TRUE
      BY DEF ComposerInv, ComposerTypeOK
    <3> QED BY <3>1, HeldWords
  <2>2. CASE w = text
    BY <1>1, <2>1, <2>2
  <2>3. CASE w \in owed /\ w # draft /\ \A f \in flights : f.text = w => f \in flights'
    <3>1. w \in Held
      BY <1>2, <2>3 DEF ComposerInv, WordsAreKept
    <3>2. (\E f \in flights : f.text = w) \/ Stored(waiting, slot, shown, w)
      BY <2>3, <3>1, HeldWords
    <3>3. shown = TRUE
      BY DEF ComposerInv, ComposerTypeOK
    <3> QED BY <1>1, <2>1, <2>3, <3>2, <3>3
  <2> QED BY <1>2, <2>2, <2>3
<1>3. DraftIsSaved'
  <2>1. ReadsBack(Len(waiting))' = Back(waiting', slot', Len(waiting'))
    BY ReadsBackIsBack
  <2>2. CASE Back(waiting', slot', Len(waiting')) = text
    BY <1>1, <2>1, <2>2 DEF DraftIsSaved
  <2>3. CASE text = draft /\ waiting' = waiting
    <3>1. Back(waiting', slot', Len(waiting')) = ReadsBack(Len(waiting))
      BY <2>3, ReadsBackIsBack
    <3> QED BY <1>1, <2>1, <2>3, <3>1 DEF ComposerInv, DraftIsSaved, Typed, Message, Empty
  <2> QED BY <1>1, <2>2, <2>3
<1> QED BY <1>1, <1>2, <1>3 DEF WordsAreKept, HiddenIsEmpty, ComposerInv

-----------------------------------------------------------------------------
LEMMA TextsTyped ==
    ASSUME ComposerConstants
    PROVE  /\ Empty \in Texts /\ Message \in Texts
           /\ \A t \in Texts : Typed(t) \subseteq 1 .. MaxTexts
           /\ \A w \in 1 .. MaxTexts : Typed(w) = {w}
           /\ Typed(Message) = {} /\ Typed(Empty) = {}
BY DEF ComposerConstants, Typed, Texts, Empty, Message

LEMMA ComposerInitInv == ComposerConstants /\ ComposerInit => ComposerInv
<1> SUFFICES ASSUME ComposerConstants, ComposerInit PROVE ComposerInv
  OBVIOUS
<1>1. ComposerTypeOK
  <2>1. Empty \in Texts
    BY DEF ComposerConstants, Texts, Empty, Message
  <2>2. waiting \in Seq([op : {"load", "save"}, text : Texts, by : 0 .. MaxMounts])
    BY EmptySeq DEF ComposerInit
  <2>3. mounts \in 0 .. MaxMounts /\ texts \in 0 .. MaxTexts
    BY DEF ComposerInit, ComposerConstants
  <2> QED BY <2>1, <2>2, <2>3 DEF ComposerInit, ComposerTypeOK
<1> QED BY <1>1 DEF ComposerInit, ComposerInv, DraftIsSaved, HiddenIsEmpty, WordsAreKept

LEMMA TwoAppended ==
    ASSUME NEW S, NEW q \in Seq(S), NEW x \in S, NEW y \in S
    PROVE  q \o <<x, y>> = Append(Append(q, x), y)
<1> DEFINE t == <<x, y>>
           r == Append(q, x)
<1>1. t \in Seq(S) /\ Len(t) = 2 /\ t[1] = x /\ t[2] = y
  OBVIOUS
<1>2. r \in Seq(S) /\ Len(r) = Len(q) + 1 /\ r[Len(q) + 1] = x /\ \A i \in 1 .. Len(q) : r[i] = q[i]
  BY AppendProperties
<1>3. Len(q) \in Nat
  OBVIOUS
<1> HIDE DEF t, r
<1>4. /\ q \o t \in Seq(S) /\ Len(q \o t) = Len(q) + 2
      /\ \A i \in 1 .. Len(q) + 2 : (q \o t)[i] = IF i <= Len(q) THEN q[i] ELSE t[i - Len(q)]
  <2>1. /\ q \o t \in Seq(S) /\ Len(q \o t) = Len(q) + Len(t)
        /\ \A i \in 1 .. Len(q) + Len(t) : (q \o t)[i] = IF i <= Len(q) THEN q[i] ELSE t[i - Len(q)]
    BY <1>1, ConcatProperties
  <2> QED BY <1>1, <2>1
<1>5. /\ Append(r, y) \in Seq(S) /\ Len(Append(r, y)) = Len(q) + 2
      /\ Append(r, y)[Len(q) + 2] = y /\ \A i \in 1 .. Len(q) + 1 : Append(r, y)[i] = r[i]
  BY <1>2, <1>3, AppendProperties
<1>6. ASSUME NEW i \in 1 .. Len(q) + 2 PROVE (q \o t)[i] = Append(r, y)[i]
  <2>1. CASE i <= Len(q)
    BY <1>2, <1>3, <1>4, <1>5, <2>1
  <2>2. CASE i = Len(q) + 1
    BY <1>1, <1>2, <1>3, <1>4, <1>5, <2>2
  <2>3. CASE i = Len(q) + 2
    BY <1>1, <1>2, <1>3, <1>4, <1>5, <2>3
  <2>4. i <= Len(q) \/ i = Len(q) + 1 \/ i = Len(q) + 2
    BY <1>3
  <2> QED BY <2>1, <2>2, <2>3, <2>4
<1>7. q \o t = Append(r, y)
  BY <1>4, <1>5, <1>6, SeqEqual
<1> QED BY <1>7 DEF t, r

(* The screen that opens asks for the draft before it saves: what was       *)
(* stored for the next screen is what this one will read.                   *)
LEMMA MountKeeps == ASSUME ComposerConstants, ComposerInv, Mount PROVE ComposerInv'
<1> DEFINE c == [op |-> "load", text |-> Empty, by |-> mounts']
           d == [op |-> "save", text |-> Empty, by |-> mounts']
           q == Append(waiting, c)
<1>0. ComposerTypeOK /\ MaxTexts \in Nat /\ MaxMounts \in Nat
  BY DEF ComposerInv, ComposerConstants
<1>1. /\ ~shown /\ shown' = TRUE /\ draft' = Empty /\ draft = Empty /\ mounts' = mounts + 1
      /\ mounts' \in 0 .. MaxMounts /\ mounts' # 0 /\ editing' = FALSE
      /\ waiting' = waiting \o <<c, d>> /\ UNCHANGED <<slot, flights, texts, owed, lost>>
  <2>1. Load = c /\ [Save(Empty) EXCEPT !.by = mounts'] = d
    BY DEF Load, Save
  <2>2. ~shown /\ mounts < MaxMounts /\ mounts' = mounts + 1 /\ mounts \in 0 .. MaxMounts /\ shown \in BOOLEAN
    BY <1>0 DEF Mount, ComposerTypeOK
  <2>3. mounts' \in 0 .. MaxMounts /\ mounts' # 0
    BY <1>0, <2>2
  <2> QED BY <2>1, <2>2, <2>3 DEF Mount, ComposerInv, HiddenIsEmpty
<1>2. c \in StorageCalls /\ d \in StorageCalls /\ waiting \in Seq(StorageCalls)
  BY <1>0, <1>1 DEF StorageCalls, Texts, Empty, Message, ComposerTypeOK
<1>3. q \in Seq(StorageCalls) /\ Len(q) = Len(waiting) + 1 /\ Len(waiting) \in Nat /\ q[Len(q)] = c
  BY <1>2, AppendProperties
<1>4. waiting' = Append(q, d)
  BY <1>1, <1>2, TwoAppended
<1>5. waiting' \in Seq(StorageCalls) /\ Len(waiting') = Len(q) + 1
  BY <1>2, <1>3, <1>4, AppendProperties
<1>6. Back(waiting', slot', Len(waiting')) = Empty
  <2>1. Back(Append(q, d), slot, Len(q) + 1) = Empty
    BY <1>2, <1>3, BackAppend
  <2> QED BY <1>1, <1>4, <1>5, <2>1
<1>7. ASSUME NEW w, Stored(waiting, slot, shown, w) PROVE Stored(waiting', slot', TRUE, w)
  <2>1. Stored(q, slot, TRUE, w)
    <3>1. CASE Back(waiting, slot, Len(waiting)) = w
      <4>1. Back(q, slot, Len(q)) = w
        BY <1>2, <1>3, <3>1, BackAppend
      <4>2. q[Len(q)].op = "load" /\ Len(q) \in 1 .. Len(q)
        BY <1>3
      <4> QED BY <4>1, <4>2 DEF Stored
    <3>2. CASE Stored(waiting, slot, TRUE, w)
      BY <1>2, <3>2, StoredAppend
    <3> QED BY <1>7, <3>1, <3>2 DEF Stored
  <2> QED BY <1>1, <1>2, <1>3, <1>4, <2>1, StoredAppend
<1>8. ComposerTypeOK'
  BY <1>0, <1>1, <1>5 DEF ComposerTypeOK, StorageCalls, Texts, Empty, Message
<1>9. WordsAreKept'
  <2> SUFFICES ASSUME NEW w \in owed \ lost PROVE w \in Held'
    BY <1>1 DEF WordsAreKept
  <2>1. w \in Held
    BY DEF ComposerInv, WordsAreKept
  <2> QED BY <1>1, <1>7, <2>1, HeldWords
<1>10. DraftIsSaved'
  BY <1>1, <1>6, ReadsBackIsBack DEF DraftIsSaved
<1> QED BY <1>1, <1>8, <1>9, <1>10 DEF ComposerInv, HiddenIsEmpty

(* The first call done, whatever it was: what was typed stays, or counts as *)
(* lost.                                                                    *)
LEMMA LoadKeeps == ASSUME ComposerConstants, ComposerInv, NEW fails \in BOOLEAN, LoadReturns(fails) PROVE ComposerInv'
<1> DEFINE q == Tail(waiting)
           text == IF fails THEN Empty ELSE slot
           read == (shown /\ Head(waiting).by = mounts) /\ text # Empty
<1>0. ComposerTypeOK /\ MaxTexts \in Nat /\ MaxMounts \in Nat /\ waiting \in Seq(StorageCalls) /\ waiting # <<>>
  BY DEF ComposerInv, ComposerConstants, ComposerTypeOK, StorageCalls, LoadReturns
<1>1. /\ Head(waiting).op = "load"
      /\ draft' = IF read THEN text ELSE draft
      /\ waiting' = IF read /\ text # draft THEN Append(q, Save(text)) ELSE q
      /\ lost' = lost \cup (IF read THEN Typed(draft) \ {text} ELSE Typed(slot))
      /\ UNCHANGED <<mounts, shown, editing, slot, flights, texts, owed>>
  BY DEF LoadReturns
<1>2. /\ q \in Seq(StorageCalls) /\ Len(q) = Len(waiting) - 1 /\ Len(waiting) \in Nat /\ Len(waiting) # 0
  BY <1>0, HeadTailProperties, EmptySeq
<1>3. Save(text) \in StorageCalls /\ Save(text).op # "load" /\ Save(text).text = text /\ text \in Texts
  BY <1>0 DEF Save, StorageCalls, ComposerTypeOK, Texts, Empty, Message
<1>4. \A w : Stored(waiting, slot, shown, w) => Stored(q, slot, shown, w) \/ w = slot
  BY <1>0, <1>1, StoredTail DEF ComposerTypeOK
<1>5. Back(q, slot, Len(q)) = Back(waiting, slot, Len(waiting))
  <2>1. Len(waiting) \in 1 .. Len(waiting)
    BY <1>2
  <2> QED BY <1>0, <1>1, <1>2, <2>1, BackTail
<1> HIDE DEF q
<1>6. CASE ~read
  <2>1. UNCHANGED draft /\ waiting' = q /\ lost' = lost \cup Typed(slot)
    BY <1>1, <1>6
  <2>2. ComposerTypeOK'
    BY <1>0, <1>1, <1>2, <2>1 DEF ComposerTypeOK, StorageCalls, Typed, Texts, Empty, Message
  <2>3. DraftIsSaved'
    BY <1>1, <1>5, <2>1, ReadsBackIsBack DEF DraftIsSaved, ComposerInv
  <2>4. WordsAreKept'
    <3> SUFFICES ASSUME NEW w \in owed \ lost' PROVE w \in Held'
      BY <1>1 DEF WordsAreKept
    <3>1. w \in Held /\ w # slot
      BY <1>0, <2>1 DEF ComposerInv, WordsAreKept, Typed, ComposerTypeOK, Empty, Message
    <3> QED BY <1>1, <1>4, <2>1, <3>1, HeldWords
  <2> QED BY <1>1, <2>1, <2>2, <2>3, <2>4 DEF ComposerInv, HiddenIsEmpty
<1>7. CASE read
  <2>1. shown = TRUE /\ text = slot /\ draft' = slot /\ lost' = lost \cup (Typed(draft) \ {slot})
    BY <1>0, <1>1, <1>7 DEF ComposerTypeOK
  <2>2. /\ waiting' \in Seq(StorageCalls)
        /\ \A w : Stored(q, slot, TRUE, w) => Stored(waiting', slot, TRUE, w)
        /\ draft' # draft => Back(waiting', slot, Len(waiting')) = slot
        /\ draft' = draft => waiting' = q
    <3>1. CASE text # draft
      <4>1. waiting' = Append(q, Save(text))
        BY <1>1, <1>7, <3>1
      <4>2. waiting' \in Seq(StorageCalls) /\ Len(waiting') = Len(q) + 1
        BY <1>2, <1>3, <4>1, AppendProperties
      <4>3. Back(Append(q, Save(text)), slot, Len(q) + 1) = text
        BY <1>2, <1>3, BackAppend
      <4>4. \A w : Stored(q, slot, TRUE, w) => Stored(waiting', slot, TRUE, w)
        BY <1>2, <1>3, <4>1, StoredAppend
      <4> QED BY <2>1, <3>1, <4>1, <4>2, <4>3, <4>4
    <3>2. CASE text = draft
      BY <1>1, <1>2, <2>1, <3>2
    <3> QED BY <3>1, <3>2
  <2>3. ComposerTypeOK'
    BY <1>0, <1>1, <2>1, <2>2 DEF ComposerTypeOK, StorageCalls, Typed, Texts, Empty, Message
  <2>4. DraftIsSaved'
    BY <1>1, <1>5, <2>1, <2>2, ReadsBackIsBack DEF DraftIsSaved, ComposerInv
  <2>5. WordsAreKept'
    <3> SUFFICES ASSUME NEW w \in owed \ lost' PROVE w \in Held'
      BY <1>1 DEF WordsAreKept
    <3>1. w \in Held /\ (w = draft => w = slot)
      BY <1>0, <2>1 DEF ComposerInv, WordsAreKept, Typed, ComposerTypeOK, Empty, Message
    <3> QED BY <1>1, <1>4, <2>1, <2>2, <3>1, HeldWords
  <2> QED BY <1>1, <2>1, <2>3, <2>4, <2>5 DEF ComposerInv, HiddenIsEmpty
<1> QED BY <1>6, <1>7

LEMMA SaveKeeps == ASSUME ComposerConstants, ComposerInv, NEW fails \in BOOLEAN, SaveLands(fails) PROVE ComposerInv'
<1> DEFINE q == Tail(waiting)
           text == Head(waiting).text
<1>0. ComposerTypeOK /\ MaxTexts \in Nat /\ waiting \in Seq(StorageCalls) /\ waiting # <<>>
  BY DEF ComposerInv, ComposerConstants, ComposerTypeOK, StorageCalls, SaveLands
<1>1. /\ Head(waiting).op # "load" /\ waiting' = q
      /\ slot' = IF fails THEN slot ELSE text
      /\ lost' = IF fails THEN lost \cup Typed(text) ELSE lost
      /\ UNCHANGED <<mounts, shown, draft, editing, flights, texts, owed>>
  BY DEF SaveLands
<1>2. /\ q \in Seq(StorageCalls) /\ Len(q) = Len(waiting) - 1 /\ Len(waiting) \in Nat /\ Len(waiting) # 0
      /\ Head(waiting) \in StorageCalls
  BY <1>0, HeadTailProperties, EmptySeq
<1>3. text \in Texts
  BY <1>2 DEF StorageCalls
<1>4. \A w : Stored(waiting, slot, shown, w) => Stored(q, text, shown, w) /\ (Stored(q, slot, shown, w) \/ w = text)
  BY <1>0, <1>1, StoredTail DEF ComposerTypeOK
<1>5. /\ Back(q, text, Len(q)) = Back(waiting, slot, Len(waiting))
      /\ Back(q, slot, Len(q)) = Back(waiting, slot, Len(waiting)) \/ Back(waiting, slot, Len(waiting)) = text
  <2>1. Len(waiting) \in 1 .. Len(waiting)
    BY <1>2
  <2> QED BY <1>0, <1>1, <1>2, <2>1, BackTail
<1> HIDE DEF q, text
<1>6. ComposerTypeOK'
  BY <1>0, <1>1, <1>2, <1>3 DEF ComposerTypeOK, StorageCalls, Typed, Texts, Empty, Message
<1>7. DraftIsSaved'
  <2>1. DraftIsSaved
    BY DEF ComposerInv
  <2>2. CASE ~fails
    BY <1>1, <1>5, <2>1, <2>2, ReadsBackIsBack DEF DraftIsSaved
  <2>3. CASE fails
    <3>1. slot' = slot /\ lost' = lost \cup Typed(text)
      BY <1>1, <2>3
    <3> QED BY <1>1, <1>5, <2>1, <3>1, ReadsBackIsBack DEF DraftIsSaved
  <2> QED BY <2>2, <2>3
<1>8. WordsAreKept'
  <2> SUFFICES ASSUME NEW w \in owed \ lost' PROVE w \in Held'
    BY <1>1 DEF WordsAreKept
  <2>1. w \in Held /\ (fails => w # text)
    BY <1>0, <1>1 DEF ComposerInv, WordsAreKept, Typed, ComposerTypeOK, Empty, Message
  <2> QED BY <1>1, <1>4, <2>1, HeldWords
<1> QED BY <1>1, <1>6, <1>7, <1>8 DEF ComposerInv, HiddenIsEmpty

(* What the user does on the screen. *)
LEMMA TypeKeeps == ASSUME ComposerConstants, ComposerInv, NEW clears \in BOOLEAN, Type(clears) PROVE ComposerInv'
<1> DEFINE text == IF clears THEN Empty ELSE texts + 1
<1>1. /\ shown /\ setDraft(text) /\ draft' = text
      /\ texts' \in 0 .. MaxTexts /\ text \in Texts /\ text # Message
      /\ owed' = (owed \ {draft}) \cup Typed(text)
      /\ UNCHANGED <<mounts, shown, editing, slot, flights, lost>>
  BY DEF Type, Acts, setDraft, ComposerInv, ComposerTypeOK, ComposerConstants, Texts, Empty, Message
<1> HIDE DEF text
<1>2. \A w \in owed' \ lost' : w = text \/ (w \in owed /\ w # draft)
  BY <1>1 DEF Typed
<1>3. WordsAreKept' /\ DraftIsSaved' /\ HiddenIsEmpty' /\ draft' \in Texts /\ waiting' \in Seq(StorageCalls)
  BY <1>1, <1>2, DraftKeeps
<1>4. Typed(text) \subseteq 1 .. MaxTexts
  BY <1>1 DEF Typed, Texts, Empty, Message, ComposerConstants
<1>5. ComposerTypeOK'
  BY <1>1, <1>3, <1>4 DEF ComposerInv, ComposerTypeOK, StorageCalls
<1> QED BY <1>3, <1>5 DEF ComposerInv

LEMMA SendKeeps == ASSUME ComposerConstants, ComposerInv, doSend PROVE ComposerInv'
<1> DEFINE f == [text |-> draft, edits |-> editing, by |-> mounts]
<1>0. ComposerTypeOK /\ MaxTexts \in Nat /\ MaxMounts \in Nat
  BY DEF ComposerInv, ComposerConstants
<1>1. /\ shown /\ setDraft(Empty) /\ draft' = Empty /\ flights' = flights \cup {f} /\ editing' = FALSE
      /\ UNCHANGED <<mounts, shown, slot, texts, owed, lost>>
  BY DEF doSend, Acts, setDraft
<1>2. f \in Flight /\ Empty \in Texts
  <2>1. mounts \in 1 .. MaxMounts
    BY <1>0, <1>1 DEF ComposerInv, HiddenIsEmpty, ComposerTypeOK
  <2> QED BY <1>0, <2>1 DEF Flight, ComposerTypeOK, Texts, Empty, Message
<1>3. ASSUME NEW w \in owed \ lost PROVE w \in Held'
  <2>1. w \in Held /\ shown = TRUE
    BY <1>0, <1>1 DEF ComposerInv, WordsAreKept, ComposerTypeOK
  <2>2. \A x : Stored(waiting, slot, TRUE, x) => Stored(waiting', slot', TRUE, x)
    BY <1>0, <1>1, <1>2, DraftIsSet
  <2>3. CASE w = draft
    <3>1. f \in flights' /\ f.text = w
      BY <1>1, <2>3
    <3> QED BY <3>1, HeldWords
  <2>4. CASE w # draft
    BY <1>1, <2>1, <2>2, <2>4, HeldWords
  <2> QED BY <2>3, <2>4
<1>4. DraftIsSaved' /\ HiddenIsEmpty'
  BY <1>1 DEF DraftIsSaved, HiddenIsEmpty, ComposerInv, Typed
<1>5. waiting' \in Seq(StorageCalls)
  BY <1>0, <1>1, <1>2, DraftIsSet
<1>6. ComposerTypeOK'
  BY <1>0, <1>1, <1>2, <1>5 DEF ComposerTypeOK, StorageCalls
<1> QED BY <1>1, <1>3, <1>4, <1>6 DEF ComposerInv, WordsAreKept

LEMMA FlightsEnd ==
    ASSUME ComposerConstants, ComposerInv, NEW f \in flights, Sent(f) \/ SendFails(f)
    PROVE  ComposerInv'
<1>0. ComposerTypeOK /\ MaxTexts \in Nat /\ f.text \in Texts /\ f \in Flight
  BY DEF ComposerInv, ComposerConstants, ComposerTypeOK, Flight
<1>1. flights' = flights \ {f} /\ UNCHANGED <<mounts, shown, slot, texts>>
  BY DEF Sent, SendFails
<1>2. ASSUME UNCHANGED <<draft, editing, waiting>>, lost \subseteq lost', lost' \subseteq 1 .. MaxTexts,
             owed' \subseteq owed, f.text \notin owed' \ lost'
      PROVE  ComposerInv'
  <2>1. ComposerTypeOK' /\ HiddenIsEmpty'
    BY <1>0, <1>1, <1>2 DEF ComposerTypeOK, ComposerInv, HiddenIsEmpty
  <2>2. DraftIsSaved'
    BY <1>1, <1>2, ReadsBackIsBack DEF ComposerInv, DraftIsSaved
  <2>3. ASSUME NEW w \in owed' \ lost' PROVE w \in Held'
    <3>1. w \in Held /\ w # f.text
      BY <1>2 DEF ComposerInv, WordsAreKept
    <3> QED BY <1>1, <1>2, <3>1, HeldWords
  <2> QED BY <2>1, <2>2, <2>3 DEF ComposerInv, WordsAreKept
<1>3. CASE Sent(f)
  <2>1. f.text \notin owed' \ lost' /\ UNCHANGED <<draft, editing, waiting, lost>> /\ owed' \subseteq owed
    BY <1>3 DEF Sent
  <2> QED BY <1>0, <1>2, <2>1 DEF ComposerTypeOK
<1>4. CASE SendFails(f) /\ ~(shown /\ f.by = mounts)
  <2>1. UNCHANGED <<draft, editing, waiting, owed>> /\ lost' = lost \cup Typed(f.text)
    BY <1>4 DEF SendFails
  <2>2. f.text \notin owed \ lost' /\ lost' \subseteq 1 .. MaxTexts
    BY <1>0, <2>1, TextsTyped DEF ComposerTypeOK
  <2> QED BY <1>2, <2>1, <2>2
<1>5. CASE SendFails(f) /\ shown /\ f.by = mounts
  <2>1. /\ setDraft(f.text) /\ editing' = (editing \/ f.edits)
        /\ lost' = lost \cup (Typed(draft) \ {f.text}) /\ owed' = owed
    BY <1>5 DEF SendFails
  <2>2. ASSUME NEW w \in owed' \ lost'
        PROVE  w = f.text \/ (w \in owed /\ w # draft /\ \A g \in flights : g.text = w => g \in flights')
    <3>1. w \in owed /\ w \in 1 .. MaxTexts /\ w \notin Typed(draft) \ {f.text}
      BY <1>0, <2>1, <2>2 DEF ComposerTypeOK
    <3>2. w = draft => w = f.text
      BY <3>1, TextsTyped
    <3> QED BY <1>1, <3>1, <3>2
  <2>3. WordsAreKept' /\ DraftIsSaved' /\ HiddenIsEmpty' /\ draft' \in Texts /\ waiting' \in Seq(StorageCalls)
    BY <1>0, <1>1, <1>5, <2>1, <2>2, DraftKeeps
  <2>4. editing' \in BOOLEAN
    BY <1>0, <2>1 DEF ComposerTypeOK, Flight
  <2>5. lost' \subseteq 1 .. MaxTexts
    BY <1>0, <2>1, TextsTyped DEF ComposerTypeOK
  <2>6. ComposerTypeOK'
    BY <1>0, <1>1, <2>1, <2>3, <2>4, <2>5 DEF ComposerTypeOK, StorageCalls
  <2> QED BY <2>3, <2>6 DEF ComposerInv
<1> QED BY <1>3, <1>4, <1>5

LEMMA EditKeeps == ASSUME ComposerConstants, ComposerInv, Edit \/ CancelEdit PROVE ComposerInv'
<1>0. ComposerTypeOK /\ MaxTexts \in Nat
  BY DEF ComposerInv, ComposerConstants
<1>1. /\ shown /\ UNCHANGED <<mounts, shown, slot, flights, texts>> /\ editing' \in BOOLEAN
      /\ lost \subseteq lost' /\ lost' \subseteq 1 .. MaxTexts /\ owed' \subseteq owed
      /\ draft \notin owed' \ lost'
  <2>1. CASE Edit
    <3>1. lost' = lost \cup Typed(draft) /\ UNCHANGED <<mounts, shown, slot, flights, texts, owed>>
          /\ editing' = TRUE /\ shown
      BY <2>1 DEF Edit, Acts
    <3>2. Typed(draft) \subseteq 1 .. MaxTexts /\ (draft \in owed => draft \in Typed(draft))
      BY <1>0, TextsTyped DEF ComposerTypeOK
    <3> QED BY <1>0, <3>1, <3>2 DEF ComposerTypeOK
  <2>2. CASE CancelEdit
    BY <1>0, <2>2 DEF CancelEdit, Acts, ComposerTypeOK
  <2> QED BY <2>1, <2>2
<1>2. PICK text \in Texts : setDraft(text)
  BY TextsTyped DEF Edit, CancelEdit
<1>3. \A w \in owed' \ lost' : w \in owed /\ w # draft
  BY <1>1
<1>4. WordsAreKept' /\ DraftIsSaved' /\ HiddenIsEmpty' /\ draft' \in Texts /\ waiting' \in Seq(StorageCalls)
  BY <1>1, <1>2, <1>3, DraftKeeps
<1>5. ComposerTypeOK'
  BY <1>0, <1>1, <1>4 DEF ComposerTypeOK, StorageCalls
<1> QED BY <1>4, <1>5 DEF ComposerInv

(* The screen is left: what it showed is what was saved. *)
LEMMA UnmountKeeps == ASSUME ComposerConstants, ComposerInv, Unmount PROVE ComposerInv'
<1>0. ComposerTypeOK /\ MaxTexts \in Nat
  BY DEF ComposerInv, ComposerConstants
<1>1. /\ shown /\ shown' = FALSE /\ draft' = Empty /\ editing' = FALSE
      /\ UNCHANGED <<mounts, slot, waiting, flights, texts, owed, lost>>
  BY DEF Unmount
<1>2. ASSUME NEW w \in owed \ lost PROVE w \in Held'
  <2>1. w \in Held /\ w \in 1 .. MaxTexts
    BY <1>0 DEF ComposerInv, WordsAreKept, ComposerTypeOK
  <2>2. CASE w = draft
    <3>1. w = Back(waiting, slot, Len(waiting))
      BY <1>1, <1>0, <1>2, <2>1, <2>2, ReadsBackIsBack DEF ComposerInv, DraftIsSaved, Typed, Empty, Message
    <3> QED BY <1>1, <3>1, HeldWords DEF Stored
  <2>3. CASE w # draft
    BY <1>1, <2>1, <2>3, HeldWords DEF Stored
  <2> QED BY <2>2, <2>3
<1>3. ComposerTypeOK'
  BY <1>0, <1>1, TextsTyped DEF ComposerTypeOK
<1> QED BY <1>1, <1>2, <1>3 DEF ComposerInv, WordsAreKept, DraftIsSaved, HiddenIsEmpty

LEMMA CrashKeeps == ASSUME ComposerConstants, ComposerInv, ComposerDies PROVE ComposerInv'
<1>0. ComposerTypeOK /\ MaxTexts \in Nat
  BY DEF ComposerInv, ComposerConstants
<1>1. /\ shown' = FALSE /\ draft' = Empty /\ editing' = FALSE /\ waiting' = <<>> /\ flights' = {}
      /\ lost' = lost \cup (owed \ {slot}) /\ UNCHANGED <<mounts, slot, texts, owed>>
  BY DEF ComposerDies
<1>2. ASSUME NEW w \in owed \ lost' PROVE w \in Held'
  <2>1. w = slot
    BY <1>1
  <2>2. Len(waiting') = 0 /\ SavesIn(waiting', 0) = {}
    BY <1>1 DEF SavesIn
  <2>3. Back(waiting', slot', Len(waiting')) = slot
    BY <1>1, <2>2, BackIs
  <2> QED BY <1>1, <2>1, <2>3, HeldWords DEF Stored
<1>3. waiting' \in Seq(StorageCalls)
  BY <1>1, EmptySeq
<1>4. ComposerTypeOK'
  <2>1. lost' \subseteq 1 .. MaxTexts
    BY <1>0, <1>1 DEF ComposerTypeOK
  <2> QED BY <1>0, <1>1, <1>3, <2>1, TextsTyped DEF ComposerTypeOK, StorageCalls
<1> QED BY <1>1, <1>2, <1>4 DEF ComposerInv, WordsAreKept, DraftIsSaved, HiddenIsEmpty

LEMMA ComposerStep == ASSUME ComposerConstants, ComposerInv, [ComposerNext]_composerVars PROVE ComposerInv'
<1>1. CASE UNCHANGED composerVars
  <2>1. ReadsBack(Len(waiting))' = ReadsBack(Len(waiting)) /\ Held' = Held
    BY <1>1 DEF composerVars, ReadsBack, Held, Reads
  <2>2. ComposerTypeOK' /\ HiddenIsEmpty'
    BY <1>1 DEF composerVars, ComposerInv, ComposerTypeOK, HiddenIsEmpty
  <2> QED BY <1>1, <2>1, <2>2 DEF composerVars, ComposerInv, DraftIsSaved, WordsAreKept
<1> QED BY <1>1, MountKeeps, LoadKeeps, SaveKeeps, TypeKeeps, SendKeeps, FlightsEnd, EditKeeps, UnmountKeeps,
           CrashKeeps DEF ComposerNext

(* What was typed and neither changed nor sent is in the composer, on its   *)
(* way, or where the next screen reads it (ChatInterface.tsx:150, 209),     *)
(* for any texts, screens and calls of the storage.                         *)
THEOREM ComposerKeepsAlone == ASSUME ComposerConstants PROVE ComposerSpec => []WordsAreKept
<1>1. ComposerInv => WordsAreKept
  BY DEF ComposerInv
<1> QED BY <1>1, ComposerInitInv, ComposerStep, PTL DEF ComposerSpec

LEMMA ComposerTyped == ASSUME ComposerConstants PROVE ComposerSpec => []ComposerTypeOK
<1>1. ComposerInv => ComposerTypeOK
  BY DEF ComposerInv
<1> QED BY <1>1, ComposerInitInv, ComposerStep, PTL DEF ComposerSpec

-----------------------------------------------------------------------------
(***************************************************************************)
(* Writing.                                                                *)
(* WritesAreWhole, for any devices, any number of calls and of attempts,   *)
(* whatever they have heard of each other and whatever is refused.  The    *)
(* inductive invariant adds that a row comes from the last attempt of a    *)
(* send that is over, and that only such rows are written about: so        *)
(* nothing but a refused delete puts back what was deleted.                *)
(***************************************************************************)
IsSend(n) == n \in Calls /\ writings[n].op = "send"
Over(n) == writings[n].at \in {"done", "failed", "refused"}

RowsAreOfSends == \A m \in inserted :
    /\ IsSend(m[1]) /\ writings[m[1]].try = m[2]
    /\ writings[m[1]].at # "done" => writings[m[1]].at = "failed" /\ m[1] \in unclear

AboutWhatWasSent == \A n \in Calls : writings[n].op # "send" => IsSend(On(n)[1]) /\ Over(On(n)[1])

OnlyDeletesGoOn == \A n \in Calls : writings[n].at = "between" => writings[n].op = "delete"

ErasedAreDeletes ==
    /\ \A d \in erased : d \in Calls /\ writings[d].op = "delete" /\ writings[d].at \in {"done", "failed"}
    /\ \A n \in Calls : At(n, "delete", "done") => n \in erased

ReactionsRest == \A r \in reactions : r[1] \in messages \cup apart

(* What the reactions of a message that is there are kept by. *)
Between(m) == \E k \in Calls : At(k, "delete", "between") /\ On(k) = m
Accounted(r) == r \in reactions \/ r[1] \notin messages \/ r[1] \in stripped \/ Between(r[1])

GivenStay == \A r \in given : IsSend(r[1][1]) /\ Over(r[1][1]) /\ Accounted(r)

WritingInv ==
    /\ WritingConstants /\ WritingTypeOK
    /\ RowsAreOfSends /\ AboutWhatWasSent /\ OnlyDeletesGoOn /\ ErasedAreDeletes
    /\ ReactionsRest /\ GivenStay

WritingSpec == WritingInit /\ [][WritingNext]_writingVars

LEMMA WritingInitInv == WritingConstants /\ WritingInit => WritingInv
<1> SUFFICES ASSUME WritingConstants, WritingInit PROVE WritingInv
  OBVIOUS
<1>1. writings \in Seq(Writing) /\ Len(writings) = 0 /\ Calls = {}
  BY EmptySeq DEF WritingInit, Calls
<1>2. WritingTypeOK
  BY <1>1 DEF WritingInit, WritingTypeOK, WritingConstants
<1> QED BY <1>1, <1>2 DEF WritingInv, WritingInit, RowsAreOfSends, AboutWhatWasSent, OnlyDeletesGoOn,
                          ErasedAreDeletes, ReactionsRest, GivenStay

(* A call that goes on changes its own record only. *)
Goes(n) ==
    /\ writings' \in Seq(Writing) /\ Len(writings') = Len(writings) /\ Calls' = Calls
    /\ writings'[n].op = writings[n].op /\ writings'[n].on = writings[n].on
    /\ \A k \in Calls : k # n => writings'[k] = writings[k]

LEMMA RecordReplaced ==
    ASSUME WritingInv, NEW n \in Calls, NEW w \in Writing, w.op = writings[n].op, w.on = writings[n].on,
           writings' = [writings EXCEPT ![n] = w]
    PROVE  Goes(n) /\ writings'[n] = w
<1>1. writings \in Seq(Writing) /\ n \in 1 .. Len(writings)
  BY DEF WritingInv, WritingTypeOK, Calls
<1> DEFINE q == [writings EXCEPT ![n] = w]
<1>2. q \in Seq(Writing) /\ Len(q) = Len(writings)
  BY <1>1, ExceptSeq
<1>3. \A j \in 1 .. Len(writings) : q[j] = IF j = n THEN w ELSE writings[j]
  BY <1>1, ExceptSeq
<1> HIDE DEF q
<1>4. writings' = q
  BY DEF q
<1> QED BY <1>1, <1>2, <1>3, <1>4 DEF Calls, Goes

LEMMA CallsAreTyped == ASSUME WritingInv, NEW n \in Calls PROVE writings[n] \in Writing
BY ElementOfSeq DEF WritingInv, WritingTypeOK, Calls

Stages == {"begun", "between", "done", "failed", "void", "refused"}

LEMMA CallEnds ==
    ASSUME WritingInv, NEW n \in Calls, NEW at \in Stages, Ends(n, at)
    PROVE  Goes(n) /\ writings'[n].at = at /\ writings'[n].try = writings[n].try
<1> DEFINE w == [writings[n] EXCEPT !.at = at]
<1>1. w \in Writing /\ w.op = writings[n].op /\ w.on = writings[n].on /\ w.at = at /\ w.try = writings[n].try
  BY CallsAreTyped DEF Writing, Stages
<1>2. writings' = [writings EXCEPT ![n] = w]
  BY DEF Ends
<1> HIDE DEF w
<1> QED BY <1>1, <1>2, RecordReplaced

LEMMA CallTriesAgain ==
    ASSUME WritingInv, NEW n \in Calls, writings[n].at = "begun", TryAgain(n)
    PROVE  Goes(n) /\ writings'[n].at \in {"begun", "failed"}
<1>1. CASE writings[n].try < MaxAttempts
  <2> DEFINE w == [writings[n] EXCEPT !.try = writings[n].try + 1]
  <2>0. writings[n].try \in 1 .. MaxAttempts /\ MaxAttempts \in Nat
    BY CallsAreTyped DEF Writing, WritingInv, WritingConstants
  <2>1. writings[n].try + 1 \in 1 .. MaxAttempts
    BY <1>1, <2>0
  <2>2. w \in Writing /\ w.op = writings[n].op /\ w.on = writings[n].on /\ w.at = writings[n].at
    BY <2>1, CallsAreTyped DEF Writing
  <2>3. writings' = [writings EXCEPT ![n] = w]
    BY <1>1 DEF TryAgain
  <2> HIDE DEF w
  <2> QED BY <2>2, <2>3, RecordReplaced
<1>2. CASE ~(writings[n].try < MaxAttempts)
  BY <1>2, CallEnds DEF TryAgain, Stages
<1> QED BY <1>1, <1>2

(* What a step of one call leaves as it was of all of them. *)
LEMMA CallsKeep ==
    ASSUME WritingInv, NEW n \in Calls, Goes(n),
           Over(n) => writings'[n].at \in {"done", "failed", "refused"},
           writings'[n].at = "between" => writings[n].op = "delete"
    PROVE  /\ AboutWhatWasSent' /\ OnlyDeletesGoOn'
           /\ \A k \in Calls : On(k)' = On(k) /\ writings'[k].op = writings[k].op
           /\ \A k : IsSend(k) /\ Over(k) => IsSend(k)' /\ Over(k)'
<1>1. OnlyDeletesGoOn'
  BY DEF WritingInv, OnlyDeletesGoOn, Goes
<1>2. \A k \in Calls : On(k)' = On(k) /\ writings'[k].op = writings[k].op
  BY DEF Goes, On
<1>3. ASSUME NEW k, IsSend(k), Over(k) PROVE IsSend(k)' /\ Over(k)'
  BY <1>3 DEF IsSend, Over, Goes
<1>4. AboutWhatWasSent'
  BY <1>2, <1>3 DEF WritingInv, AboutWhatWasSent, Goes
<1> QED BY <1>1, <1>2, <1>3, <1>4

(* The messages there depend on the rows and on the deletes that took them. *)
LEMMA MessagesStay ==
    ASSUME WritingInv, NEW n \in Calls, Goes(n), UNCHANGED <<inserted, erased>> PROVE messages' = messages
<1>1. \A d \in erased : On(d)' = On(d)
  BY DEF WritingInv, ErasedAreDeletes, Goes, On
<1> QED BY <1>1 DEF messages

(* The rows a call is about. *)
LEMMA OnIsRow ==
    ASSUME WritingInv, NEW n \in Calls, writings[n].op # "send"
    PROVE  On(n) \in Rows /\ Reaction(n) \in Rows \X Writers /\ Reaction(n)[1] = On(n) /\ n \in 1 .. MaxWritings
<1>1. writings[n] \in Writing
  BY CallsAreTyped
<1>2. On(n)[1] \in Calls
  BY DEF WritingInv, AboutWhatWasSent, IsSend
<1>3. On(n) # NoRow
  BY <1>2 DEF NoRow, Calls
<1>4. n \in 1 .. MaxWritings
  BY LenProperties DEF WritingInv, WritingConstants, WritingTypeOK, Calls
<1> QED BY <1>1, <1>3, <1>4 DEF On, Reaction, Writing

(* A statement of a call about a message, or its refusal, that leaves the   *)
(* rows of messages alone.                                                  *)
LEMMA StatementKeeps ==
    ASSUME WritingInv, NEW n \in Calls, writings[n].op # "send",
           NEW at \in Stages, Ends(n, at),
           \/ writings[n].at \in {"begun", "between"}
           \/ writings[n].at = "done" /\ at = "refused" /\ writings[n].op # "delete",
           at = "between" => writings[n].op = "delete",
           at = "done" => writings[n].op # "delete",
           UNCHANGED <<inserted, erased, unclear>>,
           {reactions', given'} \subseteq SUBSET (Rows \X Writers), {stripped', apart'} \subseteq SUBSET Rows,
           unshared' \subseteq 1 .. MaxWritings
    PROVE  /\ WritingConstants' /\ WritingTypeOK'
           /\ RowsAreOfSends' /\ AboutWhatWasSent' /\ OnlyDeletesGoOn' /\ ErasedAreDeletes'
           /\ messages' = messages /\ Calls' = Calls
           /\ \A k \in Calls : On(k)' = On(k)
           /\ \A k : IsSend(k) /\ Over(k) => IsSend(k)' /\ Over(k)'
           /\ \A k \in Calls : k # n => writings'[k] = writings[k]
           /\ writings'[n].at = at /\ writings'[n].op = writings[n].op
<1>1. Goes(n) /\ writings'[n].at = at
  BY CallEnds
<1>2. Over(n) => writings'[n].at \in {"done", "failed", "refused"}
  BY <1>1 DEF Over
<1>3. /\ AboutWhatWasSent' /\ OnlyDeletesGoOn' /\ \A k \in Calls : On(k)' = On(k)
      /\ \A k : IsSend(k) /\ Over(k) => IsSend(k)' /\ Over(k)'
  BY <1>1, <1>2, CallsKeep
<1>4. messages' = messages
  BY <1>1, MessagesStay
<1>5. RowsAreOfSends'
  <2>1. \A m \in inserted : m[1] \in Calls /\ m[1] # n
    BY DEF WritingInv, RowsAreOfSends, IsSend
  <2> QED BY <1>1, <2>1 DEF WritingInv, RowsAreOfSends, IsSend, Goes
<1>6. ErasedAreDeletes'
  <2>1. n \notin erased
    BY DEF WritingInv, ErasedAreDeletes
  <2>2. \A k \in Calls : At(k, "delete", "done")' => At(k, "delete", "done")
    BY <1>1 DEF At, Goes
  <2> QED BY <1>1, <2>1, <2>2 DEF WritingInv, ErasedAreDeletes, Goes
<1>7. WritingTypeOK' /\ WritingConstants'
  BY <1>1 DEF Goes, WritingInv, WritingTypeOK, WritingConstants
<1> QED BY <1>1, <1>3, <1>4, <1>5, <1>6, <1>7 DEF Goes

(* What such a step has to show then, of the reactions.                     *)
LEMMA ReactionsKeep ==
    ASSUME WritingInv, NEW n \in Calls,
           messages' = messages, Calls' = Calls, apart \subseteq apart', stripped \subseteq stripped',
           \A k \in Calls : On(k)' = On(k),
           \A k : IsSend(k) /\ Over(k) => IsSend(k)' /\ Over(k)',
           \A k \in Calls : k # n => writings'[k] = writings[k],
           At(n, "delete", "between") =>
               At(n, "delete", "between")' \/ On(n) \notin messages \/ On(n) \in stripped',
           \A r \in reactions' : r \in reactions \/ r[1] \in messages \cup apart',
           \A r \in given' : (r \in given \/ (IsSend(r[1][1]) /\ Over(r[1][1]))),
           \A r \in given' : (r \in given /\ (r \in reactions => Accounted(r)')) \/ Accounted(r)'
    PROVE  ReactionsRest' /\ GivenStay'
<1>1. ReactionsRest'
  BY DEF WritingInv, ReactionsRest
<1>2. ASSUME NEW r \in given' PROVE IsSend(r[1][1])' /\ Over(r[1][1])'
  BY DEF WritingInv, GivenStay
<1>3. ASSUME NEW r \in given, r \notin reactions PROVE Accounted(r)'
  <2>1. r[1] \notin messages \/ r[1] \in stripped \/ Between(r[1])
    BY <1>3 DEF WritingInv, GivenStay, Accounted
  <2>2. CASE r[1] \notin messages \/ r[1] \in stripped
    BY <2>2 DEF Accounted
  <2>3. CASE Between(r[1])
    <3>1. PICK k \in Calls : At(k, "delete", "between") /\ On(k) = r[1]
      BY <2>3 DEF Between
    <3>2. CASE k = n
      BY <3>1, <3>2 DEF Accounted, Between
    <3>3. CASE k # n
      <4>1. At(k, "delete", "between")' /\ On(k)' = r[1]
        BY <3>1, <3>3 DEF At
      <4> QED BY <4>1 DEF Accounted, Between
    <3> QED BY <3>2, <3>3
  <2> QED BY <2>1, <2>2, <2>3
<1>4. GivenStay'
  BY <1>2, <1>3 DEF GivenStay
<1> QED BY <1>1, <1>4

-----------------------------------------------------------------------------
LEMMA BeginKeeps ==
    ASSUME WritingInv, NEW by \in Writers, NEW op \in {"send", "edit", "delete", "react", "unreact"},
           NEW on \in Rows \cup {NoRow}, op # "send" => on \in messages, Begin(by, op, on)
    PROVE  WritingInv'
<1> DEFINE w == [op |-> op, by |-> by, on |-> on, try |-> 1, at |-> "begun"]
<1>1. /\ WritingConstants /\ WritingTypeOK /\ Len(writings) < MaxWritings
      /\ UNCHANGED <<inserted, erased, reactions, unshared, given, unclear, stripped, apart>>
  BY DEF Begin, WritingInv
<1>2. w \in Writing
  <2>1. 1 \in 1 .. MaxAttempts
    BY <1>1 DEF WritingConstants
  <2> QED BY <2>1 DEF Writing
<1>3. w.op = op /\ w.on = on /\ w.at = "begun"
  OBVIOUS
<1>4. writings' = Append(writings, w) /\ writings \in Seq(Writing)
  BY <1>1 DEF Begin, WritingTypeOK
<1> HIDE DEF w
<1> DEFINE len == Len(writings) + 1
<1>0. PICK new : new = len
  OBVIOUS
<1>5. writings' \in Seq(Writing) /\ Len(writings') = new /\ writings'[new] = w
  BY <1>0, <1>2, <1>4, AppendProperties
<1>6. \A k \in 1 .. Len(writings) : writings'[k] = writings[k]
  BY <1>2, <1>4, AppendProperties
<1>7. Len(writings) \in Nat
  BY <1>4, LenProperties
<1>8. new \notin Calls /\ Calls' = Calls \cup {new} /\ \A k \in Calls : writings'[k] = writings[k]
  BY <1>0, <1>5, <1>6, <1>7 DEF Calls
<1>9. WritingTypeOK' /\ WritingConstants'
  <2>1. Len(writings') <= MaxWritings
    BY <1>0, <1>1, <1>5, <1>7 DEF WritingConstants
  <2> QED BY <1>1, <1>5, <2>1 DEF WritingTypeOK, WritingConstants
<1> HIDE DEF len
<1>10. \A k \in Calls : On(k)' = On(k)
  BY <1>8 DEF On
<1>11. messages' = messages
  <2>1. \A d \in erased : On(d)' = On(d)
    BY <1>10 DEF WritingInv, ErasedAreDeletes
  <2> QED BY <1>1, <2>1 DEF messages
<1>12. \A k : IsSend(k) /\ Over(k) => IsSend(k)' /\ Over(k)'
  BY <1>8 DEF IsSend, Over
<1>13. RowsAreOfSends'
  BY <1>1, <1>8 DEF WritingInv, RowsAreOfSends, IsSend
<1>14. AboutWhatWasSent'
  <2>1. op # "send" => IsSend(on[1]) /\ Over(on[1])
    BY DEF WritingInv, RowsAreOfSends, Over, messages
  <2>2. On(new)' = on /\ writings'[new].op = op
    BY <1>3, <1>5 DEF On
  <2> QED BY <1>8, <1>10, <1>12, <2>1, <2>2 DEF WritingInv, AboutWhatWasSent
<1>15. OnlyDeletesGoOn' /\ ErasedAreDeletes'
  BY <1>1, <1>3, <1>5, <1>8 DEF WritingInv, OnlyDeletesGoOn, ErasedAreDeletes, At
<1>16. ReactionsRest'
  BY <1>1, <1>11 DEF WritingInv, ReactionsRest
<1>17. ASSUME NEW r \in given PROVE Accounted(r)'
  <2>1. Accounted(r)
    BY DEF WritingInv, GivenStay
  <2>2. Between(r[1]) => Between(r[1])'
    BY <1>8, <1>10 DEF Between, At
  <2> QED BY <1>1, <1>11, <2>1, <2>2 DEF Accounted
<1>18. GivenStay'
  BY <1>1, <1>12, <1>17 DEF WritingInv, GivenStay
<1> QED BY <1>9, <1>13, <1>14, <1>15, <1>16, <1>18 DEF WritingInv

(* An insert that commits, or fails: its row is new, and nothing is about it. *)
LEMMA InsertKeeps ==
    ASSUME WritingInv, NEW n \in Calls,
           \/ \E at \in Answers : RowInserted(n, at)
           \/ InsertTooFew(n)
           \/ writings[n].op = "send" /\ StatementFails(n)
    PROVE  WritingInv'
<1> DEFINE new == <<n, writings[n].try>>
<1>0. /\ WritingTypeOK /\ WritingConstants /\ writings[n] \in Writing
      /\ UNCHANGED <<erased, reactions, given, apart>>
  BY CallsAreTyped DEF RowInserted, InsertTooFew, StatementFails, WritingInv
<1>1. writings[n].op = "send" /\ writings[n].at = "begun"
  BY DEF RowInserted, InsertTooFew, StatementFails, At, WritingInv, OnlyDeletesGoOn
<1>2. ~Over(n)
  BY <1>1 DEF Over
<1>3. Goes(n) /\ writings'[n].at \in {"begun", "done", "failed"}
  BY <1>1, CallEnds, CallTriesAgain DEF RowInserted, InsertTooFew, StatementFails, Answers, Stages
<1>4. /\ unclear \subseteq unclear' /\ unclear' \subseteq unclear \cup {n}
      /\ unshared' \subseteq unshared \cup {n} /\ stripped' = stripped
      /\ \/ inserted' = inserted
         \/ /\ inserted' = inserted \cup {new} /\ writings'[n].at \in {"done", "failed"}
            /\ writings'[n].try = writings[n].try
            /\ writings'[n].at = "failed" => n \in unclear'
  <2>1. CASE \E at \in Answers : RowInserted(n, at)
    <3>1. PICK at \in Answers : RowInserted(n, at)
      BY <2>1
    <3>2. writings'[n].at = at /\ writings'[n].try = writings[n].try
      BY <3>1, CallEnds DEF RowInserted, Answers, Stages
    <3> QED BY <3>1, <3>2 DEF RowInserted, Answers
  <2>2. CASE InsertTooFew(n) \/ StatementFails(n)
    BY <1>1, <2>2 DEF InsertTooFew, StatementFails
  <2> QED BY <2>1, <2>2
<1>5. new \in Rows /\ n \in 1 .. MaxWritings /\ new[1] = n /\ new[2] = writings[n].try
  <2>1. n \in 1 .. MaxWritings
    BY <1>0, LenProperties DEF WritingTypeOK, WritingConstants, Calls
  <2>2. writings[n].try \in 1 .. MaxAttempts
    BY <1>0 DEF Writing
  <2> QED BY <2>1, <2>2 DEF Rows
<1>6. WritingTypeOK' /\ WritingConstants'
  BY <1>0, <1>3, <1>4, <1>5 DEF WritingTypeOK, WritingConstants, Goes
<1>7. /\ AboutWhatWasSent' /\ OnlyDeletesGoOn' /\ \A k \in Calls : On(k)' = On(k)
      /\ \A k : IsSend(k) /\ Over(k) => IsSend(k)' /\ Over(k)'
  BY <1>2, <1>3, CallsKeep
<1> HIDE DEF new
<1>8. RowsAreOfSends'
  <2> SUFFICES ASSUME NEW m \in inserted'
               PROVE  /\ IsSend(m[1])' /\ writings'[m[1]].try = m[2]
                      /\ writings'[m[1]].at # "done" => writings'[m[1]].at = "failed" /\ m[1] \in unclear'
    BY DEF RowsAreOfSends
  <2>1. CASE m \in inserted
    <3>1. m[1] # n
      BY <1>1, <2>1 DEF WritingInv, RowsAreOfSends
    <3> QED BY <1>3, <1>4, <2>1, <3>1 DEF WritingInv, RowsAreOfSends, Goes, IsSend
  <2>2. CASE m \notin inserted
    BY <1>1, <1>3, <1>4, <1>5, <2>2 DEF Goes, IsSend
  <2> QED BY <2>1, <2>2
<1>9. ErasedAreDeletes'
  BY <1>0, <1>1, <1>3 DEF WritingInv, ErasedAreDeletes, Goes, At
<1>10. messages \subseteq messages' /\ \A m \in messages' : m \in messages \/ m[1] = n
  <2>1. \A d \in erased : On(d)' = On(d) /\ IsSend(On(d)[1]) /\ Over(On(d)[1])
    BY <1>7 DEF WritingInv, ErasedAreDeletes, AboutWhatWasSent
  <2> QED BY <1>0, <1>4, <1>5, <2>1 DEF messages
<1>11. ReactionsRest'
  BY <1>0, <1>10 DEF WritingInv, ReactionsRest
<1>12. ASSUME NEW r \in given PROVE Accounted(r)'
  <2>1. Accounted(r) /\ Over(r[1][1])
    BY DEF WritingInv, GivenStay
  <2>2. Between(r[1]) => Between(r[1])'
    BY <1>1, <1>3, <1>7 DEF Between, At, Goes
  <2> QED BY <1>0, <1>2, <1>4, <1>10, <2>1, <2>2 DEF Accounted
<1>13. GivenStay'
  BY <1>0, <1>7, <1>12 DEF WritingInv, GivenStay
<1> QED BY <1>6, <1>7, <1>8, <1>9, <1>11, <1>13 DEF WritingInv

(* An edit, and what writes nothing: no table changes. *)
LEMMA NothingChanges ==
    ASSUME WritingInv, NEW n \in Calls,
           \/ \E at \in Answers : Edited(n, at)
           \/ NothingToWrite(n)
           \/ writings[n].op # "send" /\ StatementFails(n)
    PROVE  WritingInv'
<1>1. PICK at \in {"done", "failed", "void"} :
        /\ Ends(n, at) /\ writings[n].op # "send" /\ writings[n].at \in {"begun", "between"}
        /\ at = "done" => writings[n].op # "delete"
        /\ writings[n].at = "between" => On(n) \notin messages \/ On(n) \in stripped'
        /\ UNCHANGED <<inserted, erased, reactions, unshared, given, unclear, apart>>
        /\ stripped \subseteq stripped' /\ stripped' \subseteq stripped \cup {On(n)}
  <2>1. CASE \E at \in Answers : Edited(n, at)
    BY <2>1 DEF Edited, At, Answers
  <2>2. CASE NothingToWrite(n)
    <3>1. writings[n].at = "between" => On(n) \notin messages
      BY <2>2 DEF NothingToWrite, At, Sees, messages
    <3> QED BY <2>2, <3>1 DEF NothingToWrite, At
  <2>3. CASE writings[n].op # "send" /\ StatementFails(n)
    BY <2>3 DEF StatementFails
  <2> QED BY <2>1, <2>2, <2>3
<1>2. On(n) \in Rows
  BY <1>1, OnIsRow
<1>3. {reactions', given'} \subseteq SUBSET (Rows \X Writers) /\ {stripped', apart'} \subseteq SUBSET Rows
      /\ unshared' \subseteq 1 .. MaxWritings
  BY <1>1, <1>2 DEF WritingInv, WritingTypeOK
<1>4. /\ WritingConstants' /\ WritingTypeOK'
      /\ RowsAreOfSends' /\ AboutWhatWasSent' /\ OnlyDeletesGoOn' /\ ErasedAreDeletes'
      /\ messages' = messages /\ Calls' = Calls
      /\ \A k \in Calls : On(k)' = On(k)
      /\ \A k : IsSend(k) /\ Over(k) => IsSend(k)' /\ Over(k)'
      /\ \A k \in Calls : k # n => writings'[k] = writings[k]
  BY <1>1, <1>3, StatementKeeps DEF Stages
<1>5. ReactionsRest' /\ GivenStay'
  <2>1. \A r \in given' : r \in given /\ (r \in reactions => Accounted(r)')
    BY <1>1 DEF Accounted
  <2>2. At(n, "delete", "between") => On(n) \notin messages \/ On(n) \in stripped'
    BY <1>1 DEF At
  <2>3. \A r \in reactions' : r \in reactions
    BY <1>1
  <2> QED BY <1>1, <1>4, <2>1, <2>2, <2>3, ReactionsKeep
<1> QED BY <1>4, <1>5 DEF WritingInv

(* A reaction is given or taken back, or the others refuse that. *)
LEMMA ReactionKeeps ==
    ASSUME WritingInv, NEW n \in Calls,
           \/ \E at \in Answers : Reacted(n, at) \/ Unreacted(n, at)
           \/ ReactRefused(n)
           \/ UnreactRefused(n)
    PROVE  WritingInv'
<1>1. PICK at \in {"done", "failed", "refused"} :
        /\ Ends(n, at) /\ writings[n].op \in {"react", "unreact"}
        /\ writings[n].at = "begun" \/ (writings[n].at = "done" /\ at = "refused")
        /\ UNCHANGED <<inserted, erased, unclear, stripped>>
        /\ unshared' \subseteq unshared \cup {n}
        /\ \/ /\ reactions' = reactions \cup {Reaction(n)} /\ given' = given \cup {Reaction(n)}
              /\ apart' = apart \cup ({On(n)} \ messages)
           \/ /\ reactions' = reactions \ {Reaction(n)} /\ given' = given \ {Reaction(n)}
              /\ apart' = apart
  <2>1. CASE \E at \in Answers : Reacted(n, at)
    BY <2>1 DEF Reacted, At, Answers
  <2>2. CASE \E at \in Answers : Unreacted(n, at)
    BY <2>2 DEF Unreacted, At, Answers
  <2>3. CASE ReactRefused(n)
    BY <2>3 DEF ReactRefused, Refused, At
  <2>4. CASE UnreactRefused(n)
    BY <2>4 DEF UnreactRefused, Refused, At
  <2> QED BY <2>1, <2>2, <2>3, <2>4
<1>2. On(n) \in Rows /\ Reaction(n) \in Rows \X Writers /\ Reaction(n)[1] = On(n) /\ n \in 1 .. MaxWritings
  BY <1>1, OnIsRow
<1>3. {reactions', given'} \subseteq SUBSET (Rows \X Writers) /\ {stripped', apart'} \subseteq SUBSET Rows
      /\ unshared' \subseteq 1 .. MaxWritings
  BY <1>1, <1>2 DEF WritingInv, WritingTypeOK
<1>4. /\ WritingConstants' /\ WritingTypeOK'
      /\ RowsAreOfSends' /\ AboutWhatWasSent' /\ OnlyDeletesGoOn' /\ ErasedAreDeletes'
      /\ messages' = messages /\ Calls' = Calls
      /\ \A k \in Calls : On(k)' = On(k)
      /\ \A k : IsSend(k) /\ Over(k) => IsSend(k)' /\ Over(k)'
      /\ \A k \in Calls : k # n => writings'[k] = writings[k]
  BY <1>1, <1>3, StatementKeeps DEF Stages
<1>5. IsSend(On(n)[1]) /\ Over(On(n)[1])
  BY <1>1 DEF WritingInv, AboutWhatWasSent
<1>6. ReactionsRest' /\ GivenStay'
  <2>1. \A r \in given' : (r \in given /\ (r \in reactions => Accounted(r)')) \/ Accounted(r)'
    BY <1>1 DEF Accounted
  <2>2. \A r \in given' : r \in given \/ (IsSend(r[1][1]) /\ Over(r[1][1]))
    BY <1>1, <1>2, <1>5
  <2>3. \A r \in reactions' : r \in reactions \/ r[1] \in messages \cup apart'
    BY <1>1, <1>2
  <2>4. ~At(n, "delete", "between") /\ apart \subseteq apart'
    BY <1>1 DEF At
  <2> QED BY <1>1, <1>4, <2>1, <2>2, <2>3, <2>4, ReactionsKeep
<1> QED BY <1>4, <1>6 DEF WritingInv

LEMMA ReactionsRemovedKeeps ==
    ASSUME WritingInv, NEW n \in Calls, NEW fails \in BOOLEAN, ReactionsRemoved(n, fails) PROVE WritingInv'
<1> DEFINE at == IF fails THEN "failed" ELSE "between"
<1>1. /\ Ends(n, at) /\ writings[n].op = "delete" /\ writings[n].at = "begun"
      /\ UNCHANGED <<inserted, erased, given, unclear, apart>>
      /\ unshared' = unshared \cup {n} /\ stripped' = stripped \cup (IF fails THEN {On(n)} ELSE {})
      /\ reactions' \subseteq reactions /\ \A r \in reactions : r \in reactions' \/ r[1] = On(n)
  BY DEF ReactionsRemoved, At, ReactionsOn
<1>2. On(n) \in Rows /\ n \in 1 .. MaxWritings
  BY <1>1, OnIsRow
<1>3. {reactions', given'} \subseteq SUBSET (Rows \X Writers) /\ {stripped', apart'} \subseteq SUBSET Rows
      /\ unshared' \subseteq 1 .. MaxWritings
  BY <1>1, <1>2 DEF WritingInv, WritingTypeOK
<1>4. /\ WritingConstants' /\ WritingTypeOK'
      /\ RowsAreOfSends' /\ AboutWhatWasSent' /\ OnlyDeletesGoOn' /\ ErasedAreDeletes'
      /\ messages' = messages /\ Calls' = Calls
      /\ \A k \in Calls : On(k)' = On(k)
      /\ \A k : IsSend(k) /\ Over(k) => IsSend(k)' /\ Over(k)'
      /\ \A k \in Calls : k # n => writings'[k] = writings[k]
      /\ writings'[n].at = at /\ writings'[n].op = "delete"
  BY <1>1, <1>3, StatementKeeps DEF Stages
<1>5. ASSUME NEW r, r[1] = On(n) PROVE On(n) \in stripped' \/ Between(r[1])'
  <2>1. CASE fails
    BY <1>1, <2>1
  <2>2. CASE ~fails
    <3>1. n \in Calls' /\ At(n, "delete", "between")' /\ On(n)' = r[1]
      BY <1>4, <1>5, <2>2 DEF At
    <3> QED BY <3>1 DEF Between
  <2> QED BY <2>1, <2>2
<1>6. ReactionsRest' /\ GivenStay'
  <2>1. \A r \in given' : r \in given /\ (r \in reactions => Accounted(r)')
    <3>1. ASSUME NEW r \in reactions PROVE Accounted(r)'
      BY <1>1, <1>5 DEF Accounted
    <3> QED BY <1>1, <3>1
  <2>2. ~At(n, "delete", "between") /\ \A r \in reactions' : r \in reactions
    BY <1>1 DEF At
  <2> QED BY <1>1, <1>4, <2>1, <2>2, ReactionsKeep
<1> QED BY <1>4, <1>6 DEF WritingInv

(* The message goes, comes back, or its send is refused: the rows change,   *)
(* and no reaction does.                                                    *)
LEMMA RowsChange ==
    ASSUME WritingInv, NEW n \in Calls, NEW at \in {"done", "failed", "refused"}, Ends(n, at),
           writings[n].at \in {"between", "done"}, writings[n].op \in {"send", "delete"},
           writings[n].at = "done" => at = "refused",
           UNCHANGED <<reactions, given, unclear>>,
           RowsAreOfSends', ErasedAreDeletes', {inserted', stripped', apart'} \subseteq SUBSET Rows,
           {erased', unshared'} \subseteq SUBSET (1 .. MaxWritings), apart \subseteq apart', stripped \subseteq stripped',
           \A m \in messages' : m \in messages \/ m \in stripped',
           writings[n].at = "between" => On(n) \notin messages',
           \A r \in reactions : r[1] \in messages => r[1] \in messages' \cup apart'
    PROVE  WritingInv'
<1>1. Goes(n) /\ writings'[n].at = at
  BY CallEnds DEF Stages
<1>2. Over(n) => writings'[n].at \in {"done", "failed", "refused"}
  BY <1>1
<1>3. /\ AboutWhatWasSent' /\ OnlyDeletesGoOn' /\ \A k \in Calls : On(k)' = On(k)
      /\ \A k : IsSend(k) /\ Over(k) => IsSend(k)' /\ Over(k)'
  BY <1>1, <1>2, CallsKeep
<1>4. WritingTypeOK' /\ WritingConstants'
  BY <1>1 DEF Goes, WritingInv, WritingTypeOK, WritingConstants
<1>5. ReactionsRest'
  BY DEF WritingInv, ReactionsRest
<1>6. ASSUME NEW r \in given PROVE Accounted(r)'
  <2>1. Accounted(r)
    BY DEF WritingInv, GivenStay
  <2>2. CASE r \in reactions \/ r[1] \in stripped \/ r[1] \notin messages
    BY <2>2 DEF Accounted
  <2>3. CASE Between(r[1])
    <3>1. PICK k \in Calls : At(k, "delete", "between") /\ On(k) = r[1]
      BY <2>3 DEF Between
    <3>2. CASE k = n
      BY <3>1, <3>2 DEF Accounted, At
    <3>3. CASE k # n
      <4>1. k \in Calls' /\ At(k, "delete", "between")' /\ On(k)' = r[1]
        BY <1>1, <1>3, <3>1, <3>3 DEF At, Goes
      <4> QED BY <4>1 DEF Accounted, Between
    <3> QED BY <3>2, <3>3
  <2> QED BY <2>1, <2>2, <2>3 DEF Accounted
<1>7. GivenStay'
  BY <1>3, <1>6 DEF WritingInv, GivenStay
<1> QED BY <1>3, <1>4, <1>5, <1>7 DEF WritingInv

LEMMA RemovedKeeps == ASSUME WritingInv, NEW n \in Calls, NEW at \in Answers, Removed(n, at) PROVE WritingInv'
<1>1. /\ Ends(n, at) /\ writings[n].op = "delete" /\ writings[n].at = "between"
      /\ UNCHANGED <<inserted, reactions, given, unclear, stripped>>
      /\ erased' = erased \cup {n} /\ unshared' = unshared \cup {n}
      /\ apart' = apart \cup {r[1] : r \in UnknownTo(n)} /\ ReactionsOn(On(n)) \subseteq UnknownTo(n)
  BY DEF Removed, At
<1>2. Goes(n) /\ writings'[n].at = at /\ at \in {"done", "failed"}
  BY <1>1, CallEnds DEF Stages, Answers
<1>3. On(n) \in Rows /\ n \in 1 .. MaxWritings
  BY <1>1, OnIsRow
<1>4. \A k \in Calls : On(k)' = On(k)
  BY <1>2 DEF Goes, On
<1>5. RowsAreOfSends'
  <2>1. \A m \in inserted : m[1] \in Calls /\ m[1] # n
    BY <1>1 DEF WritingInv, RowsAreOfSends, IsSend
  <2> QED BY <1>1, <1>2, <2>1 DEF WritingInv, RowsAreOfSends, IsSend, Goes
<1>6. ErasedAreDeletes'
  <2>1. \A d \in erased : d # n
    BY <1>1 DEF WritingInv, ErasedAreDeletes
  <2>2. \A d \in erased' : d \in Calls /\ writings'[d].op = "delete" /\ writings'[d].at \in {"done", "failed"}
    BY <1>1, <1>2, <2>1 DEF WritingInv, ErasedAreDeletes, Goes
  <2>3. \A k \in Calls : At(k, "delete", "done")' => k = n \/ At(k, "delete", "done")
    BY <1>2 DEF At, Goes
  <2> QED BY <1>1, <1>2, <2>2, <2>3 DEF WritingInv, ErasedAreDeletes, Goes
<1>7. messages' = messages \ {On(n)}
  <2>1. \A d \in erased : On(d)' = On(d)
    BY <1>4 DEF WritingInv, ErasedAreDeletes
  <2> QED BY <1>1, <1>4, <2>1 DEF messages
<1>8. \A r \in reactions : r[1] = On(n) => On(n) \in apart'
  BY <1>1 DEF ReactionsOn
<1>9. {r[1] : r \in UnknownTo(n)} \subseteq {On(n)}
  BY DEF UnknownTo, ReactionsOn
<1>10. apart' \subseteq Rows /\ {erased', unshared'} \subseteq SUBSET (1 .. MaxWritings)
       /\ {inserted', stripped'} \subseteq SUBSET Rows
  BY <1>1, <1>3, <1>9 DEF WritingInv, WritingTypeOK
<1> QED BY <1>1, <1>2, <1>5, <1>6, <1>7, <1>8, <1>10, RowsChange

LEMMA DeleteRefusedKeeps == ASSUME WritingInv, NEW n \in Calls, DeleteRefused(n) PROVE WritingInv'
<1>1. /\ Ends(n, "refused") /\ writings[n].op = "delete" /\ writings[n].at = "done"
      /\ UNCHANGED <<inserted, reactions, given, unclear, apart>>
      /\ erased' = erased \ {n} /\ unshared' = unshared \ {n} /\ stripped' = stripped \cup {On(n)}
  BY DEF DeleteRefused, Refused, At
<1>2. Goes(n) /\ writings'[n].at = "refused"
  BY <1>1, CallEnds DEF Stages
<1>3. On(n) \in Rows /\ n \in 1 .. MaxWritings
  BY <1>1, OnIsRow
<1>4. RowsAreOfSends'
  <2>1. \A m \in inserted : m[1] \in Calls /\ m[1] # n
    BY <1>1 DEF WritingInv, RowsAreOfSends, IsSend
  <2> QED BY <1>1, <1>2, <2>1 DEF WritingInv, RowsAreOfSends, IsSend, Goes
<1>5. ErasedAreDeletes'
  BY <1>1, <1>2 DEF WritingInv, ErasedAreDeletes, At, Goes
<1>6. \A m \in messages' : m \in messages \/ m = On(n)
  <2>1. \A d \in erased : On(d)' = On(d)
    BY <1>2 DEF WritingInv, ErasedAreDeletes, Goes, On
  <2> QED BY <1>1, <2>1 DEF messages
<1>7. messages \subseteq messages'
  <2>1. \A d \in erased : On(d)' = On(d)
    BY <1>2 DEF WritingInv, ErasedAreDeletes, Goes, On
  <2> QED BY <1>1, <2>1 DEF messages
<1>8. {inserted', stripped', apart'} \subseteq SUBSET Rows /\ {erased', unshared'} \subseteq SUBSET (1 .. MaxWritings)
  BY <1>1, <1>3 DEF WritingInv, WritingTypeOK
<1> QED BY <1>1, <1>4, <1>5, <1>6, <1>7, <1>8, RowsChange

LEMMA SendRefusedKeeps == ASSUME WritingInv, NEW n \in Calls, SendRefused(n) PROVE WritingInv'
<1> DEFINE its == <<n, writings[n].try>>
<1>1. /\ Ends(n, "refused") /\ writings[n].op = "send" /\ writings[n].at = "done"
      /\ UNCHANGED <<erased, reactions, given, unclear, stripped>>
      /\ inserted' = inserted \ {its} /\ unshared' = unshared \ {n} /\ apart' = apart \cup {its}
  BY DEF SendRefused, Refused, At
<1>2. Goes(n) /\ writings'[n].at = "refused"
  BY <1>1, CallEnds DEF Stages
<1>3. its \in Rows
  <2>1. n \in 1 .. MaxWritings /\ writings[n].try \in 1 .. MaxAttempts
    BY LenProperties, CallsAreTyped DEF WritingInv, WritingConstants, WritingTypeOK, Calls, Writing
  <2> QED BY <2>1 DEF Rows
<1>4. RowsAreOfSends'
  <2> SUFFICES ASSUME NEW m \in inserted'
               PROVE  /\ IsSend(m[1])' /\ writings'[m[1]].try = m[2]
                      /\ writings'[m[1]].at # "done" => writings'[m[1]].at = "failed" /\ m[1] \in unclear'
    BY DEF RowsAreOfSends
  <2>1. m \in inserted /\ m # its /\ IsSend(m[1]) /\ writings[m[1]].try = m[2]
    BY <1>1 DEF WritingInv, RowsAreOfSends
  <2>2. m = <<m[1], m[2]>>
    BY <2>1 DEF WritingInv, WritingTypeOK, Rows
  <2>3. m[1] # n
    BY <2>1, <2>2
  <2> QED BY <1>1, <1>2, <2>1, <2>3 DEF WritingInv, RowsAreOfSends, Goes, IsSend
<1>5. ErasedAreDeletes'
  BY <1>1, <1>2 DEF WritingInv, ErasedAreDeletes, At, Goes
<1> HIDE DEF its
<1>6. messages' = messages \ {its}
  <2>1. \A d \in erased : On(d)' = On(d)
    BY <1>2 DEF WritingInv, ErasedAreDeletes, Goes, On
  <2> QED BY <1>1, <2>1 DEF messages
<1>7. {inserted', stripped', apart'} \subseteq SUBSET Rows /\ {erased', unshared'} \subseteq SUBSET (1 .. MaxWritings)
  BY <1>1, <1>3 DEF WritingInv, WritingTypeOK
<1> QED BY <1>1, <1>4, <1>5, <1>6, <1>7, RowsChange

(* The others hear of a call, or refuse the statement that took reactions:  *)
(* no call goes on.                                                         *)
LEMMA TellsKeep == ASSUME WritingInv, NEW n \in Calls, Heard(n) \/ ReactionsBack(n) PROVE WritingInv'
<1>1. /\ UNCHANGED <<writings, inserted, erased, given, unclear, stripped>> /\ unshared' \subseteq unshared
      /\ \/ UNCHANGED <<reactions, apart>>
         \/ /\ reactions' = reactions \cup {r \in given : r[1] = On(n)} /\ writings[n].op # "send"
            /\ apart' = apart \cup ({On(n)} \ messages)
  BY DEF Heard, ReactionsBack
<1>2. messages' = messages /\ Calls' = Calls
  BY <1>1 DEF messages, On, Calls
<1>3. writings[n].op # "send" => On(n) \in Rows
  BY OnIsRow
<1>4. WritingTypeOK' /\ WritingConstants'
  BY <1>1, <1>3 DEF WritingInv, WritingTypeOK, WritingConstants
<1>5. RowsAreOfSends' /\ AboutWhatWasSent' /\ OnlyDeletesGoOn' /\ ErasedAreDeletes'
  BY <1>1, <1>2 DEF WritingInv, RowsAreOfSends, AboutWhatWasSent, OnlyDeletesGoOn, ErasedAreDeletes,
                    IsSend, Over, On, At
<1>6. ReactionsRest'
  BY <1>1, <1>2 DEF WritingInv, ReactionsRest
<1>7. \A r \in given : Accounted(r) => Accounted(r)'
  BY <1>1, <1>2 DEF Accounted, Between, At, On
<1>8. GivenStay'
  BY <1>1, <1>2, <1>7 DEF WritingInv, GivenStay, IsSend, Over
<1> QED BY <1>4, <1>5, <1>6, <1>8 DEF WritingInv

LEMMA WritingStep == WritingInv /\ [WritingNext]_writingVars => WritingInv'
<1> SUFFICES ASSUME WritingInv, [WritingNext]_writingVars PROVE WritingInv'
  OBVIOUS
<1>1. CASE UNCHANGED writingVars
  BY <1>1 DEF writingVars, WritingInv, WritingConstants, WritingTypeOK, RowsAreOfSends, AboutWhatWasSent,
              OnlyDeletesGoOn, ErasedAreDeletes, ReactionsRest, GivenStay, Accounted, Between, messages,
              IsSend, Over, On, At, Calls
<1>2. ASSUME NEW by \in Writers, Begin(by, "send", NoRow) PROVE WritingInv'
  BY <1>2, BeginKeeps
<1>3. ASSUME NEW by \in Writers, NEW op \in {"edit", "delete", "react", "unreact"}, NEW m \in messages,
             Begin(by, op, m)
      PROVE  WritingInv'
  <2>1. m \in Rows
    BY DEF WritingInv, WritingTypeOK, messages
  <2> QED BY <1>3, <2>1, BeginKeeps
<1>4. ASSUME NEW n \in Calls, NEW at \in Answers,
             RowInserted(n, at) \/ Edited(n, at) \/ Reacted(n, at) \/ Unreacted(n, at) \/ Removed(n, at)
      PROVE  WritingInv'
  BY <1>4, InsertKeeps, NothingChanges, ReactionKeeps, RemovedKeeps
<1>5. ASSUME NEW n \in Calls,
             \/ InsertTooFew(n) \/ NothingToWrite(n) \/ StatementFails(n) \/ Heard(n)
             \/ SendRefused(n) \/ ReactRefused(n) \/ UnreactRefused(n) \/ DeleteRefused(n) \/ ReactionsBack(n)
      PROVE  WritingInv'
  BY <1>5, InsertKeeps, NothingChanges, ReactionKeeps, TellsKeep, SendRefusedKeeps, DeleteRefusedKeeps
<1>6. ASSUME NEW n \in Calls, NEW fails \in BOOLEAN, ReactionsRemoved(n, fails) PROVE WritingInv'
  BY <1>6, ReactionsRemovedKeeps
<1> QED BY <1>1, <1>2, <1>3, <1>4, <1>5, <1>6 DEF WritingNext

LEMMA SendsAreOne == ASSUME WritingInv PROVE OnePerSend
<1> SUFFICES ASSUME NEW n \in Calls, writings[n].op = "send"
             PROVE  /\ Cardinality(InsertedBy(n)) <= 1
                    /\ writings[n].at = "failed" /\ n \notin unclear => InsertedBy(n) = {}
                    /\ writings[n].at = "refused" => InsertedBy(n) = {}
  BY DEF OnePerSend
<1>1. \A m \in InsertedBy(n) : m = <<n, writings[n].try>>
  BY DEF InsertedBy, WritingInv, WritingTypeOK, Rows, RowsAreOfSends
<1>2. CASE InsertedBy(n) = {}
  BY <1>2, FS_EmptySet
<1>3. CASE InsertedBy(n) # {}
  <2>1. InsertedBy(n) = {<<n, writings[n].try>>}
    BY <1>1, <1>3
  <2>2. Cardinality(InsertedBy(n)) = 1
    BY <2>1, FS_Singleton
  <2>3. PICK m \in inserted : m[1] = n
    BY <1>3 DEF InsertedBy
  <2>4. writings[n].at # "refused" /\ (writings[n].at = "failed" => n \in unclear)
    BY <2>3 DEF WritingInv, RowsAreOfSends
  <2> QED BY <2>2, <2>4
<1> QED BY <1>2, <1>3

LEMMA DeletedAreGone == ASSUME WritingInv PROVE DeletedIsGone
<1>1. \A n \in Calls : At(n, "delete", "done") => On(n) \notin messages
  BY DEF WritingInv, ErasedAreDeletes, messages
<1> QED BY <1>1 DEF WritingInv, ReactionsRest, GivenStay, Accounted, Between, DeletedIsGone

(* A send puts at most one message in the strand, and none when it failed   *)
(* because too few members answered or was refused.  What is deleted is     *)
(* gone with its reactions, and a reaction given is there while its message *)
(* is: but for what devices wrote that had not heard of each other, and     *)
(* what a failure or a refusal of a delete left.                            *)
THEOREM WritesWholeAlone == ASSUME WritingConstants PROVE WritingSpec => []WritesAreWhole
<1>1. WritingInit => WritingInv
  BY WritingInitInv
<1>2. WritingInv => WritesAreWhole
  BY SendsAreOne, DeletedAreGone DEF WritesAreWhole
<1> QED BY <1>1, <1>2, WritingStep, PTL DEF WritingSpec

LEMMA WritingTyped == ASSUME WritingConstants PROVE WritingSpec => []WritingTypeOK
<1>1. WritingInit => WritingInv
  BY WritingInitInv
<1>2. WritingInv => WritingTypeOK
  BY DEF WritingInv
<1> QED BY <1>1, <1>2, WritingStep, PTL DEF WritingSpec
=============================================================================
