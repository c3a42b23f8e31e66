-------------------------- MODULE HostPartsProofs --------------------------
(***************************************************************************)
(* More theorems about Hosts, of the parts that follow what changes: the   *)
(* nodes of the NativeScript app and of serchat, with the lines typed at   *)
(* its prompt, what the phone tells its app, `tail`, the party's machines  *)
(* and the names of members; and of the first opening of the app and the   *)
(* leaving of a strand.  As in HostsProofs each part is taken alone, and   *)
(* the last section says what that means for the whole.                    *)
(***************************************************************************)
EXTENDS HostsProofs

-----------------------------------------------------------------------------
(***************************************************************************)
(* A sequence, after its first element is taken or another joins it.       *)
(***************************************************************************)
LEMMA TailKeeps ==
    ASSUME NEW S, NEW s \in Seq(S), s # <<>>
    PROVE  /\ Tail(s) \in Seq(S) /\ Len(s) \in Nat /\ Len(s) >= 1 /\ Len(Tail(s)) = Len(s) - 1
           /\ \A i \in 1 .. Len(s) - 1 : i + 1 \in 1 .. Len(s) /\ Tail(s)[i] = s[i + 1]
           /\ Head(s) = s[1] /\ 1 \in 1 .. Len(s) /\ s[1] \in S
OBVIOUS

LEMMA AppendKeeps ==
    ASSUME NEW S, NEW s \in Seq(S), NEW e \in S
    PROVE  /\ Append(s, e) \in Seq(S) /\ Len(s) \in Nat /\ Len(Append(s, e)) = Len(s) + 1 /\ Append(s, e) # <<>>
           /\ \A i \in 1 .. Len(s) : Append(s, e)[i] = s[i]
           /\ Append(s, e)[Len(s) + 1] = e
           /\ \A i \in 1 .. Len(s) + 1 : i \in 1 .. Len(s) \/ i = Len(s) + 1
<1>1. /\ Append(s, e) \in Seq(S) /\ Len(s) \in Nat /\ Len(Append(s, e)) = Len(s) + 1
      /\ \A i \in 1 .. Len(s) : Append(s, e)[i] = s[i]
      /\ Append(s, e)[Len(s) + 1] = e
  OBVIOUS
<1>2. Append(s, e) # <<>>
  BY <1>1
<1> QED BY <1>1, <1>2

-----------------------------------------------------------------------------
(***************************************************************************)
(* Serchat.                                                                *)
(* NodeIsCurrent and LinesRunInOrder, for any number of lines typed.  The  *)
(* inductive invariant says which build can be under way while which       *)
(* command runs: a relay command comes after the boot, and waits for the   *)
(* build it asked for; and it takes the lines apart in those that ran,     *)
(* the one that runs and those that wait.                                  *)
(***************************************************************************)
TypedLine == [n : 1 .. MaxLines, kind : Prompt!Kinds]

PlacesAgree ==
    /\ running <=> command.pc # "none"
    /\ phase # "prompt" => ~running
    /\ command.pc \in {"saving", "stopping", "starting"} => command.kind = "relay"
    /\ command.pc \notin {"none", "waits"} => ready = "up" \/ command.kind = "help"
    /\ asker => command.kind = "leave" /\ command.pc = "asks"

NodeInv ==
    /\ Prompt!NodeIsCurrent
    /\ build.pc # "idle" => /\ ready = "pending" \/ command.pc = "starting"
                            /\ starting = "pending" \/ phase \in {"stopping", "exited"}
    /\ starting = "done" => build.pc = "idle"
    /\ build.pc \in {"stores", "starting"} => promptNode = Prompt!NoNode /\ build.relays = relays
    /\ build.pc = "starting" => build.handlers = handlers
    /\ command.pc # "saving" => relays = stored
    /\ command.pc = "stopping" => promptNode = Prompt!NoNode

LinesInv ==
    /\ ~running => queue = <<>>
    /\ running => command.n \in 1 .. typed /\ command.n \notin answers
    /\ \A i \in 1 .. Len(ran) : ran[i] \in 1 .. typed /\ ran[i] \notin answers /\ (running => ran[i] < command.n)
    /\ \A i \in 1 .. Len(queue) : queue[i].n \in 1 .. typed /\ queue[i].n \notin answers /\ command.n < queue[i].n
    /\ \A i, j \in 1 .. Len(ran) : i < j => ran[i] < ran[j]
    /\ \A i, j \in 1 .. Len(queue) : i < j => queue[i].n < queue[j].n
    /\ answers \subseteq 1 .. typed
    /\ ~promptClosed => \A k \in (1 .. typed) \ answers : \/ running /\ k = command.n
                                                          \/ \E i \in 1 .. Len(ran) : ran[i] = k
                                                          \/ \E i \in 1 .. Len(queue) : queue[i].n = k

HostTypes ==
    /\ promptNode \in 0 .. Prompt!NoNode /\ starting \in {"none", "pending", "done"}
    /\ build \in [pc : {"idle", "stores", "starting", "genesis"}, relays : 0 .. MaxLines,
                  handlers : SUBSET Prompt!Handlers]
    /\ relays \in 0 .. MaxLines /\ stored \in 0 .. MaxLines
    /\ handlers \subseteq Prompt!Handlers /\ attached \subseteq Prompt!Handlers
    /\ open \in BOOLEAN /\ ready \in {"pending", "up", "failed"}

LineTypes ==
    /\ typed \in 0 .. MaxLines /\ queue \in Seq(TypedLine)
    /\ command \in [n : 0 .. MaxLines, kind : Prompt!Kinds,
                    pc : {"none", "waits", "runs", "saving", "stopping", "starting", "asks"}]
    /\ running \in BOOLEAN /\ asker \in BOOLEAN /\ aborted \in BOOLEAN /\ promptClosed \in BOOLEAN
    /\ phase \in {"prompt", "leaving", "stopping", "exited"} /\ ran \in Seq(1 .. MaxLines)
    /\ answers \subseteq 1 .. MaxLines

PromptInv == HostTypes /\ LineTypes /\ PlacesAgree /\ NodeInv /\ LinesInv

LEMMA PromptTypesAre == Prompt!SerchatTypeOK <=> HostTypes /\ LineTypes
BY DEF Prompt!SerchatTypeOK, HostTypes, LineTypes, TypedLine

LEMMA PromptInitInv == Prompt!SerchatConstants /\ Prompt!SerchatInit => PromptInv
<1> SUFFICES ASSUME Prompt!SerchatConstants, Prompt!SerchatInit PROVE PromptInv
  OBVIOUS
<1> USE DEF Prompt!SerchatConstants, Prompt!SerchatInit, Prompt!NoNode, Prompt!NotBuilding, Prompt!NoCommand,
            Prompt!Handlers, Prompt!Kinds
<1>1. HostTypes
  <2>1. build = [pc |-> "stores", relays |-> 0, handlers |-> {}]
    OBVIOUS
  <2>2. build \in [pc : {"idle", "stores", "starting", "genesis"}, relays : 0 .. MaxLines,
                   handlers : SUBSET Prompt!Handlers]
    BY <2>1
  <2>3. open \in BOOLEAN
    OBVIOUS
  <2> QED BY <2>2, <2>3 DEF HostTypes
<1>2. LineTypes
  <2>1. running \in BOOLEAN /\ asker \in BOOLEAN /\ aborted \in BOOLEAN /\ promptClosed \in BOOLEAN
    OBVIOUS
  <2>2. command \in [n : 0 .. MaxLines, kind : Prompt!Kinds,
                     pc : {"none", "waits", "runs", "saving", "stopping", "starting", "asks"}]
    OBVIOUS
  <2>3. queue \in Seq(TypedLine) /\ ran \in Seq(1 .. MaxLines) /\ typed \in 0 .. MaxLines
        /\ answers \subseteq 1 .. MaxLines /\ phase \in {"prompt", "leaving", "stopping", "exited"}
    OBVIOUS
  <2> QED BY <2>1, <2>2, <2>3 DEF LineTypes
<1>3. PlacesAgree /\ NodeInv
  BY DEF PlacesAgree, NodeInv, Prompt!NodeIsCurrent
<1>4. LinesInv
  BY DEF LinesInv
<1> QED BY <1>1, <1>2, <1>3, <1>4 DEF PromptInv

LEMMA HostTypesStay ==
    Prompt!SerchatConstants /\ PromptInv /\ [Prompt!SerchatNext]_promptVars => HostTypes'
<1> SUFFICES ASSUME Prompt!SerchatConstants, HostTypes, LineTypes, [Prompt!SerchatNext]_promptVars PROVE HostTypes'
  BY DEF PromptInv
<1> USE DEF HostTypes, Prompt!SerchatConstants, Prompt!hostVars, Prompt!NoNode
<1>1. CASE UNCHANGED <<Prompt!hostVars, ready>>
  BY <1>1
<1>2. CASE Prompt!HostSteps
  <2>1. CASE Prompt!Built
    BY <2>1 DEF Prompt!Built
  <2>2. CASE Prompt!NodeUp
    <3>1. build' \in [pc : {"idle", "stores", "starting", "genesis"}, relays : 0 .. MaxLines,
                      handlers : SUBSET Prompt!Handlers]
      BY <2>2 DEF Prompt!NodeUp
    <3>2. promptNode' \in 0 .. Prompt!NoNode /\ attached' \subseteq Prompt!Handlers
      BY <2>2 DEF Prompt!NodeUp
    <3> QED BY <2>2, <3>1, <3>2 DEF Prompt!NodeUp
  <2>3. CASE Prompt!Genesis \/ Prompt!StartRefused
    <3>1. build' = [pc |-> "idle", relays |-> 0, handlers |-> {}]
      BY <2>3 DEF Prompt!Genesis, Prompt!StartRefused, Prompt!NotBuilding
    <3>2. build' \in [pc : {"idle", "stores", "starting", "genesis"}, relays : 0 .. MaxLines,
                      handlers : SUBSET Prompt!Handlers]
      BY <3>1
    <3> QED BY <2>3, <3>2 DEF Prompt!Genesis, Prompt!StartRefused
  <2> QED BY <1>2, <2>1, <2>2, <2>3 DEF Prompt!HostSteps
<1>3. CASE Prompt!Boot
  BY <1>3 DEF Prompt!Boot, Prompt!BootEnds, Prompt!BootFails, Prompt!on, Prompt!Handlers
<1>4. CASE Prompt!Follows \/ Prompt!StopsFollowing
  BY <1>4 DEF Prompt!Follows, Prompt!StopsFollowing, Prompt!on, Prompt!off, Prompt!Handlers
<1>5. CASE Prompt!applyRelays \/ Prompt!RelaysSaved
  BY <1>5 DEF Prompt!applyRelays, Prompt!RelaysSaved, Prompt!stopHost, LineTypes
<1>6. CASE Prompt!Stopped
  BY <1>6 DEF Prompt!Stopped, Prompt!ensureStarted
<1>7. CASE Prompt!ShutsDown \/ Prompt!Exits
  <2>1. open' \in BOOLEAN
    BY <1>7 DEF Prompt!ShutsDown, Prompt!Exits
  <2>4. CASE Prompt!ShutsDown
    BY <2>1, <2>4 DEF Prompt!ShutsDown, Prompt!stopHost
  <2>5. CASE Prompt!Exits
    BY <2>1, <2>5 DEF Prompt!Exits
  <2> QED BY <1>7, <2>4, <2>5
<1> QED
  BY <1>1, <1>2, <1>3, <1>4, <1>5, <1>6, <1>7
  DEF Prompt!SerchatNext, promptVars, Prompt!Commands, Prompt!Terminal, Prompt!CommandWaits, Prompt!Quit,
      Prompt!Help, Prompt!Asks, Prompt!Answered, Prompt!Restarted, Prompt!Line, Prompt!Interrupt, Prompt!Close

(* What the loop does when a line has ended. *)
LEMMA NextLineKeeps ==
    ASSUME Prompt!SerchatConstants, LineTypes, PlacesAgree, LinesInv, running, NEW leaves \in BOOLEAN, NEW left,
           left = queue \/ (left = <<>> /\ promptClosed'), Prompt!NextLine(left, leaves),
           UNCHANGED <<typed, answers>>, promptClosed => promptClosed'
    PROVE  /\ queue' \in Seq(TypedLine) /\ ran' \in Seq(1 .. MaxLines) /\ running' \in BOOLEAN
           /\ command' \in [n : 0 .. MaxLines, kind : Prompt!Kinds, pc : {"none", "waits", "runs"}]
           /\ aborted' \in BOOLEAN /\ phase' \in {phase, "leaving"}
           /\ running' <=> command'.pc # "none"
           /\ phase' # "prompt" => ~running'
           /\ command'.pc \notin {"none", "waits"} => command'.kind = "help"
           /\ LinesInv'
<1>1. ran' = Append(ran, command.n) /\ command.n \in 1 .. MaxLines
  BY DEF Prompt!NextLine, LinesInv, LineTypes
<1>2. /\ ran' \in Seq(1 .. MaxLines) /\ Len(ran') = Len(ran) + 1 /\ ran'[Len(ran) + 1] = command.n
      /\ \A i \in 1 .. Len(ran) : ran'[i] = ran[i]
  BY <1>1 DEF LineTypes
<1>3. CASE left # <<>> /\ Prompt!Take(left) /\ UNCHANGED phase
  <2>1. left = queue /\ queue # <<>> /\ queue \in Seq(TypedLine)
    BY <1>3 DEF LineTypes
  <2>2. /\ queue' \in Seq(TypedLine) /\ Len(queue) \in Nat /\ Len(queue') = Len(queue) - 1 /\ Len(queue) >= 1
        /\ \A i \in 1 .. Len(queue') : queue'[i] = queue[i + 1]
        /\ queue[1] \in TypedLine
    BY <1>3, <2>1 DEF Prompt!Take
  <2>3. /\ running' = TRUE /\ aborted' = FALSE
        /\ command' = [n |-> queue[1].n, kind |-> queue[1].kind,
                       pc |-> IF queue[1].kind = "help" THEN "runs" ELSE "waits"]
    BY <1>3, <2>1, <2>2 DEF Prompt!Take
  <2>4. /\ command' \in [n : 0 .. MaxLines, kind : Prompt!Kinds, pc : {"none", "waits", "runs"}]
        /\ command'.n = queue[1].n /\ command'.pc # "none"
        /\ command'.pc \notin {"none", "waits"} => command'.kind = "help"
    BY <2>2, <2>3 DEF TypedLine
  <2>5. \A k : (\E i \in 1 .. Len(queue) : queue[i].n = k)
                  => k = command'.n \/ \E i \in 1 .. Len(queue') : queue'[i].n = k
    <3> SUFFICES ASSUME NEW i \in 1 .. Len(queue), i # 1
                 PROVE  \E j \in 1 .. Len(queue') : queue'[j].n = queue[i].n
      BY <2>4
    <3>1. i - 1 \in 1 .. Len(queue') /\ queue'[i - 1] = queue[i]
      BY <2>2
    <3> QED BY <3>1
  <2>6. /\ \A i \in 1 .. Len(queue') : /\ queue'[i].n \in 1 .. typed /\ queue'[i].n \notin answers
                                       /\ command'.n < queue'[i].n
        /\ \A i, j \in 1 .. Len(queue') : i < j => queue'[i].n < queue'[j].n
        /\ command'.n \in 1 .. typed /\ command'.n \notin answers /\ command.n < command'.n
    <3>1. \A i \in 1 .. Len(queue') : i + 1 \in 1 .. Len(queue) /\ queue'[i] = queue[i + 1]
      BY <2>2
    <3>2. 1 \in 1 .. Len(queue) /\ command'.n = queue[1].n
      BY <2>2, <2>4
    <3>3. command'.n \in 1 .. typed /\ command'.n \notin answers /\ command.n < command'.n
      BY <3>2 DEF LinesInv
    <3>4. \A i \in 1 .. Len(queue') : queue'[i].n \in 1 .. typed /\ queue'[i].n \notin answers
      BY <3>1 DEF LinesInv
    <3>5. \A i, j \in 1 .. Len(queue) : i < j => queue[i].n < queue[j].n
      BY DEF LinesInv
    <3>6. \A i \in 1 .. Len(queue') : command'.n < queue'[i].n
      BY <2>2, <3>1, <3>2, <3>5
    <3>7. \A i, j \in 1 .. Len(queue') : i < j => queue'[i].n < queue'[j].n
      BY <2>2, <3>1, <3>5
    <3> QED BY <3>3, <3>4, <3>6, <3>7
  <2>7. \A i \in 1 .. Len(ran') : ran'[i] \in 1 .. typed /\ ran'[i] \notin answers /\ ran'[i] < command'.n
    BY <1>2, <2>6 DEF LinesInv, LineTypes
  <2>8. \A i, j \in 1 .. Len(ran') : i < j => ran'[i] < ran'[j]
    <3> SUFFICES ASSUME NEW i \in 1 .. Len(ran'), NEW j \in 1 .. Len(ran'), i < j PROVE ran'[i] < ran'[j]
      OBVIOUS
    <3>1. Len(ran) \in Nat /\ i \in 1 .. Len(ran)
      BY <1>2 DEF LineTypes
    <3>2. CASE j = Len(ran) + 1
      BY <1>2, <3>1, <3>2 DEF LinesInv
    <3>3. CASE j # Len(ran) + 1
      <4>1. j \in 1 .. Len(ran)
        BY <1>2, <3>1, <3>3
      <4> QED BY <1>2, <3>1, <4>1 DEF LinesInv
    <3> QED BY <3>2, <3>3
  <2>9. ~promptClosed' => \A k \in (1 .. typed) \ answers : \/ k = command'.n
                                                            \/ \E i \in 1 .. Len(ran') : ran'[i] = k
                                                            \/ \E i \in 1 .. Len(queue') : queue'[i].n = k
    <3> SUFFICES ASSUME ~promptClosed', NEW k \in (1 .. typed) \ answers
                 PROVE  \/ k = command'.n \/ \E i \in 1 .. Len(ran') : ran'[i] = k
                        \/ \E i \in 1 .. Len(queue') : queue'[i].n = k
      OBVIOUS
    <3>1. Len(ran) \in Nat
      BY DEF LineTypes
    <3>2. \/ k = command.n \/ \E i \in 1 .. Len(ran) : ran[i] = k
          \/ \E i \in 1 .. Len(queue) : queue[i].n = k
      BY DEF LinesInv
    <3>3. k = command.n => \E i \in 1 .. Len(ran') : ran'[i] = k
      BY <1>2, <3>1
    <3>4. (\E i \in 1 .. Len(ran) : ran[i] = k) => \E i \in 1 .. Len(ran') : ran'[i] = k
      BY <1>2, <3>1
    <3> QED BY <2>5, <3>2, <3>3, <3>4
  <2>10. LinesInv'
    BY <2>3, <2>6, <2>7, <2>8, <2>9 DEF LinesInv
  <2> QED BY <1>2, <1>3, <2>2, <2>3, <2>4, <2>10 DEF PlacesAgree
<1>4. CASE left = <<>> /\ queue' = <<>> /\ running' = FALSE /\ command' = Prompt!NoCommand
           /\ phase' = (IF leaves THEN "leaving" ELSE phase) /\ UNCHANGED aborted
  <2>1. /\ command' \in [n : 0 .. MaxLines, kind : Prompt!Kinds, pc : {"none", "waits", "runs"}]
        /\ command'.pc = "none"
    <3>1. typed \in 0 .. MaxLines /\ command' = [n |-> 0, kind |-> "help", pc |-> "none"]
      BY <1>4 DEF Prompt!NoCommand, LineTypes
    <3>2. 0 \in 0 .. MaxLines /\ "help" \in Prompt!Kinds
      BY <3>1 DEF Prompt!Kinds, Prompt!SerchatConstants
    <3> QED BY <3>1, <3>2
  <2>2. queue' \in Seq(TypedLine) /\ Len(queue') = 0
    BY <1>4
  <2>3. \A i \in 1 .. Len(ran') : ran'[i] \in 1 .. typed /\ ran'[i] \notin answers
    BY <1>2 DEF LinesInv, LineTypes
  <2>4. \A i, j \in 1 .. Len(ran') : i < j => ran'[i] < ran'[j]
    <3> SUFFICES ASSUME NEW i \in 1 .. Len(ran'), NEW j \in 1 .. Len(ran'), i < j PROVE ran'[i] < ran'[j]
      OBVIOUS
    <3>1. Len(ran) \in Nat /\ i \in 1 .. Len(ran)
      BY <1>2 DEF LineTypes
    <3>2. CASE j = Len(ran) + 1
      BY <1>2, <3>1, <3>2 DEF LinesInv
    <3>3. CASE j # Len(ran) + 1
      <4>1. j \in 1 .. Len(ran)
        BY <1>2, <3>1, <3>3
      <4> QED BY <1>2, <3>1, <4>1 DEF LinesInv
    <3> QED BY <3>2, <3>3
  <2>5. ~promptClosed' => \A k \in (1 .. typed) \ answers : \E i \in 1 .. Len(ran') : ran'[i] = k
    <3>1. CASE promptClosed'
      BY <3>1
    <3>2. CASE ~promptClosed'
      <4>1. queue = <<>> /\ ~promptClosed
        BY <1>4, <3>2
      <4>2. \A k \in (1 .. typed) \ answers : k = command.n \/ \E i \in 1 .. Len(ran) : ran[i] = k
        BY <4>1 DEF LinesInv
      <4>3. Len(ran) \in Nat
        BY DEF LineTypes
      <4>4. \E i \in 1 .. Len(ran') : ran'[i] = command.n
        BY <1>2, <4>3
      <4>5. \A i \in 1 .. Len(ran) : i \in 1 .. Len(ran') /\ ran'[i] = ran[i]
        BY <1>2, <4>3
      <4> QED BY <4>2, <4>4, <4>5
    <3> QED BY <3>1, <3>2
  <2>6. LinesInv'
    BY <1>4, <2>2, <2>3, <2>4, <2>5 DEF LinesInv
  <2> QED BY <1>2, <1>4, <2>1, <2>2, <2>6 DEF LineTypes, PlacesAgree
<1> QED BY <1>3, <1>4 DEF Prompt!NextLine

(* The lines stay as they are while a command takes a step. *)
LEMMA PlaceChanges ==
    ASSUME LineTypes, LinesInv, NEW pc \in {"none", "waits", "runs", "saving", "stopping", "starting", "asks"},
           command' = [command EXCEPT !.pc = pc], UNCHANGED <<typed, queue, running, ran, answers>>,
           promptClosed => promptClosed'
    PROVE  /\ command' \in [n : 0 .. MaxLines, kind : Prompt!Kinds,
                            pc : {"none", "waits", "runs", "saving", "stopping", "starting", "asks"}]
           /\ command'.pc = pc /\ command'.kind = command.kind /\ command'.n = command.n
           /\ LinesInv'
<1>1. /\ command' \in [n : 0 .. MaxLines, kind : Prompt!Kinds,
                       pc : {"none", "waits", "runs", "saving", "stopping", "starting", "asks"}]
      /\ command'.pc = pc /\ command'.kind = command.kind /\ command'.n = command.n
  BY DEF LineTypes
<1> HIDE DEF LineTypes
<1> QED BY <1>1 DEF LinesInv

LEMMA CommandEndsKeeps ==
    ASSUME Prompt!SerchatConstants, LineTypes, PlacesAgree, LinesInv, command.pc # "none", ~asker,
           Prompt!CommandEnds
    PROVE  LineTypes' /\ PlacesAgree' /\ LinesInv' /\ command'.pc \in {"none", "waits", "runs"}
<1>1. /\ running /\ promptClosed \in BOOLEAN /\ Prompt!NextLine(queue, promptClosed)
      /\ UNCHANGED <<typed, asker, promptClosed, answers>> /\ (promptClosed => promptClosed')
  BY DEF Prompt!CommandEnds, PlacesAgree, LineTypes
<1>2. /\ queue' \in Seq(TypedLine) /\ ran' \in Seq(1 .. MaxLines) /\ running' \in BOOLEAN
      /\ command' \in [n : 0 .. MaxLines, kind : Prompt!Kinds, pc : {"none", "waits", "runs"}]
      /\ aborted' \in BOOLEAN /\ phase' \in {phase, "leaving"}
      /\ running' <=> command'.pc # "none"
      /\ phase' # "prompt" => ~running'
      /\ command'.pc \notin {"none", "waits"} => command'.kind = "help"
      /\ LinesInv'
  BY <1>1, NextLineKeeps
<1>3. LineTypes'
  BY <1>1, <1>2 DEF LineTypes
<1> QED BY <1>1, <1>2, <1>3 DEF PlacesAgree

(* A line that is typed answers, waits or is taken. *)
LEMMA TypedKeeps ==
    ASSUME Prompt!SerchatConstants, LineTypes, PlacesAgree, LinesInv, NEW k \in Prompt!Kinds, Prompt!Line(k)
    PROVE  /\ LineTypes' /\ PlacesAgree' /\ LinesInv' /\ UNCHANGED <<Prompt!hostVars, ready>>
           /\ command' = command \/ (command.pc \in {"none", "asks"} /\ command'.pc \in {"waits", "runs"})
<1> DEFINE line == [n |-> typed + 1, kind |-> k]
           lines == Append(queue, line)
<1>1. /\ ~promptClosed /\ phase = "prompt" /\ typed \in 0 .. MaxLines /\ typed < MaxLines /\ typed' = typed + 1
      /\ UNCHANGED <<Prompt!hostVars, ready, promptClosed, phase, ran>>
  BY DEF Prompt!Line, LineTypes
<1>2. line \in TypedLine /\ typed' \in 0 .. MaxLines /\ line.n = typed + 1
  BY <1>1 DEF TypedLine, Prompt!SerchatConstants
<1>3. \A x : x \in 1 .. typed => x \in 1 .. typed' /\ x < typed + 1
  BY <1>1
<1>4. \A i \in 1 .. Len(ran) : ran'[i] \in 1 .. typed' /\ ran'[i] # typed + 1
  BY <1>1, <1>3 DEF LinesInv
<1>5. CASE asker /\ asker' = FALSE /\ command' = [command EXCEPT !.pc = "runs"]
           /\ answers' = answers \cup {typed + 1} /\ UNCHANGED <<queue, running, aborted>>
  <2>1. /\ command' \in [n : 0 .. MaxLines, kind : Prompt!Kinds,
                         pc : {"none", "waits", "runs", "saving", "stopping", "starting", "asks"}]
        /\ command'.pc = "runs" /\ command'.kind = command.kind /\ command'.n = command.n
    BY <1>5 DEF LineTypes
  <2>2. LineTypes'
    <3>1. answers' \subseteq 1 .. MaxLines
      BY <1>1, <1>2, <1>5 DEF LineTypes
    <3>2. asker' \in BOOLEAN /\ running' \in BOOLEAN /\ aborted' \in BOOLEAN /\ promptClosed' \in BOOLEAN
      BY <1>1, <1>5 DEF LineTypes
    <3>3. queue' \in Seq(TypedLine) /\ ran' \in Seq(1 .. MaxLines)
          /\ phase' \in {"prompt", "leaving", "stopping", "exited"}
      BY <1>1, <1>5 DEF LineTypes
    <3> QED BY <1>2, <2>1, <3>1, <3>2, <3>3 DEF LineTypes
  <2>3. PlacesAgree'
    BY <1>1, <1>5, <2>1 DEF PlacesAgree
  <2>4. answers' \subseteq 1 .. typed'
    BY <1>1, <1>3, <1>5 DEF LinesInv
  <2>5. ~promptClosed' => (1 .. typed') \ answers' \subseteq (1 .. typed) \ answers
    BY <1>1, <1>5
  <2>6. running' => command'.n \in 1 .. typed' /\ command'.n \notin answers'
    BY <1>1, <1>3, <1>5, <2>1 DEF LinesInv
  <2>7. \A i \in 1 .. Len(ran) : ran[i] \notin answers' /\ (running' => ran[i] < command'.n)
    BY <1>4, <1>1, <1>5, <2>1 DEF LinesInv
  <2>8. \A i \in 1 .. Len(queue) : queue[i].n \in 1 .. typed' /\ queue[i].n \notin answers' /\ command'.n < queue[i].n
    BY <1>1, <1>3, <1>5, <2>1 DEF LinesInv
  <2>9. LinesInv'
    <3> HIDE DEF line, lines
    <3>1. ~running' => queue' = <<>>
      BY <1>5 DEF LinesInv
    <3>2. ~promptClosed' => \A x \in (1 .. typed') \ answers' : \/ running' /\ x = command'.n
                                                                \/ \E i \in 1 .. Len(ran') : ran'[i] = x
                                                                \/ \E i \in 1 .. Len(queue') : queue'[i].n = x
      <4>1. \A x \in (1 .. typed') \ answers' : \/ running /\ x = command.n
                                                \/ \E i \in 1 .. Len(ran) : ran[i] = x
                                                \/ \E i \in 1 .. Len(queue) : queue[i].n = x
        BY <1>1, <2>5 DEF LinesInv
      <4> QED BY <1>1, <1>5, <2>1, <4>1
    <3>3. /\ \A i, j \in 1 .. Len(ran') : i < j => ran'[i] < ran'[j]
          /\ \A i, j \in 1 .. Len(queue') : i < j => queue'[i].n < queue'[j].n
      BY <1>1, <1>5 DEF LinesInv
    <3> QED BY <1>1, <1>4, <1>5, <2>4, <2>6, <2>7, <2>8, <3>1, <3>2, <3>3 DEF LinesInv
  <2> QED BY <1>1, <1>5, <2>1, <2>2, <2>3, <2>9 DEF PlacesAgree
<1>6. CASE ~asker /\ running /\ queue' = lines /\ UNCHANGED <<command, running, asker, aborted, answers>>
  <2>1. /\ queue' \in Seq(TypedLine) /\ Len(queue) \in Nat /\ Len(queue') = Len(queue) + 1
        /\ queue'[Len(queue) + 1] = line /\ \A i \in 1 .. Len(queue) : queue'[i] = queue[i]
    BY <1>2, <1>6 DEF LineTypes
  <2> HIDE DEF line, lines
  <2>2. LineTypes'
    BY <1>1, <1>2, <1>6, <2>1 DEF LineTypes
  <2>3. PlacesAgree'
    BY <1>1, <1>6 DEF PlacesAgree
  <2>4. \A i \in 1 .. Len(queue') : i \in 1 .. Len(queue) \/ i = Len(queue) + 1
    BY <2>1
  <2>5. typed + 1 \notin answers /\ typed + 1 \in 1 .. typed' /\ answers' \subseteq 1 .. typed'
    BY <1>1, <1>3, <1>6 DEF LinesInv
  <2>6. \A i \in 1 .. Len(queue') : /\ queue'[i].n \in 1 .. typed' /\ queue'[i].n \notin answers'
                                    /\ command'.n < queue'[i].n
    BY <1>2, <1>3, <1>6, <2>1, <2>4, <2>5 DEF LinesInv
  <2>7. \A i, j \in 1 .. Len(queue') : i < j => queue'[i].n < queue'[j].n
    <3> SUFFICES ASSUME NEW i \in 1 .. Len(queue'), NEW j \in 1 .. Len(queue'), i < j
                 PROVE  queue'[i].n < queue'[j].n
      OBVIOUS
    <3>1. i \in 1 .. Len(queue)
      BY <2>1
    <3>2. CASE j = Len(queue) + 1
      BY <1>2, <1>3, <2>1, <3>1, <3>2 DEF LinesInv
    <3>3. CASE j \in 1 .. Len(queue)
      BY <2>1, <3>1, <3>3 DEF LinesInv
    <3> QED BY <2>4, <3>2, <3>3
  <2>8. ~promptClosed' => \A x \in (1 .. typed') \ answers' : \/ running' /\ x = command'.n
                                                              \/ \E i \in 1 .. Len(ran') : ran'[i] = x
                                                              \/ \E i \in 1 .. Len(queue') : queue'[i].n = x
    <3> SUFFICES ASSUME NEW x \in (1 .. typed') \ answers'
                 PROVE  \/ running' /\ x = command'.n
                        \/ \E i \in 1 .. Len(ran') : ran'[i] = x
                        \/ \E i \in 1 .. Len(queue') : queue'[i].n = x
      OBVIOUS
    <3>1. CASE x = typed + 1
      BY <1>2, <2>1, <3>1
    <3>2. CASE x # typed + 1
      <4>1. x \in (1 .. typed) \ answers
        BY <1>1, <1>6, <3>2
      <4>2. \/ x = command.n \/ \E i \in 1 .. Len(ran) : ran[i] = x
            \/ \E i \in 1 .. Len(queue) : queue[i].n = x
        BY <1>1, <4>1 DEF LinesInv
      <4>3. (\E i \in 1 .. Len(queue) : queue[i].n = x) => \E i \in 1 .. Len(queue') : queue'[i].n = x
        BY <2>1
      <4> QED BY <1>1, <1>6, <4>2, <4>3
    <3> QED BY <3>1, <3>2
  <2>9. LinesInv'
    <3>1. running' /\ command'.n \in 1 .. typed' /\ command'.n \notin answers'
      BY <1>3, <1>6 DEF LinesInv
    <3>2. /\ \A i \in 1 .. Len(ran') : ran'[i] \notin answers' /\ ran'[i] < command'.n
          /\ \A i, j \in 1 .. Len(ran') : i < j => ran'[i] < ran'[j]
      BY <1>1, <1>6 DEF LinesInv
    <3> QED BY <1>1, <1>4, <2>5, <2>6, <2>7, <2>8, <3>1, <3>2 DEF LinesInv
  <2> QED BY <1>1, <1>6, <2>2, <2>3, <2>9
<1>7. CASE ~asker /\ ~running /\ Prompt!Take(lines) /\ UNCHANGED <<asker, answers>>
  <2>1. queue = <<>> /\ lines = <<line>>
    BY <1>7 DEF LinesInv
  <2>2. /\ queue' = <<>> /\ running' = TRUE /\ aborted' = FALSE
        /\ command' = [n |-> line.n, kind |-> line.kind, pc |-> IF line.kind = "help" THEN "runs" ELSE "waits"]
    BY <1>7, <2>1 DEF Prompt!Take
  <2>3. /\ command' \in [n : 0 .. MaxLines, kind : Prompt!Kinds,
                         pc : {"none", "waits", "runs", "saving", "stopping", "starting", "asks"}]
        /\ command'.pc \in {"waits", "runs"} /\ command'.n = typed + 1
        /\ command'.pc # "waits" => command'.kind = "help"
    BY <1>2, <2>2 DEF TypedLine
  <2> HIDE DEF line, lines
  <2>4. LineTypes'
    <3>2. asker' \in BOOLEAN /\ running' \in BOOLEAN /\ aborted' \in BOOLEAN /\ promptClosed' \in BOOLEAN
      BY <1>1, <1>7, <2>2 DEF LineTypes
    <3>3. queue' \in Seq(TypedLine) /\ ran' \in Seq(1 .. MaxLines) /\ answers' \subseteq 1 .. MaxLines
          /\ phase' \in {"prompt", "leaving", "stopping", "exited"}
      BY <1>1, <1>7, <2>2 DEF LineTypes
    <3> QED BY <1>2, <2>3, <3>2, <3>3 DEF LineTypes
  <2>5. PlacesAgree'
    BY <1>1, <1>7, <2>2, <2>3 DEF PlacesAgree
  <2>6. typed + 1 \notin answers /\ typed + 1 \in 1 .. typed' /\ answers' \subseteq 1 .. typed'
    BY <1>1, <1>3, <1>7 DEF LinesInv
  <2>7. /\ \A i \in 1 .. Len(ran') : ran'[i] \notin answers' /\ ran'[i] < command'.n
        /\ \A i, j \in 1 .. Len(ran') : i < j => ran'[i] < ran'[j]
    BY <1>1, <1>3, <1>7, <2>3 DEF LinesInv
  <2>8. ~promptClosed' => \A x \in (1 .. typed') \ answers' : \/ running' /\ x = command'.n
                                                              \/ \E i \in 1 .. Len(ran') : ran'[i] = x
                                                              \/ \E i \in 1 .. Len(queue') : queue'[i].n = x
    <3> SUFFICES ASSUME NEW x \in (1 .. typed') \ answers', x # typed + 1
                 PROVE  \E i \in 1 .. Len(ran') : ran'[i] = x
      BY <2>2, <2>3
    <3>1. x \in (1 .. typed) \ answers
      BY <1>1, <1>7
    <3> QED BY <1>1, <1>7, <2>1, <3>1 DEF LinesInv
  <2>9. LinesInv'
    BY <1>4, <1>1, <2>2, <2>3, <2>6, <2>7, <2>8, <1>7 DEF LinesInv
  <2> QED BY <1>1, <1>7, <2>3, <2>4, <2>5, <2>9 DEF PlacesAgree
<1> QED BY <1>5, <1>6, <1>7 DEF Prompt!Line

LEMMA PromptLinesStay ==
    ASSUME Prompt!SerchatConstants, PromptInv, [Prompt!SerchatNext]_promptVars
    PROVE  LineTypes' /\ PlacesAgree' /\ LinesInv'
<1>0. LineTypes /\ PlacesAgree /\ LinesInv
  BY DEF PromptInv
<1>1. CASE UNCHANGED Prompt!promptVars /\ (ready = "up" => ready' = "up")
  <2>1. UNCHANGED <<typed, queue, command, running, asker, aborted, promptClosed, phase, ran, answers>>
    BY <1>1 DEF Prompt!promptVars
  <2> QED BY <1>0, <1>1, <2>1 DEF LineTypes, PlacesAgree, LinesInv
<1>2. CASE Prompt!Boot \/ Prompt!HostSteps
  BY <1>1, <1>2 DEF Prompt!Boot, Prompt!BootEnds, Prompt!BootFails, Prompt!HostSteps, Prompt!Built,
     Prompt!NodeUp, Prompt!Genesis, Prompt!StartRefused
<1>3. ASSUME NEW k \in Prompt!Kinds, Prompt!Line(k) PROVE LineTypes' /\ PlacesAgree' /\ LinesInv'
  BY <1>0, <1>3, TypedKeeps
<1>4. CASE Prompt!Interrupt
  <2>1. aborted' = TRUE /\ UNCHANGED <<typed, queue, command, running, asker, promptClosed, phase, ran, answers, ready>>
    BY <1>4 DEF Prompt!Interrupt
  <2> QED BY <1>0, <2>1 DEF LineTypes, PlacesAgree, LinesInv
<1>5. CASE Prompt!Close
  <2>1. /\ promptClosed' = TRUE /\ asker' = FALSE /\ phase' = (IF running THEN phase ELSE "leaving")
        /\ UNCHANGED <<typed, queue, running, aborted, ran, answers, ready>>
    BY <1>5 DEF Prompt!Close
  <2>2. CASE asker /\ command' = [command EXCEPT !.pc = "runs"]
    <3>1. /\ command' \in [n : 0 .. MaxLines, kind : Prompt!Kinds,
                           pc : {"none", "waits", "runs", "saving", "stopping", "starting", "asks"}]
          /\ command'.pc = "runs" /\ command'.kind = command.kind /\ command'.n = command.n
          /\ LinesInv'
      BY <1>0, <2>1, <2>2, PlaceChanges
    <3>2. phase' \in {"prompt", "leaving", "stopping", "exited"}
      BY <1>0, <2>1 DEF LineTypes
    <3>3. LineTypes'
      BY <1>0, <2>1, <3>1, <3>2 DEF LineTypes
    <3> QED BY <1>0, <2>1, <2>2, <3>1, <3>3 DEF PlacesAgree
  <2>3. CASE ~asker /\ command' = command
    <3>1. LineTypes'
      BY <1>0, <2>1, <2>3 DEF LineTypes
    <3> QED BY <1>0, <2>1, <2>3, <3>1 DEF PlacesAgree, LinesInv
  <2> QED BY <1>5, <2>2, <2>3 DEF Prompt!Close
<1>6. CASE Prompt!CommandWaits
  <2>1. CASE ready = "up" /\ command' = [command EXCEPT !.pc = "runs"]
             /\ UNCHANGED <<typed, queue, running, asker, aborted, promptClosed, phase, ran, answers>>
    <3>1. /\ command' \in [n : 0 .. MaxLines, kind : Prompt!Kinds,
                           pc : {"none", "waits", "runs", "saving", "stopping", "starting", "asks"}]
          /\ command'.pc = "runs" /\ command'.kind = command.kind /\ command'.n = command.n
          /\ LinesInv'
      BY <1>0, <2>1, PlaceChanges
    <3>2. LineTypes'
      BY <1>0, <2>1, <3>1 DEF LineTypes
    <3> QED BY <1>0, <1>6, <2>1, <3>1, <3>2 DEF PlacesAgree, Prompt!CommandWaits
  <2>2. CASE Prompt!CommandEnds
    BY <1>0, <1>6, <2>2, CommandEndsKeeps DEF PlacesAgree, Prompt!CommandWaits
  <2> QED BY <1>6, <2>1, <2>2 DEF Prompt!CommandWaits
<1>7. CASE Prompt!Quit
  <2>1. /\ running /\ promptClosed' /\ asker' = FALSE /\ promptClosed' \in BOOLEAN /\ UNCHANGED <<ready, typed, answers>>
        /\ Prompt!NextLine(<<>>, TRUE)
    BY <1>0, <1>7 DEF Prompt!Quit, PlacesAgree
  <2>2. /\ queue' \in Seq(TypedLine) /\ ran' \in Seq(1 .. MaxLines) /\ running' \in BOOLEAN
        /\ command' \in [n : 0 .. MaxLines, kind : Prompt!Kinds, pc : {"none", "waits", "runs"}]
        /\ aborted' \in BOOLEAN /\ phase' \in {phase, "leaving"}
        /\ running' <=> command'.pc # "none"
        /\ phase' # "prompt" => ~running'
        /\ command'.pc \notin {"none", "waits"} => command'.kind = "help"
        /\ LinesInv'
    BY <1>0, <2>1, NextLineKeeps
  <2>3. LineTypes'
    BY <1>0, <2>1, <2>2 DEF LineTypes
  <2> QED BY <2>1, <2>2, <2>3 DEF PlacesAgree
<1>8. CASE Prompt!Help \/ Prompt!Answered \/ Prompt!Restarted \/ Prompt!StopsFollowing
  <2>1. command.pc # "none" /\ ~asker /\ Prompt!CommandEnds
    BY <1>0, <1>8 DEF Prompt!Help, Prompt!Answered, Prompt!Restarted, Prompt!StopsFollowing, PlacesAgree
  <2> QED BY <1>0, <2>1, CommandEndsKeeps
<1>9. CASE \/ Prompt!Asks \/ Prompt!Follows \/ Prompt!applyRelays \/ Prompt!Stopped
           \/ Prompt!RelaysSaved /\ promptNode # Prompt!NoNode
  <2>1. PICK pc \in {"asks", "saving", "stopping", "starting"} :
           /\ command' = [command EXCEPT !.pc = pc]
           /\ pc # "asks" => command.kind = "relay"
           /\ UNCHANGED <<typed, queue, running, aborted, promptClosed, phase, ran, answers, ready>>
           /\ command.pc \in {"runs", "saving", "stopping"}
           /\ command.kind # "help"
           /\ IF Prompt!Asks THEN asker' = TRUE /\ command.kind = "leave" /\ pc = "asks" ELSE UNCHANGED asker
    BY <1>9 DEF Prompt!Asks, Prompt!Follows, Prompt!applyRelays, Prompt!Stopped, Prompt!RelaysSaved
  <2>2. /\ command' \in [n : 0 .. MaxLines, kind : Prompt!Kinds,
                         pc : {"none", "waits", "runs", "saving", "stopping", "starting", "asks"}]
        /\ command'.pc = pc /\ command'.kind = command.kind /\ command'.n = command.n
        /\ LinesInv'
    BY <1>0, <2>1, PlaceChanges
  <2>3. asker' \in BOOLEAN
    BY <1>0, <2>1 DEF LineTypes
  <2>4. LineTypes'
    BY <1>0, <2>1, <2>2, <2>3 DEF LineTypes
  <2>5. PlacesAgree'
    BY <1>0, <2>1, <2>2 DEF PlacesAgree
  <2> QED BY <2>2, <2>4, <2>5
<1>10. CASE Prompt!RelaysSaved /\ promptNode = Prompt!NoNode
  <2>1. command.pc # "none" /\ ~asker /\ Prompt!CommandEnds
    BY <1>0, <1>10 DEF Prompt!RelaysSaved, PlacesAgree
  <2> QED BY <1>0, <2>1, CommandEndsKeeps
<1>11. CASE Prompt!ShutsDown \/ Prompt!Exits
  <2>1. /\ UNCHANGED <<typed, queue, command, running, asker, aborted, promptClosed, ran, answers, ready>>
        /\ phase # "prompt" /\ phase' \in {"stopping", "exited"}
    BY <1>11 DEF Prompt!ShutsDown, Prompt!Exits
  <2> QED BY <1>0, <2>1 DEF LineTypes, PlacesAgree, LinesInv
<1>12. CASE UNCHANGED promptVars
  BY <1>1, <1>12 DEF promptVars, Prompt!promptVars
<1> QED
  BY <1>2, <1>3, <1>4, <1>5, <1>6, <1>7, <1>8, <1>9, <1>10, <1>11, <1>12
  DEF Prompt!SerchatNext, Prompt!Commands, Prompt!Terminal

(* The place of the command that comes next, when a line ended. *)
LEMMA NextPlace ==
    Prompt!CommandEnds \/ Prompt!Quit => command'.pc \in {"none", "waits", "runs"}
BY DEF Prompt!CommandEnds, Prompt!Quit, Prompt!NextLine, Prompt!Take, Prompt!NoCommand

LEMMA PromptNodeStays ==
    ASSUME Prompt!SerchatConstants, PromptInv, [Prompt!SerchatNext]_promptVars
    PROVE  NodeInv'
<1>0. HostTypes /\ LineTypes /\ PlacesAgree /\ NodeInv
  BY DEF PromptInv
<1> USE DEF Prompt!NodeIsCurrent, Prompt!NoNode
<1>1. CASE /\ UNCHANGED <<promptNode, starting, build, relays, stored, handlers, attached, open>>
           /\ ready' = ready \/ (build.pc = "idle")
           /\ command'.pc \in {command.pc, "none", "waits", "runs", "asks"} 
           /\ command.pc = "saving" => command'.pc = "saving"
           /\ command.pc = "starting" => command'.pc = "starting" \/ build.pc = "idle"
           /\ phase \in {"stopping", "exited"} => phase' \in {"stopping", "exited"}
  BY <1>0, <1>1 DEF NodeInv
<1>2. CASE Prompt!BootEnds
  <2>1. build.pc = "idle" /\ UNCHANGED <<promptNode, starting, build, relays, stored, open, command, phase>>
    BY <1>0, <1>2 DEF Prompt!BootEnds, Prompt!promptVars, NodeInv
  <2>2. promptNode # Prompt!NoNode => attached' = handlers'
    BY <1>0, <1>2 DEF Prompt!BootEnds, Prompt!on, NodeInv
  <2> QED BY <1>0, <2>1, <2>2 DEF NodeInv
<1>3. CASE Prompt!HostSteps
  <2>1. /\ UNCHANGED <<relays, stored, handlers, ready, command, phase>>
    BY <1>3 DEF Prompt!HostSteps, Prompt!Built, Prompt!NodeUp, Prompt!Genesis, Prompt!StartRefused, Prompt!promptVars
  <2>2. CASE Prompt!Built
    <3>1. build'.pc = "starting" /\ build'.handlers = handlers /\ build'.relays = build.relays /\ build.pc = "stores"
          /\ UNCHANGED <<promptNode, starting, attached>>
      BY <1>0, <2>2 DEF Prompt!Built, HostTypes
    <3> QED BY <1>0, <2>1, <3>1 DEF NodeInv
  <2>3. CASE Prompt!NodeUp
    <3>1. build'.pc = "genesis" /\ build.pc = "starting" /\ promptNode' = build.relays /\ attached' = build.handlers
          /\ UNCHANGED <<starting, open>>
      BY <1>0, <2>3 DEF Prompt!NodeUp, HostTypes
    <3>2. command.pc # "saving"
      BY <1>0, <3>1 DEF NodeInv, PlacesAgree
    <3>3. promptNode' = relays /\ relays = stored /\ attached' = handlers
      BY <1>0, <3>1, <3>2 DEF NodeInv
    <3>4. starting # "done" /\ (starting = "pending" \/ phase \in {"stopping", "exited"})
          /\ (ready = "pending" \/ command.pc = "starting")
      BY <1>0, <3>1 DEF NodeInv
    <3>5. Prompt!NodeIsCurrent'
      BY <2>1, <3>1, <3>3
    <3>6. command.pc # "stopping"
      BY <1>0, <3>4 DEF PlacesAgree
    <3> QED BY <2>1, <3>1, <3>3, <3>4, <3>5, <3>6 DEF NodeInv
  <2>4. CASE Prompt!Genesis \/ Prompt!StartRefused
    <3>1. build'.pc = "idle" /\ UNCHANGED <<promptNode, attached, open>>
      BY <2>4 DEF Prompt!Genesis, Prompt!StartRefused, Prompt!NotBuilding
    <3> QED BY <1>0, <2>1, <3>1 DEF NodeInv
  <2> QED BY <1>3, <2>2, <2>3, <2>4 DEF Prompt!HostSteps
<1>4. CASE Prompt!Follows \/ Prompt!StopsFollowing
  <2>1. /\ UNCHANGED <<promptNode, starting, build, relays, stored, open, ready>>
        /\ command.pc \in {"runs", "asks"} /\ command'.pc \notin {"saving", "stopping"}
    BY <1>0, <1>4, NextPlace DEF Prompt!Follows, Prompt!StopsFollowing, LineTypes
  <2>2. build.pc = "idle"
    BY <1>0, <1>4, <2>1 DEF NodeInv, PlacesAgree, Prompt!Follows, Prompt!StopsFollowing
  <2>3. promptNode # Prompt!NoNode => attached' = handlers'
    BY <1>0, <1>4 DEF Prompt!Follows, Prompt!StopsFollowing, Prompt!on, Prompt!off, NodeInv
  <2> QED BY <1>0, <2>1, <2>2, <2>3 DEF NodeInv
<1>5. CASE Prompt!applyRelays
  <2>1. build.pc = "idle"
    BY <1>0, <1>5 DEF NodeInv, PlacesAgree, Prompt!applyRelays
  <2>2. command'.pc = "saving" /\ UNCHANGED <<promptNode, starting, build, handlers, attached>>
    BY <1>0, <1>5 DEF Prompt!applyRelays, LineTypes
  <2> QED BY <1>0, <2>1, <2>2 DEF NodeInv
<1>6. CASE Prompt!RelaysSaved
  <2>1. build.pc = "idle" /\ stored' = relays /\ UNCHANGED <<build, relays, handlers, open>>
    BY <1>0, <1>6 DEF NodeInv, PlacesAgree, Prompt!RelaysSaved
  <2>2. CASE promptNode = Prompt!NoNode /\ Prompt!CommandEnds /\ UNCHANGED <<promptNode, starting, attached>>
    BY <1>0, <2>1, <2>2, NextPlace DEF NodeInv
  <2>3. CASE Prompt!stopHost /\ command' = [command EXCEPT !.pc = "stopping"]
    <3>1. command'.pc = "stopping" /\ promptNode' = Prompt!NoNode /\ starting' = "none"
      BY <1>0, <2>3 DEF Prompt!stopHost, LineTypes
    <3> QED BY <1>0, <2>1, <3>1 DEF NodeInv
  <2> QED BY <1>6, <2>2, <2>3 DEF Prompt!RelaysSaved
<1>7. CASE Prompt!Stopped
  <2>1. /\ command'.pc = "starting" /\ starting' = "pending" /\ open' = FALSE
        /\ build' = [pc |-> "stores", relays |-> relays, handlers |-> {}]
        /\ UNCHANGED <<promptNode, relays, stored, handlers, attached>>
    BY <1>0, <1>7 DEF Prompt!Stopped, Prompt!ensureStarted, LineTypes
  <2>2. promptNode = Prompt!NoNode /\ relays = stored
    BY <1>0, <1>7 DEF Prompt!Stopped, NodeInv
  <2> QED BY <2>1, <2>2 DEF NodeInv
<1>8. CASE Prompt!ShutsDown
  <2>1. promptNode' = Prompt!NoNode /\ starting' = "none" /\ phase' = "stopping"
        /\ UNCHANGED <<build, relays, stored, handlers, open, ready, command>>
    BY <1>8 DEF Prompt!ShutsDown, Prompt!stopHost
  <2> QED BY <1>0, <2>1 DEF NodeInv
<1>9. CASE Prompt!Exits
  <2>1. /\ UNCHANGED <<promptNode, starting, build, relays, stored, handlers, attached, ready, command>>
        /\ phase' \in {"stopping", "exited"}
    BY <1>9 DEF Prompt!Exits
  <2>2. ~open => ~open'
    BY <1>9 DEF Prompt!Exits
  <2> QED BY <1>0, <2>1, <2>2 DEF NodeInv
<1>10. CASE Prompt!Restarted
  <2>1. build.pc = "idle"
    BY <1>0, <1>10 DEF Prompt!Restarted, NodeInv, PlacesAgree, LineTypes
  <2> QED BY <1>0, <1>1, <1>10, <2>1, NextPlace DEF Prompt!Restarted, Prompt!hostVars, NodeInv
<1>11. CASE Prompt!BootFails \/ UNCHANGED promptVars
  BY <1>1, <1>11 DEF Prompt!BootFails, Prompt!hostVars, Prompt!promptVars, promptVars
<1>12. ASSUME NEW k \in Prompt!Kinds, Prompt!Line(k) PROVE NodeInv'
  <2>1. /\ UNCHANGED <<Prompt!hostVars, ready, phase>>
        /\ command' = command \/ (command.pc \in {"none", "asks"} /\ command'.pc \in {"waits", "runs"})
    BY <1>0, <1>12, TypedKeeps DEF PromptInv, Prompt!Line
  <2> QED BY <1>1, <2>1 DEF Prompt!hostVars
<1>13. CASE Prompt!Interrupt \/ Prompt!Close
  <2>1. /\ UNCHANGED <<Prompt!hostVars, ready>> /\ (phase' = phase \/ (phase' = "leaving" /\ phase = "prompt"))
        /\ command' = command \/ (command.pc = "asks" /\ command'.pc = "runs")
    BY <1>0, <1>13 DEF Prompt!Interrupt, Prompt!Close, LineTypes, PlacesAgree
  <2> QED BY <1>1, <2>1 DEF Prompt!hostVars
<1>14. CASE Prompt!CommandWaits \/ Prompt!Quit \/ Prompt!Help \/ Prompt!Asks \/ Prompt!Answered
  <2>1. /\ UNCHANGED <<Prompt!hostVars, ready>> /\ command.pc \in {"waits", "runs"}
        /\ command'.pc \in {"none", "waits", "runs", "asks"}
    BY <1>0, <1>14, NextPlace
    DEF Prompt!CommandWaits, Prompt!Quit, Prompt!Help, Prompt!Asks, Prompt!Answered, LineTypes
  <2>2. phase = "prompt"
    BY <1>0, <2>1 DEF PlacesAgree, LineTypes
  <2> QED BY <1>1, <2>1, <2>2 DEF Prompt!hostVars
<1> QED
  BY <1>2, <1>3, <1>4, <1>5, <1>6, <1>7, <1>8, <1>9, <1>10, <1>11, <1>12, <1>13, <1>14
  DEF Prompt!SerchatNext, Prompt!Boot, Prompt!Commands, Prompt!Terminal

LEMMA PromptStep ==
    Prompt!SerchatConstants /\ PromptInv /\ [Prompt!SerchatNext]_promptVars => PromptInv'
<1> SUFFICES ASSUME Prompt!SerchatConstants, PromptInv, [Prompt!SerchatNext]_promptVars PROVE PromptInv'
  OBVIOUS
<1>1. HostTypes'
  BY HostTypesStay
<1>2. LineTypes' /\ PlacesAgree' /\ LinesInv'
  BY PromptLinesStay
<1>3. NodeInv'
  BY PromptNodeStays
<1> QED BY <1>1, <1>2, <1>3 DEF PromptInv

(* The lines that ran, the one that runs and those that wait, one after the other. *)
LEMMA InOrder == ASSUME Prompt!SerchatConstants, LineTypes, LinesInv PROVE Prompt!LinesRunInOrder
<1> DEFINE one == IF running THEN <<command.n>> ELSE <<>>
           waits == [i \in 1 .. Len(queue) |-> queue[i].n]
           due == ran \o one \o waits
           a == Len(ran)
           b == IF running THEN 1 ELSE 0
<1>1. /\ ran \in Seq(Int) /\ one \in Seq(Int) /\ waits \in Seq(Int) /\ Len(queue) \in Nat
      /\ Len(waits) = Len(queue) /\ Len(one) = b /\ a \in Nat /\ b \in {0, 1} /\ (running <=> b = 1)
      /\ running => one[1] = command.n
      /\ \A i \in 1 .. Len(queue) : waits[i] = queue[i].n
  <2>1. queue \in Seq(TypedLine) /\ ran \in Seq(1 .. MaxLines) /\ command.n \in Int
    BY DEF LineTypes
  <2>2. \A i \in 1 .. Len(queue) : queue[i] \in TypedLine
    BY <2>1
  <2>3. \A i \in 1 .. Len(queue) : queue[i].n \in Int
    BY <2>2 DEF TypedLine
  <2>4. waits \in Seq(Int) /\ Len(queue) \in Nat /\ Len(waits) = Len(queue)
    BY <2>1, <2>3
  <2>5. ran \in Seq(Int) /\ a \in Nat
    <3>1. \A i \in 1 .. Len(ran) : ran[i] \in Int
      BY <2>1 DEF Prompt!SerchatConstants
    <3>2. Len(ran) \in Nat /\ DOMAIN ran = 1 .. Len(ran)
      BY <2>1
    <3> QED BY <2>1, <3>1, <3>2
  <2>6. CASE running
    BY <2>1, <2>4, <2>5, <2>6
  <2>7. CASE ~running
    BY <2>1, <2>4, <2>5, <2>7
  <2> QED BY <2>6, <2>7
<1>14. a = Len(ran)
  OBVIOUS
<1>13. due = ran \o (IF running THEN <<command.n>> ELSE <<>>) \o [i \in 1 .. Len(queue) |-> queue[i].n]
  OBVIOUS
<1>15. due = (ran \o one) \o waits
  OBVIOUS
<1> HIDE DEF one, waits, a, b, due
<1> DEFINE s == ran \o one
<1>16. /\ s \in Seq(Int) /\ Len(s) = a + b
       /\ \A i \in 1 .. a : s[i] = ran[i]
       /\ running => s[a + 1] = command.n
  BY <1>1, <1>14
<1>17. due = s \o waits
  BY <1>15
<1> HIDE DEF s
<1>20. Len(s \o waits) = Len(s) + Len(waits) /\ s \o waits \in Seq(Int)
  BY <1>1, <1>16, ConcatProperties
<1>2. Len(due) = a + b + Len(queue) /\ due \in Seq(Int)
  BY <1>1, <1>16, <1>17, <1>20
<1>18. \A i \in 1 .. Len(s) : due[i] = s[i]
  BY <1>1, <1>16, <1>17
<1>19. \A i \in 1 .. Len(waits) : due[Len(s) + i] = waits[i]
  BY <1>1, <1>16, <1>17
<1>3. \A i \in 1 .. a : due[i] = ran[i]
  BY <1>1, <1>16, <1>18
<1>4. running => due[a + 1] = command.n
  BY <1>1, <1>16, <1>18
<1>5. \A i \in 1 .. Len(queue) : due[a + b + i] = queue[i].n
  BY <1>1, <1>16, <1>19
<1>7. b \in {0, 1} /\ (running <=> b = 1)
  BY <1>1
<1>6. \A i \in 1 .. Len(due) : \/ i \in 1 .. a
                               \/ b = 1 /\ i = a + 1
                               \/ i - (a + b) \in 1 .. Len(queue) /\ b = 1
  <2>1. b # 1 => Len(queue) = 0
    BY <1>7 DEF LinesInv
  <2>2. Len(queue) \in Nat /\ a \in Nat /\ Len(due) = a + b + Len(queue)
    BY <1>1, <1>2
  <2>3. CASE b = 1
    BY <2>2, <2>3
  <2>4. CASE b = 0
    BY <2>1, <2>2, <2>4
  <2> QED BY <1>7, <2>3, <2>4
<1>8. \A i \in 1 .. Len(due) - 1 : due[i] < due[i + 1]
  <2> SUFFICES ASSUME NEW i \in 1 .. Len(due) - 1 PROVE due[i] < due[i + 1]
    OBVIOUS
  <2>1. i \in 1 .. Len(due) /\ i + 1 \in 1 .. Len(due)
    BY <1>1, <1>2, <1>7
  <2>2. CASE i + 1 \in 1 .. a
    <3>1. i \in 1 .. a
      BY <1>1, <2>2
    <3> QED BY <1>3, <1>14, <2>2, <3>1 DEF LinesInv
  <2>3. CASE b = 1 /\ i + 1 = a + 1
    <3>1. i \in 1 .. a
      BY <1>1, <2>3
    <3> QED BY <1>3, <1>4, <1>7, <1>14, <2>3, <3>1 DEF LinesInv
  <2>4. CASE i + 1 - (a + b) \in 1 .. Len(queue) /\ b = 1
    <3>1. due[i + 1] = queue[i - a].n /\ i - a \in 1 .. Len(queue)
      <4>1. i - a \in 1 .. Len(queue) /\ a + b + (i - a) = i + 1
        BY <1>1, <2>4
      <4> QED BY <1>5, <4>1
    <3>2. CASE i - a = 1
      <4>1. due[i] = command.n
        BY <1>1, <1>2, <1>4, <1>7, <2>4, <3>2
      <4> QED BY <1>7, <2>4, <3>1, <4>1 DEF LinesInv
    <3>3. CASE i - a # 1
      <4>1. i - a - 1 \in 1 .. Len(queue) /\ a + b + (i - a - 1) = i
        BY <1>1, <2>4, <3>1, <3>3
      <4>2. due[i] = queue[i - a - 1].n
        BY <1>5, <4>1
      <4>3. i - a - 1 < i - a
        BY <1>1
      <4> QED BY <3>1, <4>1, <4>2, <4>3 DEF LinesInv
    <3> QED BY <3>2, <3>3
  <2>5. \/ i + 1 \in 1 .. a
        \/ b = 1 /\ i + 1 = a + 1
        \/ i + 1 - (a + b) \in 1 .. Len(queue) /\ b = 1
    <3> DEFINE k == i + 1
    <3>1. k \in 1 .. Len(due)
      BY <2>1
    <3> HIDE DEF k
    <3>2. k \in 1 .. a \/ (b = 1 /\ k = a + 1) \/ (k - (a + b) \in 1 .. Len(queue) /\ b = 1)
      BY <1>6, <3>1
    <3> QED BY <1>1, <1>2, <2>1, <3>2 DEF k
  <2> QED BY <2>2, <2>3, <2>4, <2>5
<1>9. Prompt!ToSet(due) = {due[i] : i \in 1 .. Len(due)}
  BY <1>2 DEF Prompt!ToSet
<1>10. \A i \in 1 .. Len(due) : due[i] \in (1 .. typed) \ answers
  <2> SUFFICES ASSUME NEW i \in 1 .. Len(due) PROVE due[i] \in (1 .. typed) \ answers
    OBVIOUS
  <2>1. CASE i \in 1 .. a
    BY <1>3, <1>14, <2>1 DEF LinesInv
  <2>2. CASE b = 1 /\ i = a + 1
    BY <1>4, <1>7, <2>2 DEF LinesInv
  <2>3. CASE i - (a + b) \in 1 .. Len(queue)
    <3>1. a + b + (i - (a + b)) = i
      BY <1>1, <1>7
    <3>2. due[i] = queue[i - (a + b)].n
      BY <1>5, <2>3, <3>1
    <3> QED BY <2>3, <3>2 DEF LinesInv
  <2> QED BY <1>6, <2>1, <2>2, <2>3
<1>11. ~promptClosed => \A k \in (1 .. typed) \ answers : \E i \in 1 .. Len(due) : due[i] = k
  <2> SUFFICES ASSUME ~promptClosed, NEW k \in (1 .. typed) \ answers
               PROVE  \E i \in 1 .. Len(due) : due[i] = k
    OBVIOUS
  <2>1. CASE running /\ k = command.n
    <3>1. a + 1 \in 1 .. Len(due)
      BY <1>1, <1>2, <1>7, <2>1
    <3> QED BY <1>4, <2>1, <3>1
  <2>2. ASSUME NEW i \in 1 .. Len(ran), ran[i] = k PROVE \E j \in 1 .. Len(due) : due[j] = k
    <3>1. i \in 1 .. Len(due) /\ due[i] = k
      BY <1>1, <1>2, <1>3, <1>7, <1>14, <2>2
    <3> QED BY <3>1
  <2>3. ASSUME NEW i \in 1 .. Len(queue), queue[i].n = k PROVE \E j \in 1 .. Len(due) : due[j] = k
    <3>1. a + b + i \in 1 .. Len(due) /\ due[a + b + i] = k
      BY <1>1, <1>2, <1>5, <1>7, <2>3
    <3> QED BY <3>1
  <2> QED BY <2>1, <2>2, <2>3 DEF LinesInv
<1>12. IF promptClosed THEN Prompt!ToSet(due) \cap answers = {}
       ELSE Prompt!ToSet(due) = (1 .. typed) \ answers
  BY <1>9, <1>10, <1>11
<1> QED BY <1>8, <1>12, <1>13 DEF Prompt!LinesRunInOrder

(* The command line's node is the profile's, and its lines are run in order, however many are typed. *)
LEMMA PromptHoldsAlone ==
    ASSUME Prompt!SerchatConstants
    PROVE  Prompt!SerchatInit /\ [][Prompt!SerchatNext]_promptVars =>
              [](Prompt!SerchatTypeOK /\ Prompt!NodeIsCurrent /\ Prompt!LinesRunInOrder)
<1>1. PromptInv => Prompt!SerchatTypeOK /\ Prompt!NodeIsCurrent /\ Prompt!LinesRunInOrder
  BY PromptTypesAre, InOrder DEF PromptInv, NodeInv
<1> QED BY <1>1, PromptInitInv, PromptStep, PTL

-----------------------------------------------------------------------------
(***************************************************************************)
(* NsHost.                                                                 *)
(* PartyIsSaved, for any callers, calls and launches.  The database        *)
(* answers in order and reads come before writes: the inductive invariant  *)
(* says that the write it does last is of the options in use, and that     *)
(* while a read is left, a party that is saved is everyone's already.      *)
(***************************************************************************)
Asks(i) == kv[i].sets = None
PartyInUse == nsObjects[nsOptions].partyId

ReadsComeFirst ==
    /\ \A i, j \in 1 .. Len(kv) : i < j /\ ~Asks(i) => ~Asks(j)
    /\ nsOptions = 0 => \A i \in 1 .. Len(kv) : Asks(i)

LastIsInUse ==
    nsOptions # 0 => IF kv # <<>> /\ ~Asks(Len(kv)) THEN kv[Len(kv)].sets.partyId = PartyInUse
                     ELSE nsSaved # None /\ nsSaved.partyId = PartyInUse

SavedIsRead ==
    kv # <<>> /\ Asks(1) /\ nsSaved # None =>
        /\ \A i \in 1 .. Len(kv) : Asks(i) \/ kv[i].sets.partyId = nsSaved.partyId
        /\ nsOptions # 0 => PartyInUse = nsSaved.partyId

NodesAreInUse ==
    /\ nsNode # None => nsSaved # None /\ nsOptions # 0 /\ nsNode.partyId = PartyInUse
    /\ nsBuild # None => nsSaved # None /\ nsOptions # 0 /\ nsBuild.partyId = PartyInUse
    /\ \A c \in Ns!Askers : call[c].pc = "stop" => nsSaved # None /\ nsOptions # 0

NsParts == ReadsComeFirst /\ LastIsInUse /\ SavedIsRead /\ NodesAreInUse
NsInv == Ns!NsTypeOK /\ NsParts

NsCall == [pc : {"idle", "get", "first", "build", "set", "stop", "start"}, wants : 0 .. MaxCalls]
NsOp == [by : Ns!Askers, sets : Ns!StartOptions \cup {None}]

NsTypes ==
    /\ nsObjects \in Seq(Ns!StartOptions) /\ nsOptions \in 0 .. Len(nsObjects)
    /\ nsSaved \in Ns!StartOptions \cup {None} /\ nsParties \in Nat
    /\ kv \in Seq(NsOp) /\ call \in [Ns!Askers -> NsCall]
    /\ nsNode \in Ns!StartOptions \cup {None} /\ nsBuild \in Ns!StartOptions \cup {None}
    /\ nsStarting \in BOOLEAN /\ nsCalls \in 0 .. MaxCalls /\ launches \in 0 .. MaxLaunches

LEMMA NsTypesAre == (Ns!NsTypeOK <=> NsTypes) /\ (Ns!NsTypeOK' <=> NsTypes')
BY DEF Ns!NsTypeOK, NsTypes, NsCall, NsOp

LEMMA NsInitInv == Ns!NsHostConstants /\ Ns!NsInit => NsInv
<1> SUFFICES ASSUME Ns!NsHostConstants, Ns!NsInit PROVE NsInv
  OBVIOUS
<1>1. /\ kv = <<[by |-> Host, sets |-> None]>> /\ nsObjects = <<>> /\ nsOptions = 0
      /\ nsNode = None /\ nsBuild = None /\ nsSaved = None
  BY DEF Ns!NsInit
<1>2. kv \in Seq(NsOp) /\ Len(kv) = 1 /\ kv[1].sets = None
  BY <1>1 DEF NsOp, Ns!Askers
<1>3. call \in [Ns!Askers -> NsCall] /\ \A c \in Ns!Askers : call[c].pc # "stop"
  BY DEF Ns!NsInit, Ns!NotCalling, NsCall, Ns!NsHostConstants
<1>6. nsObjects \in Seq(Ns!StartOptions) /\ nsOptions \in 0 .. Len(nsObjects)
  BY <1>1
<1>7. nsStarting \in BOOLEAN /\ nsParties \in Nat /\ nsCalls \in 0 .. MaxCalls
  BY DEF Ns!NsInit, Ns!NsHostConstants
<1>8. launches \in 0 .. MaxLaunches
  BY DEF Ns!NsInit, Ns!NsHostConstants
<1>4. Ns!NsTypeOK
  BY <1>1, <1>2, <1>3, <1>6, <1>7, <1>8, NsTypesAre DEF NsTypes
<1>5. NsParts
  BY <1>1, <1>2, <1>3 DEF NsParts, ReadsComeFirst, LastIsInUse, SavedIsRead, NodesAreInUse, Asks, PartyInUse
<1> QED BY <1>4, <1>5 DEF NsInv

(* The options of a launch are records, and none of them is None. *)
LEMMA NotNone ==
    ASSUME Ns!NsHostConstants PROVE None \notin Ns!StartOptions
BY DEF Ns!NsHostConstants, Ns!StartOptions

(* Relays written into an object leave its party, and every other object. *)
LEMMA WrittenKeeps ==
    ASSUME NEW objs \in Seq(Ns!StartOptions), NEW o \in 1 .. Len(objs), NEW c \in Ns!Askers,
           call \in [Ns!Askers -> NsCall]
    PROVE  /\ Ns!Written(objs, c, o) \in Seq(Ns!StartOptions)
           /\ Len(Ns!Written(objs, c, o)) = Len(objs)
           /\ \A i \in 1 .. Len(objs) : Ns!Written(objs, c, o)[i].partyId = objs[i].partyId
           /\ Ns!Written(objs, c, o)[o] \in Ns!StartOptions
<1>1. objs[o] \in Ns!StartOptions /\ call[c].wants \in 0 .. MaxCalls
  BY DEF NsCall
<1>2. [objs[o] EXCEPT !.relays = call[c].wants] \in Ns!StartOptions
      /\ [objs[o] EXCEPT !.relays = call[c].wants].partyId = objs[o].partyId
  BY <1>1 DEF Ns!StartOptions
<1> DEFINE x == [objs[o] EXCEPT !.relays = call[c].wants]
           w == [objs EXCEPT ![o] = x]
<1>3. [objs EXCEPT ![o].relays = call[c].wants] = w
  BY <1>1
<1> HIDE DEF x
<1>4. /\ w \in Seq(Ns!StartOptions) /\ Len(w) = Len(objs)
      /\ \A i \in 1 .. Len(objs) : w[i] = IF i = o THEN x ELSE objs[i]
  BY <1>2 DEF x
<1> HIDE DEF w
<1>5. Ns!Written(objs, c, o) = objs \/ Ns!Written(objs, c, o) = w
  BY <1>3 DEF Ns!Written
<1>6. x.partyId = objs[o].partyId
  BY <1>2 DEF x
<1>7. w \in Seq(Ns!StartOptions) /\ Len(w) = Len(objs) /\ w[o] \in Ns!StartOptions
      /\ \A i \in 1 .. Len(objs) : w[i].partyId = objs[i].partyId
  BY <1>2, <1>4, <1>6 DEF x
<1> QED BY <1>1, <1>5, <1>7

(* What startOptions returns to: the caller's next step. *)
LEMMA GotTypes ==
    ASSUME NEW c \in Ns!Askers, NEW o, nsObjects'[o] \in Ns!StartOptions, NEW others \in Seq(NsOp),
           call \in [Ns!Askers -> NsCall], nsBuild \in Ns!StartOptions \cup {None}, MaxCalls \in Nat,
           Ns!Got(c, o, others)
    PROVE  /\ call' \in [Ns!Askers -> NsCall]
           /\ \A a \in Ns!Askers : call'[a].pc = "stop" => call[a].pc = "stop"
           /\ nsBuild' = nsBuild \/ nsBuild' = nsObjects'[o]
           /\ kv' = others \/ kv' = Append(others, [by |-> c, sets |-> nsObjects'[o]])
           /\ kv' \in Seq(NsOp)
<1>1. [call[c] EXCEPT !.pc = "build"] \in NsCall /\ [call[c] EXCEPT !.pc = "set"] \in NsCall
      /\ Ns!NotCalling \in NsCall
  BY DEF NsCall, Ns!NotCalling
<1>2. [by |-> c, sets |-> nsObjects'[o]] \in NsOp
  BY DEF NsOp
<1>3. \/ /\ nsBuild' = nsObjects'[o] /\ kv' = others /\ call' = [call EXCEPT ![c] = [call[c] EXCEPT !.pc = "build"]]
      \/ /\ kv' = others /\ UNCHANGED nsBuild /\ call' = [call EXCEPT ![c] = Ns!NotCalling]
      \/ /\ kv' = Append(others, [by |-> c, sets |-> nsObjects'[o]]) /\ UNCHANGED nsBuild
         /\ call' = [call EXCEPT ![c] = [call[c] EXCEPT !.pc = "set"]]
  BY DEF Ns!Got
<1>4. [call[c] EXCEPT !.pc = "build"].pc = "build" /\ [call[c] EXCEPT !.pc = "set"].pc = "set"
      /\ Ns!NotCalling.pc = "idle"
  BY DEF NsCall, Ns!NotCalling
<1>5. call' \in [Ns!Askers -> NsCall] /\ \A a \in Ns!Askers : call'[a].pc = "stop" => call[a].pc = "stop"
  BY <1>1, <1>3, <1>4
<1>6. Append(others, [by |-> c, sets |-> nsObjects'[o]]) \in Seq(NsOp)
  BY <1>2
<1> QED BY <1>3, <1>5, <1>6

(* The first reads of a launch, each with a party of its own. *)
LEMMA GetFirstKeeps ==
    ASSUME Ns!NsHostConstants, NsInv, Ns!GetReturns, nsSaved = None PROVE NsInv'
<1>0. NsTypes /\ NsParts /\ kv # <<>> /\ kv[1].sets = None
  BY NsTypesAre, TailKeeps DEF NsInv, NsTypes, Ns!GetReturns
<1> DEFINE n == Len(nsObjects)
           c == kv[1].by
           read == [partyId |-> nsParties + 1, relays |-> 0]
           op == [by |-> c, sets |-> read]
           left == Tail(kv)
<1>1. /\ nsOptions' = n + 1 /\ nsParties' = nsParties + 1 /\ nsObjects' = Append(nsObjects, read)
      /\ kv' = Append(left, op) /\ call' = [call EXCEPT ![c] = [call[c] EXCEPT !.pc = "first"]]
      /\ UNCHANGED <<nsBuild, nsSaved, nsNode, nsStarting, nsCalls, launches>>
  <2>1. Head(kv) = kv[1]
    BY <1>0 DEF NsTypes
  <2> QED BY <2>1 DEF Ns!GetReturns
<1>2. read \in Ns!StartOptions /\ read # None /\ c \in Ns!Askers /\ op \in NsOp /\ op.sets = read
  <2>1. read \in Ns!StartOptions
    BY <1>0 DEF NsTypes, Ns!StartOptions, Ns!NsHostConstants
  <2>2. kv[1] \in NsOp
    BY <1>0, TailKeeps DEF NsTypes
  <2>3. c \in Ns!Askers
    BY <2>2 DEF NsOp
  <2> HIDE DEF read, c
  <2> QED BY <2>1, <2>3, NotNone DEF NsOp
<1>3. /\ nsObjects' \in Seq(Ns!StartOptions) /\ n \in Nat /\ Len(nsObjects') = n + 1 /\ nsObjects'[n + 1] = read
  BY <1>0, <1>1, <1>2, AppendKeeps DEF NsTypes
<1>4. /\ left \in Seq(NsOp) /\ Len(left) \in Nat /\ Len(kv) = Len(left) + 1
      /\ \A i \in 1 .. Len(left) : i + 1 \in 1 .. Len(kv) /\ left[i] = kv[i + 1]
  BY <1>0, TailKeeps DEF NsTypes
<1>10. read.partyId = nsParties + 1
  OBVIOUS
<1> HIDE DEF op, read, left, c, n
<1>5. /\ kv' \in Seq(NsOp) /\ Len(kv') = Len(left) + 1 /\ kv'[Len(kv')] = op /\ kv' # <<>>
      /\ \A i \in 1 .. Len(left) : kv'[i] = left[i]
      /\ \A i \in 1 .. Len(kv') : i \in 1 .. Len(left) \/ i = Len(left) + 1
  BY <1>1, <1>2, <1>4, AppendKeeps
<1>6. call' \in [Ns!Askers -> NsCall] /\ \A a \in Ns!Askers : call'[a].pc = "stop" => call[a].pc = "stop"
  <2>1. call[c] \in NsCall
    BY <1>0, <1>2 DEF NsTypes
  <2>2. [call[c] EXCEPT !.pc = "first"] \in NsCall /\ [call[c] EXCEPT !.pc = "first"].pc = "first"
    BY <2>1 DEF NsCall
  <2> QED BY <1>0, <1>1, <2>2 DEF NsTypes
<1>7. NsTypes'
  BY <1>0, <1>1, <1>3, <1>5, <1>6 DEF NsTypes
<1>8. ReadsComeFirst'
  <2>1. \A i, j \in 1 .. Len(left) : i < j /\ left[i].sets # None => left[j].sets # None
    <3>1. \A i, j \in 1 .. Len(kv) : i < j /\ kv[i].sets # None => kv[j].sets # None
      BY <1>0 DEF NsParts, ReadsComeFirst, Asks
    <3> QED BY <1>4, <3>1
  <2>2. nsOptions' # 0
    BY <1>1, <1>3
  <2> QED BY <1>2, <1>5, <2>1, <2>2, <1>4 DEF ReadsComeFirst, Asks
<1>9. LastIsInUse'
  BY <1>1, <1>2, <1>3, <1>5 DEF LastIsInUse, Asks, PartyInUse
<1>11. SavedIsRead' /\ NodesAreInUse'
  BY <1>0, <1>1, <1>6 DEF NsParts, SavedIsRead, NodesAreInUse
<1> QED BY <1>7, <1>8, <1>9, <1>11, NsTypesAre DEF NsInv, NsParts

(* What one more write at the end, or none, leaves of the order of the calls. *)
LEMMA GotKeeps ==
    ASSUME NsTypes, NEW c \in Ns!Askers, NEW others \in Seq(NsOp), NsTypes',
           nsOptions' # 0, nsSaved' # None, nsObjects'[nsOptions'] # None,
           kv' = others \/ kv' = Append(others, [by |-> c, sets |-> nsObjects'[nsOptions']]),
           \A i, j \in 1 .. Len(others) : i < j /\ others[i].sets # None => others[j].sets # None,
           IF others # <<>> /\ others[Len(others)].sets # None
           THEN others[Len(others)].sets.partyId = PartyInUse' ELSE nsSaved'.partyId = PartyInUse',
           others # <<>> /\ others[1].sets = None =>
              /\ nsSaved'.partyId = PartyInUse'
              /\ \A i \in 1 .. Len(others) : others[i].sets = None \/ others[i].sets.partyId = nsSaved'.partyId
    PROVE  ReadsComeFirst' /\ LastIsInUse' /\ SavedIsRead'
<1> DEFINE op == [by |-> c, sets |-> nsObjects'[nsOptions']]
<1>1. CASE kv' = others
  <2>1. ReadsComeFirst'
    BY <1>1 DEF ReadsComeFirst, Asks
  <2>2. LastIsInUse'
    BY <1>1 DEF LastIsInUse, Asks
  <2>3. SavedIsRead'
    BY <1>1 DEF SavedIsRead, Asks
  <2> QED BY <2>1, <2>2, <2>3
<1>2. CASE kv' = Append(others, op)
  <2>1. nsObjects'[nsOptions'] \in Ns!StartOptions
    BY DEF NsTypes
  <2>2. op \in NsOp /\ op.sets = nsObjects'[nsOptions'] /\ op.sets.partyId = PartyInUse' /\ op.sets # None
    BY <2>1 DEF NsOp, PartyInUse
  <2> HIDE DEF op
  <2>3. /\ Len(others) \in Nat /\ Len(kv') = Len(others) + 1 /\ kv'[Len(kv')] = op /\ kv' # <<>>
        /\ \A i \in 1 .. Len(others) : kv'[i] = others[i]
        /\ \A i \in 1 .. Len(kv') : i \in 1 .. Len(others) \/ i = Len(others) + 1
    BY <1>2, <2>2, AppendKeeps
  <2>4. ReadsComeFirst'
    BY <2>2, <2>3 DEF ReadsComeFirst, Asks
  <2>5. LastIsInUse'
    BY <2>2, <2>3 DEF LastIsInUse, Asks
  <2>6. SavedIsRead'
    <3>1. CASE others = <<>>
      BY <2>2, <2>3, <3>1 DEF SavedIsRead, Asks
    <3>2. CASE others # <<>>
      <4>1. 1 \in 1 .. Len(others)
        BY <2>3, <3>2, TailKeeps
      <4>2. kv'[1] = others[1]
        BY <2>3, <4>1
      <4> QED BY <2>2, <2>3, <3>2, <4>2 DEF SavedIsRead, Asks
    <3> QED BY <3>1, <3>2
  <2> QED BY <2>4, <2>5, <2>6
<1> QED BY <1>1, <1>2

(* A read that finds the party saved. *)
LEMMA GetSavedKeeps ==
    ASSUME Ns!NsHostConstants, NsInv, Ns!GetReturns, nsSaved # None PROVE NsInv'
<1>0. NsTypes /\ NsParts /\ kv # <<>> /\ kv[1].sets = None /\ nsSaved \in Ns!StartOptions
  BY NsTypesAre, TailKeeps DEF NsInv, NsTypes, Ns!GetReturns
<1> DEFINE n == Len(nsObjects)
           c == kv[1].by
           left == Tail(kv)
           objs == Append(nsObjects, nsSaved)
<1>1. /\ nsOptions' = n + 1 /\ nsObjects' = Ns!Written(objs, c, nsOptions')
      /\ Ns!Got(c, nsOptions', left)
      /\ UNCHANGED <<nsParties, nsSaved, nsNode, nsStarting, nsCalls, launches>>
  <2>1. Head(kv) = kv[1]
    BY <1>0 DEF NsTypes
  <2> QED BY <1>0, <2>1 DEF Ns!GetReturns
<1>2. c \in Ns!Askers
  <2>1. kv[1] \in NsOp
    BY <1>0, TailKeeps DEF NsTypes
  <2> QED BY <2>1 DEF NsOp
<1>3. objs \in Seq(Ns!StartOptions) /\ n \in Nat /\ Len(objs) = n + 1 /\ objs[n + 1] = nsSaved
  BY <1>0, AppendKeeps DEF NsTypes
<1>4. /\ left \in Seq(NsOp) /\ Len(left) \in Nat /\ Len(kv) = Len(left) + 1
      /\ \A i \in 1 .. Len(left) : i + 1 \in 1 .. Len(kv) /\ left[i] = kv[i + 1]
      /\ 1 \in 1 .. Len(kv)
  BY <1>0, TailKeeps DEF NsTypes
<1> HIDE DEF left, c, n, objs
<1>5. /\ nsObjects' \in Seq(Ns!StartOptions) /\ Len(nsObjects') = n + 1
      /\ nsObjects'[nsOptions'] \in Ns!StartOptions /\ nsObjects'[nsOptions'].partyId = nsSaved.partyId
      /\ nsOptions' \in 1 .. Len(nsObjects')
  <2>1. nsOptions' \in 1 .. Len(objs)
    BY <1>1, <1>3
  <2> QED BY <1>0, <1>1, <1>2, <1>3, <2>1, WrittenKeeps DEF NsTypes
<1>6. /\ call' \in [Ns!Askers -> NsCall]
      /\ \A a \in Ns!Askers : call'[a].pc = "stop" => call[a].pc = "stop"
      /\ nsBuild' = nsBuild \/ nsBuild' = nsObjects'[nsOptions']
      /\ kv' = left \/ kv' = Append(left, [by |-> c, sets |-> nsObjects'[nsOptions']])
      /\ kv' \in Seq(NsOp)
  BY <1>0, <1>1, <1>2, <1>4, <1>5, GotTypes DEF NsTypes, Ns!NsHostConstants
<1>7. NsTypes'
  <2>1. nsBuild' \in Ns!StartOptions \cup {None}
    BY <1>0, <1>5, <1>6 DEF NsTypes
  <2>2. nsOptions' \in 0 .. Len(nsObjects')
    BY <1>3, <1>5
  <2> QED BY <1>0, <1>1, <1>5, <1>6, <2>1, <2>2 DEF NsTypes
<1>8. PartyInUse' = nsSaved.partyId /\ nsOptions' # 0 /\ nsSaved' = nsSaved /\ nsObjects'[nsOptions'] # None
  BY <1>1, <1>3, <1>5, NotNone DEF PartyInUse
<1>9. nsOptions # 0 => PartyInUse = nsSaved.partyId
  BY <1>0 DEF NsParts, SavedIsRead, Asks
<1>10. \A i \in 1 .. Len(kv) : kv[i].sets = None \/ kv[i].sets.partyId = nsSaved.partyId
  BY <1>0 DEF NsParts, SavedIsRead, Asks
<1>11. \A i, j \in 1 .. Len(left) : i < j /\ left[i].sets # None => left[j].sets # None
  <2>1. \A i, j \in 1 .. Len(kv) : i < j /\ kv[i].sets # None => kv[j].sets # None
    BY <1>0 DEF NsParts, ReadsComeFirst, Asks
  <2> QED BY <1>4, <2>1
<1>12. left # <<>> => Len(left) \in 1 .. Len(left)
  BY <1>4
<1>13. \A i \in 1 .. Len(left) : left[i].sets = None \/ left[i].sets.partyId = nsSaved.partyId
  BY <1>4, <1>10
<1>14. ReadsComeFirst' /\ LastIsInUse' /\ SavedIsRead'
  BY <1>0, <1>2, <1>4, <1>6, <1>7, <1>8, <1>11, <1>12, <1>13, GotKeeps
<1>15. NodesAreInUse'
  <2>1. nsNode' # None => nsNode'.partyId = PartyInUse'
    BY <1>0, <1>1, <1>8, <1>9 DEF NsParts, NodesAreInUse
  <2>2. nsBuild' # None => nsBuild'.partyId = PartyInUse'
    BY <1>0, <1>5, <1>6, <1>8, <1>9 DEF NsParts, NodesAreInUse
  <2> QED BY <1>0, <1>6, <1>8, <2>1, <2>2 DEF NodesAreInUse
<1> QED BY <1>7, <1>14, <1>15, NsTypesAre DEF NsInv, NsParts

LEMMA FirstSavedKeeps == ASSUME Ns!NsHostConstants, NsInv, Ns!FirstSaved PROVE NsInv'
<1>0. NsTypes /\ NsParts /\ kv # <<>> /\ kv[1].sets # None /\ Head(kv) = kv[1] /\ kv[1] \in NsOp
  BY NsTypesAre, TailKeeps DEF NsInv, NsTypes, Ns!FirstSaved
<1> DEFINE c == kv[1].by
           left == Tail(kv)
<1>1. /\ nsSaved' = kv[1].sets /\ nsObjects' = Ns!Written(nsObjects, c, nsOptions)
      /\ Ns!Got(c, nsOptions, left)
      /\ UNCHANGED <<nsOptions, nsParties, nsNode, nsStarting, nsCalls, launches>>
  BY <1>0 DEF Ns!FirstSaved
<1>2. c \in Ns!Askers /\ nsSaved' \in Ns!StartOptions
  BY <1>0, <1>1 DEF NsOp
<1>4. /\ left \in Seq(NsOp) /\ Len(left) \in Nat /\ Len(kv) = Len(left) + 1
      /\ \A i \in 1 .. Len(left) : i + 1 \in 1 .. Len(kv) /\ left[i] = kv[i + 1]
      /\ 1 \in 1 .. Len(kv)
  BY <1>0, TailKeeps DEF NsTypes
<1> HIDE DEF left, c
<1>3. nsOptions \in 1 .. Len(nsObjects) /\ nsOptions # 0
  BY <1>0, <1>4 DEF NsParts, ReadsComeFirst, Asks, NsTypes
<1>5. /\ nsObjects' \in Seq(Ns!StartOptions) /\ Len(nsObjects') = Len(nsObjects)
      /\ nsObjects'[nsOptions'] \in Ns!StartOptions /\ PartyInUse' = PartyInUse
  BY <1>0, <1>1, <1>2, <1>3, WrittenKeeps DEF NsTypes, PartyInUse
<1>6. /\ call' \in [Ns!Askers -> NsCall]
      /\ \A a \in Ns!Askers : call'[a].pc = "stop" => call[a].pc = "stop"
      /\ nsBuild' = nsBuild \/ nsBuild' = nsObjects'[nsOptions']
      /\ kv' = left \/ kv' = Append(left, [by |-> c, sets |-> nsObjects'[nsOptions']])
      /\ kv' \in Seq(NsOp)
  <2>1. nsOptions' = nsOptions
    BY <1>1
  <2> QED BY <1>0, <1>1, <1>2, <1>4, <1>5, <2>1, GotTypes DEF NsTypes, Ns!NsHostConstants
<1>7. NsTypes'
  <2>1. nsBuild' \in Ns!StartOptions \cup {None}
    BY <1>0, <1>5, <1>6 DEF NsTypes
  <2>2. nsOptions' \in 0 .. Len(nsObjects')
    BY <1>0, <1>1, <1>5 DEF NsTypes
  <2> QED BY <1>0, <1>1, <1>2, <1>5, <1>6, <2>1, <2>2 DEF NsTypes
<1>8. nsOptions' # 0 /\ nsSaved' # None /\ nsObjects'[nsOptions'] # None
  BY <1>1, <1>2, <1>3, <1>5, NotNone
<1>9. \A i \in 1 .. Len(left) : left[i].sets # None
  <2>1. \A j \in 1 .. Len(kv) : 1 < j => kv[j].sets # None
    BY <1>0, <1>4 DEF NsParts, ReadsComeFirst, Asks
  <2> QED BY <1>4, <2>1
<1>10. IF left # <<>> /\ left[Len(left)].sets # None
       THEN left[Len(left)].sets.partyId = PartyInUse' ELSE nsSaved'.partyId = PartyInUse'
  <2>1. kv[Len(kv)].sets # None /\ Len(kv) \in 1 .. Len(kv)
    <3>1. \A j \in 1 .. Len(kv) : 1 < j => kv[j].sets # None
      BY <1>0, <1>4 DEF NsParts, ReadsComeFirst, Asks
    <3> QED BY <1>0, <1>4, <3>1
  <2>2. kv[Len(kv)].sets.partyId = PartyInUse
    BY <1>0, <1>3, <2>1 DEF NsParts, LastIsInUse, Asks
  <2>3. CASE left = <<>>
    <3>1. Len(kv) = 1
      BY <1>4, <2>3
    <3> QED BY <1>1, <1>5, <2>2, <2>3, <3>1
  <2>4. CASE left # <<>>
    <3>1. Len(left) \in 1 .. Len(left) /\ Len(left) + 1 = Len(kv)
      BY <1>4, <2>4
    <3>2. left[Len(left)] = kv[Len(kv)]
      BY <1>4, <3>1
    <3> QED BY <1>5, <2>1, <2>2, <2>4, <3>2
  <2> QED BY <2>3, <2>4
<1>11. left # <<>> => 1 \in 1 .. Len(left)
  BY <1>4
<1>14. ReadsComeFirst' /\ LastIsInUse' /\ SavedIsRead'
  BY <1>0, <1>2, <1>4, <1>6, <1>7, <1>8, <1>9, <1>10, <1>11, GotKeeps
<1>15. NodesAreInUse'
  <2>1. nsNode' # None => nsNode'.partyId = PartyInUse'
    BY <1>0, <1>1, <1>5 DEF NsParts, NodesAreInUse
  <2>2. nsBuild' # None => nsBuild'.partyId = PartyInUse'
    BY <1>0, <1>5, <1>6 DEF NsParts, NodesAreInUse, PartyInUse
  <2> QED BY <1>0, <1>6, <1>8, <2>1, <2>2 DEF NodesAreInUse
<1> QED BY <1>7, <1>14, <1>15, NsTypesAre DEF NsInv, NsParts

LEMMA CallsKeep ==
    ASSUME Ns!NsHostConstants, NsInv, NEW c \in Screens, NEW w \in 0 .. MaxCalls, Ns!Calls(c, w) PROVE NsInv'
<1>0. NsTypes /\ NsParts /\ c \in Ns!Askers
  BY NsTypesAre DEF NsInv, Ns!Askers
<1>1. /\ nsCalls' \in 0 .. MaxCalls
      /\ UNCHANGED <<nsOptions, nsSaved, nsParties, nsNode, nsBuild, nsStarting, launches>>
  BY <1>0 DEF Ns!Calls, NsTypes, Ns!NsHostConstants
<1>2. [pc |-> "get", wants |-> w] \in NsCall /\ [pc |-> "set", wants |-> w] \in NsCall
  BY DEF NsCall
<1>3. CASE nsOptions = 0
  <2> DEFINE op == [by |-> c, sets |-> None]
  <2>1. kv' = Append(kv, op) /\ nsObjects' = nsObjects /\ call' = [call EXCEPT ![c] = [pc |-> "get", wants |-> w]]
    BY <1>3 DEF Ns!Calls
  <2>2. op \in NsOp /\ op.sets = None
    BY <1>0 DEF NsOp
  <2> HIDE DEF op
  <2>3. /\ kv' \in Seq(NsOp) /\ Len(kv) \in Nat /\ Len(kv') = Len(kv) + 1 /\ kv' # <<>> /\ kv'[Len(kv) + 1] = op
        /\ \A i \in 1 .. Len(kv) : kv'[i] = kv[i]
        /\ \A i \in 1 .. Len(kv') : i \in 1 .. Len(kv) \/ i = Len(kv) + 1
    BY <1>0, <2>1, <2>2, AppendKeeps DEF NsTypes
  <2>4. /\ call' \in [Ns!Askers -> NsCall]
        /\ \A a \in Ns!Askers : call'[a].pc = "stop" => call[a].pc = "stop"
    BY <1>0, <1>2, <2>1 DEF NsTypes
  <2>5. NsTypes'
    BY <1>0, <1>1, <2>1, <2>3, <2>4 DEF NsTypes
  <2>6. \A i \in 1 .. Len(kv') : kv'[i].sets = None
    BY <1>0, <1>3, <2>2, <2>3 DEF NsParts, ReadsComeFirst, Asks
  <2>7. ReadsComeFirst' /\ LastIsInUse' /\ SavedIsRead'
    BY <1>1, <1>3, <2>6 DEF ReadsComeFirst, LastIsInUse, SavedIsRead, Asks
  <2>8. NodesAreInUse'
    BY <1>0, <1>1, <1>3, <2>4 DEF NsParts, NodesAreInUse
  <2> QED BY <2>5, <2>7, <2>8, NsTypesAre DEF NsInv, NsParts
<1>4. CASE nsOptions # 0
  <2>0. nsOptions \in 1 .. Len(nsObjects) /\ nsOptions' = nsOptions
    BY <1>0, <1>1, <1>4 DEF NsTypes
  <2>8. nsObjects[nsOptions] \in Ns!StartOptions
    BY <1>0, <2>0 DEF NsTypes
  <2> DEFINE x == [nsObjects[nsOptions] EXCEPT !.relays = w]
             op == [by |-> c, sets |-> nsObjects'[nsOptions]]
  <2>1. /\ nsObjects' = [nsObjects EXCEPT ![nsOptions] = x]
        /\ kv' = Append(kv, op) /\ call' = [call EXCEPT ![c] = [pc |-> "set", wants |-> w]]
    BY <1>4 DEF Ns!Calls
  <2>2. x \in Ns!StartOptions /\ x.partyId = nsObjects[nsOptions].partyId
    BY <2>8 DEF Ns!StartOptions
  <2> HIDE DEF x
  <2>3. /\ nsObjects' \in Seq(Ns!StartOptions) /\ Len(nsObjects') = Len(nsObjects)
        /\ nsObjects'[nsOptions'] = x /\ nsObjects'[nsOptions] = x
    BY <1>0, <2>0, <2>1, <2>2 DEF NsTypes
  <2>4. op \in NsOp /\ op.sets = x /\ op.sets # None
    BY <1>0, <2>2, <2>3, NotNone DEF NsOp
  <2>5. PartyInUse' = PartyInUse /\ nsObjects'[nsOptions'] # None /\ x.partyId = PartyInUse
    BY <2>2, <2>3, NotNone DEF PartyInUse
  <2> HIDE DEF op
  <2>6. /\ kv' \in Seq(NsOp) /\ Len(kv) \in Nat /\ Len(kv') = Len(kv) + 1 /\ kv' # <<>> /\ kv'[Len(kv')] = op
        /\ \A i \in 1 .. Len(kv) : kv'[i] = kv[i]
        /\ \A i \in 1 .. Len(kv') : i \in 1 .. Len(kv) \/ i = Len(kv) + 1
    BY <1>0, <2>1, <2>4, AppendKeeps DEF NsTypes
  <2>7. /\ call' \in [Ns!Askers -> NsCall]
        /\ \A a \in Ns!Askers : call'[a].pc = "stop" => call[a].pc = "stop"
    BY <1>0, <1>2, <2>1 DEF NsTypes
  <2>9. NsTypes'
    BY <1>0, <1>1, <2>3, <2>6, <2>7 DEF NsTypes
  <2>10. ReadsComeFirst'
    BY <1>0, <1>1, <1>4, <2>4, <2>6 DEF NsParts, ReadsComeFirst, Asks
  <2>11. LastIsInUse'
    BY <2>4, <2>5, <2>6 DEF LastIsInUse, Asks
  <2>12. SavedIsRead'
    <3>1. CASE kv = <<>>
      BY <2>4, <2>6, <3>1 DEF SavedIsRead, Asks
    <3>2. CASE kv # <<>>
      <4>1. kv'[1] = kv[1]
        BY <2>6, <3>2
      <4> QED BY <1>0, <1>1, <1>4, <2>4, <2>5, <2>6, <3>2, <4>1 DEF NsParts, SavedIsRead, Asks
    <3> QED BY <3>1, <3>2
  <2>13. NodesAreInUse'
    BY <1>0, <1>1, <2>5, <2>7 DEF NsParts, NodesAreInUse
  <2> QED BY <2>9, <2>10, <2>11, <2>12, <2>13, NsTypesAre DEF NsInv, NsParts
<1> QED BY <1>3, <1>4

LEMMA RelaysSavedKeeps == ASSUME Ns!NsHostConstants, NsInv, Ns!RelaysSaved PROVE NsInv'
<1>0. NsTypes /\ NsParts /\ kv # <<>> /\ kv[1].sets # None /\ Head(kv) = kv[1] /\ kv[1] \in NsOp
  BY NsTypesAre, TailKeeps DEF NsInv, NsTypes, Ns!RelaysSaved
<1>1. /\ nsSaved' = kv[1].sets /\ kv' = Tail(kv) /\ nsNode' = None
      /\ nsStarting' = (nsStarting /\ nsNode = None)
      /\ UNCHANGED <<nsObjects, nsOptions, nsParties, nsBuild, nsCalls, launches>>
  BY <1>0 DEF Ns!RelaysSaved
<1>2. nsSaved' \in Ns!StartOptions /\ nsSaved' # None /\ kv[1].by \in Ns!Askers
  BY <1>0, <1>1, NotNone DEF NsOp
<1>3. /\ kv' \in Seq(NsOp) /\ Len(kv') \in Nat /\ Len(kv) = Len(kv') + 1
      /\ \A i \in 1 .. Len(kv') : i + 1 \in 1 .. Len(kv) /\ kv'[i] = kv[i + 1]
      /\ 1 \in 1 .. Len(kv)
  BY <1>0, <1>1, TailKeeps DEF NsTypes
<1>4. nsOptions # 0
  BY <1>0, <1>3 DEF NsParts, ReadsComeFirst, Asks
<1>5. \A j \in 1 .. Len(kv) : kv[j].sets # None
  BY <1>0, <1>3 DEF NsParts, ReadsComeFirst, Asks
<1>6. kv[Len(kv)].sets.partyId = PartyInUse /\ Len(kv) \in 1 .. Len(kv)
  BY <1>0, <1>3, <1>4, <1>5 DEF NsParts, LastIsInUse, Asks
<1>7. call' \in [Ns!Askers -> NsCall]
  <2>1. call[kv[1].by] \in NsCall
    BY <1>0, <1>2 DEF NsTypes
  <2>2. [call[kv[1].by] EXCEPT !.pc = "stop"] \in NsCall /\ Ns!NotCalling \in NsCall
    BY <2>1 DEF NsCall, Ns!NotCalling, Ns!NsHostConstants
  <2>3. \/ call' = [call EXCEPT ![kv[1].by] = Ns!NotCalling]
        \/ call' = [call EXCEPT ![kv[1].by] = [call[kv[1].by] EXCEPT !.pc = "stop"]]
    BY <1>0 DEF Ns!RelaysSaved
  <2> QED BY <1>0, <2>2, <2>3 DEF NsTypes
<1>8. nsStarting' \in BOOLEAN
  BY <1>1
<1>9. NsTypes'
  BY <1>0, <1>1, <1>2, <1>3, <1>7, <1>8 DEF NsTypes
<1>10. ReadsComeFirst' /\ SavedIsRead'
  BY <1>1, <1>3, <1>4, <1>5 DEF ReadsComeFirst, SavedIsRead, Asks
<1>11. LastIsInUse'
  <2>1. PartyInUse' = PartyInUse
    BY <1>1 DEF PartyInUse
  <2>2. CASE kv' = <<>>
    <3>1. Len(kv) = 1
      BY <1>3, <2>2
    <3> QED BY <1>1, <1>2, <1>6, <2>1, <2>2, <3>1 DEF LastIsInUse
  <2>3. CASE kv' # <<>>
    <3>1. Len(kv') \in 1 .. Len(kv') /\ Len(kv') + 1 = Len(kv)
      BY <1>3, <2>3
    <3>2. kv'[Len(kv')] = kv[Len(kv)]
      BY <1>3, <3>1
    <3> QED BY <1>5, <1>6, <2>1, <2>3, <3>2 DEF LastIsInUse, Asks
  <2> QED BY <2>2, <2>3
<1>12. NodesAreInUse'
  BY <1>0, <1>1, <1>2, <1>4 DEF NsParts, NodesAreInUse, PartyInUse
<1> QED BY <1>9, <1>10, <1>11, <1>12, NsTypesAre DEF NsInv, NsParts

LEMMA StoppedKeeps == ASSUME Ns!NsHostConstants, NsInv, NEW c \in Screens, Ns!Stopped(c) PROVE NsInv'
<1>0. NsTypes /\ NsParts /\ c \in Ns!Askers /\ Host \in Ns!Askers
  BY NsTypesAre DEF NsInv, Ns!Askers
<1>1. /\ call[c].pc = "stop"
      /\ UNCHANGED <<nsObjects, nsOptions, nsSaved, nsParties, kv, nsNode, nsCalls, launches>>
  BY DEF Ns!Stopped
<1>2. nsSaved # None /\ nsOptions # 0 /\ nsObjects[nsOptions] \in Ns!StartOptions
  BY <1>0, <1>1 DEF NsParts, NodesAreInUse, NsTypes
<1>3. /\ nsBuild' = nsBuild \/ nsBuild' = nsObjects[nsOptions]
      /\ nsStarting' = nsStarting \/ nsStarting' = TRUE
  BY DEF Ns!Stopped
<1>4. /\ call' \in [Ns!Askers -> NsCall]
      /\ \A a \in Ns!Askers : call'[a].pc = "stop" => call[a].pc = "stop"
  <2> DEFINE f == [call EXCEPT ![c] = [call[c] EXCEPT !.pc = "start"]]
             g == [f EXCEPT ![Host] = [f[Host] EXCEPT !.pc = "build"]]
  <2>1. f \in [Ns!Askers -> NsCall] /\ \A a \in Ns!Askers : f[a].pc = "stop" => call[a].pc = "stop"
    <3>1. [call[c] EXCEPT !.pc = "start"] \in NsCall /\ [call[c] EXCEPT !.pc = "start"].pc = "start"
      BY <1>0 DEF NsTypes, NsCall
    <3> QED BY <1>0, <3>1 DEF NsTypes
  <2>2. call' = f \/ call' = g
    BY DEF Ns!Stopped
  <2> HIDE DEF f
  <2>3. g \in [Ns!Askers -> NsCall] /\ \A a \in Ns!Askers : g[a].pc = "stop" => f[a].pc = "stop"
    <3>1. [f[Host] EXCEPT !.pc = "build"] \in NsCall /\ [f[Host] EXCEPT !.pc = "build"].pc = "build"
      BY <1>0, <2>1 DEF NsCall
    <3> QED BY <1>0, <2>1, <3>1
  <2> HIDE DEF g
  <2> QED BY <2>1, <2>2, <2>3
<1>5. NsTypes'
  <2>1. nsBuild' \in Ns!StartOptions \cup {None} /\ nsStarting' \in BOOLEAN
    BY <1>0, <1>2, <1>3 DEF NsTypes
  <2> QED BY <1>0, <1>1, <1>4, <2>1 DEF NsTypes
<1>6. ReadsComeFirst' /\ LastIsInUse' /\ SavedIsRead'
  BY <1>0, <1>1 DEF NsParts, ReadsComeFirst, LastIsInUse, SavedIsRead, Asks, PartyInUse
<1>7. NodesAreInUse'
  BY <1>0, <1>1, <1>2, <1>3, <1>4 DEF NsParts, NodesAreInUse, PartyInUse
<1> QED BY <1>5, <1>6, <1>7, NsTypesAre DEF NsInv, NsParts

(* The node is up, or its start failed. *)
LEMMA NodeEndsKeeps == ASSUME Ns!NsHostConstants, NsInv, Ns!NodeUp \/ Ns!StartFails PROVE NsInv'
<1>0. NsTypes /\ NsParts
  BY NsTypesAre DEF NsInv
<1>1. /\ nsBuild' = None /\ (nsNode' = nsNode \/ nsNode' = nsBuild)
      /\ call' = [c \in Ns!Askers |-> IF call[c].pc \in {"build", "start"} THEN Ns!NotCalling ELSE call[c]]
      /\ nsStarting' = nsStarting \/ nsStarting' = FALSE
      /\ UNCHANGED <<nsObjects, nsOptions, nsSaved, nsParties, kv, nsCalls, launches>>
  BY DEF Ns!NodeUp, Ns!StartFails
<1>2. /\ call' \in [Ns!Askers -> NsCall]
      /\ \A a \in Ns!Askers : call'[a].pc = "stop" => call[a].pc = "stop"
  BY <1>0, <1>1 DEF NsTypes, Ns!NotCalling, NsCall, Ns!NsHostConstants
<1>3. nsNode' \in Ns!StartOptions \cup {None} /\ nsBuild' \in Ns!StartOptions \cup {None} /\ nsStarting' \in BOOLEAN
  BY <1>0, <1>1 DEF NsTypes
<1>4. NsTypes'
  BY <1>0, <1>1, <1>2, <1>3 DEF NsTypes
<1>5. ReadsComeFirst' /\ LastIsInUse' /\ SavedIsRead'
  BY <1>0, <1>1 DEF NsParts, ReadsComeFirst, LastIsInUse, SavedIsRead, Asks, PartyInUse
<1>6. NodesAreInUse'
  BY <1>0, <1>1, <1>2 DEF NsParts, NodesAreInUse, PartyInUse
<1> QED BY <1>4, <1>5, <1>6, NsTypesAre DEF NsInv, NsParts

LEMMA RelaunchKeeps == ASSUME Ns!NsHostConstants, NsInv, Ns!Relaunch PROVE NsInv'
<1>0. NsTypes
  BY NsTypesAre DEF NsInv
<1>1. /\ kv' = <<[by |-> Host, sets |-> None]>> /\ nsObjects' = <<>> /\ nsOptions' = 0
      /\ nsNode' = None /\ nsBuild' = None /\ nsStarting' = TRUE /\ UNCHANGED <<nsSaved, nsParties, nsCalls>>
  BY DEF Ns!Relaunch, Ns!Launched
<1>2. kv' \in Seq(NsOp) /\ Len(kv') = 1 /\ kv'[1].sets = None
  BY <1>1 DEF NsOp, Ns!Askers
<1>3. call' \in [Ns!Askers -> NsCall] /\ \A c \in Ns!Askers : call'[c].pc # "stop"
  BY DEF Ns!Relaunch, Ns!Launched, Ns!NotCalling, NsCall, Ns!NsHostConstants
<1>4. launches' \in 0 .. MaxLaunches
  BY <1>0 DEF Ns!Relaunch, Ns!NsHostConstants, NsTypes
<1>5. NsTypes'
  <2>1. nsObjects' \in Seq(Ns!StartOptions) /\ nsOptions' \in 0 .. Len(nsObjects') /\ nsStarting' \in BOOLEAN
    BY <1>1
  <2> QED BY <1>0, <1>1, <1>2, <1>3, <1>4, <2>1 DEF NsTypes
<1>6. ReadsComeFirst' /\ LastIsInUse' /\ SavedIsRead' /\ NodesAreInUse'
  BY <1>1, <1>2, <1>3 DEF ReadsComeFirst, LastIsInUse, SavedIsRead, NodesAreInUse, Asks, PartyInUse
<1> QED BY <1>5, <1>6, NsTypesAre DEF NsInv, NsParts

LEMMA NsStep == Ns!NsHostConstants /\ NsInv /\ [Ns!NsNext]_nsVars => NsInv'
<1> SUFFICES ASSUME Ns!NsHostConstants, NsInv, [Ns!NsNext]_nsVars PROVE NsInv'
  OBVIOUS
<1>1. CASE Ns!GetReturns
  BY <1>1, GetFirstKeeps, GetSavedKeeps
<1>2. ASSUME NEW c \in Screens, Ns!getRelayAddrs(c) \/ Ns!applyRelays(c) PROVE NsInv'
  <2>1. nsCalls \in 0 .. MaxCalls /\ nsCalls < MaxCalls
    BY <1>2, NsTypesAre DEF NsInv, NsTypes, Ns!getRelayAddrs, Ns!applyRelays, Ns!Calls
  <2>2. 0 \in 0 .. MaxCalls /\ nsCalls + 1 \in 0 .. MaxCalls
    BY <2>1 DEF Ns!NsHostConstants
  <2> QED BY <1>2, <2>2, CallsKeep DEF Ns!getRelayAddrs, Ns!applyRelays
<1>3. CASE UNCHANGED nsVars
  BY <1>3, NsTypesAre DEF nsVars, NsInv, NsTypes, NsParts, ReadsComeFirst, LastIsInUse, SavedIsRead,
     NodesAreInUse, Asks, PartyInUse
<1> QED
  BY <1>1, <1>2, <1>3, FirstSavedKeeps, RelaysSavedKeeps, NodeEndsKeeps, RelaunchKeeps, StoppedKeeps DEF Ns!NsNext

(* The NativeScript node runs with the party that was saved, whatever the callers, calls and launches. *)
LEMMA PartySavedAlone ==
    ASSUME Ns!NsHostConstants
    PROVE  Ns!NsInit /\ [][Ns!NsNext]_nsVars => [](Ns!NsTypeOK /\ Ns!PartyIsSaved)
<1>1. NsInv => Ns!NsTypeOK /\ Ns!PartyIsSaved
  <2> SUFFICES ASSUME NsInv PROVE Ns!PartyIsSaved
    BY DEF NsInv
  <2> QED BY DEF NsInv, NsParts, LastIsInUse, NodesAreInUse, PartyInUse, Ns!PartyIsSaved
<1> QED BY <1>1, NsInitInv, NsStep, PTL

-----------------------------------------------------------------------------
(***************************************************************************)
(* PhoneEvents.                                                            *)
(* AwakeInFront, OneAtATime and ReachIsShown, for any strands, addresses,  *)
(* nodes and returns.  The inductive invariant says who will wake a strand *)
(* that hibernates in the front: a sweep of the node that runs has still   *)
(* to reach it, or it was missed; that a wake under way has its sweep      *)
(* waiting at the strand; and what a change of addresses was last told of. *)
(***************************************************************************)
Sweep == [of : 0 .. MaxBuilt, todo : SUBSET Asleep, at : Asleep \cup {Events!NoOne}]

SweptInFront ==
    /\ eventsNode = 0 => \A s \in Asleep : strandStatus[s] = "stopped"
    /\ appState = "front" => \A s \in Asleep : strandStatus[s] = "hibernating" =>
          s \in wakesMissed \/ \E i \in 1 .. MaxSweeps : sweeps[i].of = eventsNode /\ s \in sweeps[i].todo

WakesAreAwaited ==
    /\ \A i \in 1 .. MaxSweeps : i > sweepsBegun => sweeps[i].of = 0
    /\ \A i \in 1 .. MaxSweeps : sweeps[i].at # Events!NoOne => sweeps[i].of # 0
    /\ \A s \in Asleep : wakes[s] # 0 => \E i \in 1 .. MaxSweeps : sweeps[i].at = s
    /\ sweepsOverlapped \/ \A i, j \in 1 .. MaxSweeps : sweeps[i].of # 0 /\ sweeps[j].of # 0 => i = j

ChangesAreSeen ==
    /\ IF addrsMoved THEN addrsShown = lastSeenAddrs ELSE lastSeenAddrs = {}
    /\ Events!ReachIsShown

EventsInv == Events!PhoneEventsTypeOK /\ SweptInFront /\ WakesAreAwaited /\ ChangesAreSeen

EventsRest ==
    /\ appState \in {"front", "back", "returning"} /\ eventsNode \in 0 .. MaxBuilt /\ nodesBuilt \in 0 .. MaxBuilt
    /\ strandStatus \in [Asleep -> {"stopped", "active", "starting", "hibernating"}]
    /\ sweepsBegun \in 0 .. MaxSweeps /\ wakes \in [Asleep -> 0 .. MaxBuilt]
    /\ sweepsOverlapped \in BOOLEAN /\ updated \in BOOLEAN /\ addrsMoved \in BOOLEAN
    /\ wakesMissed \in SUBSET Asleep
    /\ addrs \in SUBSET Addrs /\ lastSeenAddrs \in SUBSET Addrs /\ addrsShown \in SUBSET Addrs

LEMMA EventsTypesAre ==
    /\ Events!PhoneEventsTypeOK <=> sweeps \in [1 .. MaxSweeps -> Sweep] /\ EventsRest
    /\ Events!PhoneEventsTypeOK' <=> sweeps' \in [1 .. MaxSweeps -> Sweep] /\ EventsRest'
BY DEF Events!PhoneEventsTypeOK, Sweep, EventsRest

LEMMA EventsInitInv == Events!PhoneEventsConstants /\ Events!PhoneEventsInit => EventsInv
<1> SUFFICES ASSUME Events!PhoneEventsConstants, Events!PhoneEventsInit PROVE EventsInv
  OBVIOUS
<1>1. Events!NoSweep \in Sweep
  BY DEF Events!PhoneEventsConstants, Events!NoSweep, Sweep
<1>2. sweeps \in [1 .. MaxSweeps -> Sweep]
  BY <1>1 DEF Events!PhoneEventsInit
<1>3. strandStatus \in [Asleep -> {"stopped", "active", "starting", "hibernating"}] /\ wakes \in [Asleep -> 0 .. MaxBuilt]
  BY DEF Events!PhoneEventsConstants, Events!PhoneEventsInit
<1>5. EventsRest
  <2>1. eventsNode \in 0 .. MaxBuilt /\ nodesBuilt \in 0 .. MaxBuilt /\ sweepsBegun \in 0 .. MaxSweeps
    BY DEF Events!PhoneEventsConstants, Events!PhoneEventsInit
  <2>2. /\ appState \in {"front", "back", "returning"} /\ wakesMissed \in SUBSET Asleep
        /\ addrs \in SUBSET Addrs /\ lastSeenAddrs \in SUBSET Addrs /\ addrsShown \in SUBSET Addrs
    BY DEF Events!PhoneEventsInit
  <2>3. sweepsOverlapped \in BOOLEAN /\ updated \in BOOLEAN /\ addrsMoved \in BOOLEAN
    BY DEF Events!PhoneEventsInit
  <2> QED BY <1>3, <2>1, <2>2, <2>3 DEF EventsRest
<1>6. Events!PhoneEventsTypeOK
  BY <1>2, <1>5, EventsTypesAre
<1>4. SweptInFront /\ WakesAreAwaited /\ ChangesAreSeen
  BY DEF Events!PhoneEventsConstants, Events!PhoneEventsInit, SweptInFront, WakesAreAwaited, ChangesAreSeen,
         Events!NoSweep, Events!ReachIsShown
<1> QED BY <1>4, <1>6 DEF EventsInv

LEMMA SweepsTyped ==
    Events!PhoneEventsConstants /\ Events!PhoneEventsTypeOK /\ [Events!PhoneEventsNext]_phoneEventsVars
        => sweeps' \in [1 .. MaxSweeps -> Sweep]
<1> SUFFICES ASSUME Events!PhoneEventsConstants, Events!PhoneEventsTypeOK,
                    [Events!PhoneEventsNext]_phoneEventsVars
             PROVE sweeps' \in [1 .. MaxSweeps -> Sweep]
  OBVIOUS
<1>0. sweeps \in [1 .. MaxSweeps -> Sweep] /\ Events!NoSweep \in Sweep /\ eventsNode \in 0 .. MaxBuilt
  BY DEF Events!PhoneEventsTypeOK, Sweep, Events!NoSweep, Events!PhoneEventsConstants
<1>1. CASE UNCHANGED sweeps
  BY <1>0, <1>1
<1>2. CASE Events!Resumed
  <2>1. [of |-> eventsNode, todo |-> Asleep, at |-> Events!NoOne] \in Sweep
    BY <1>0 DEF Sweep
  <2> QED BY <1>0, <1>2, <2>1 DEF Events!Resumed
<1>3. ASSUME NEW i \in 1 .. MaxSweeps, Events!SweepEnds(i) PROVE sweeps' \in [1 .. MaxSweeps -> Sweep]
  BY <1>0, <1>3 DEF Events!SweepEnds
<1>4. ASSUME NEW i \in 1 .. MaxSweeps, NEW s \in Asleep, Events!SweepReaches(i, s)
      PROVE sweeps' \in [1 .. MaxSweeps -> Sweep]
  <2> DEFINE x == [sweeps[i] EXCEPT !.todo = @ \ {s}, !.at = s]
             y == [sweeps[i] EXCEPT !.todo = @ \ {s}]
  <2>1. x \in Sweep /\ y \in Sweep
    BY <1>0 DEF Sweep
  <2>2. sweeps' = [sweeps EXCEPT ![i] = x] \/ sweeps' = [sweeps EXCEPT ![i] = y]
    BY <1>0, <1>4 DEF Events!SweepReaches, Sweep
  <2> QED BY <1>0, <2>1, <2>2
<1>5. ASSUME NEW s \in Asleep, Events!WakeEnds(s) PROVE sweeps' \in [1 .. MaxSweeps -> Sweep]
  <2>1. \A i \in 1 .. MaxSweeps : [sweeps[i] EXCEPT !.at = Events!NoOne] \in Sweep
    BY <1>0 DEF Sweep
  <2> QED BY <1>0, <1>5, <2>1 DEF Events!WakeEnds, Events!WakeSettles
<1> QED BY <1>1, <1>2, <1>3, <1>4, <1>5 DEF Events!PhoneEventsNext, phoneEventsVars, Events!NodeStops,
           Events!NodeStarts, Events!AddrsChange, Events!SelfUpdate, Events!Background, Events!Returning,
           Events!strandFor, Events!StrandForEnds, Events!sweepVars

LEMMA EventsTypesStay ==
    Events!PhoneEventsConstants /\ Events!PhoneEventsTypeOK /\ [Events!PhoneEventsNext]_phoneEventsVars
        => Events!PhoneEventsTypeOK'
<1> SUFFICES ASSUME Events!PhoneEventsConstants, EventsRest, [Events!PhoneEventsNext]_phoneEventsVars
             PROVE EventsRest'
  BY SweepsTyped, EventsTypesAre
<1> USE DEF Events!PhoneEventsConstants, EventsRest, Events!addrVars, Events!sweepVars
<1>1. CASE Events!NodeStops \/ Events!NodeStarts
  <2>1. PICK current \in SUBSET Addrs : Events!OnStatus(current)
    BY <1>1 DEF Events!NodeStarts, Events!NodeStops
  <2>2. addrs' \in SUBSET Addrs /\ addrsShown' \in SUBSET Addrs /\ lastSeenAddrs' \in SUBSET Addrs
        /\ updated' \in BOOLEAN /\ addrsMoved' \in BOOLEAN
    BY <2>1 DEF Events!OnStatus
  <2>3. strandStatus' \in [Asleep -> {"stopped", "active", "starting", "hibernating"}]
    BY <1>1 DEF Events!NodeStarts, Events!NodeStops
  <2>4. eventsNode' \in 0 .. MaxBuilt /\ nodesBuilt' \in 0 .. MaxBuilt
    BY <1>1 DEF Events!NodeStarts, Events!NodeStops
  <2>5. UNCHANGED <<appState, sweepsBegun, wakes, sweepsOverlapped, wakesMissed>>
    BY <1>1 DEF Events!NodeStarts, Events!NodeStops
  <2> QED BY <2>2, <2>3, <2>4, <2>5
<1>2. CASE Events!AddrsChange \/ Events!SelfUpdate
  BY <1>2 DEF Events!AddrsChange, Events!SelfUpdate
<1>3. CASE Events!Background \/ Events!Returning
  BY <1>3 DEF Events!Background, Events!Returning
<1>4. CASE Events!Resumed
  <2>1. appState' = "front" /\ sweepsOverlapped' \in BOOLEAN
    BY <1>4 DEF Events!Resumed
  <2>2. sweepsBegun' \in 0 .. MaxSweeps
    BY <1>4 DEF Events!Resumed
  <2> QED BY <1>4, <2>1, <2>2 DEF Events!Resumed
<1>5. ASSUME NEW i \in 1 .. MaxSweeps, Events!SweepEnds(i) PROVE EventsRest'
  BY <1>5 DEF Events!SweepEnds
<1>6. ASSUME NEW i \in 1 .. MaxSweeps, NEW s \in Asleep, Events!SweepReaches(i, s) PROVE EventsRest'
  BY <1>6 DEF Events!SweepReaches, Events!wakeStrand
<1>7. ASSUME NEW s \in Asleep, Events!WakeEnds(s) PROVE EventsRest'
  BY <1>7 DEF Events!WakeEnds, Events!WakeSettles, Events!Woken
<1>8. ASSUME NEW s \in Asleep, Events!strandFor(s) \/ Events!StrandForEnds(s) PROVE EventsRest'
  BY <1>8 DEF Events!strandFor, Events!StrandForEnds, Events!Woken
<1>9. CASE UNCHANGED phoneEventsVars
  BY <1>9 DEF phoneEventsVars
<1> QED BY <1>1, <1>2, <1>3, <1>4, <1>5, <1>6, <1>7, <1>8, <1>9 DEF Events!PhoneEventsNext

(* A sweep that has still to reach a strand keeps it from being forgotten. *)
LEMMA SweptStays ==
    Events!PhoneEventsConstants /\ EventsInv /\ [Events!PhoneEventsNext]_phoneEventsVars => SweptInFront'
<1> SUFFICES ASSUME Events!PhoneEventsConstants, EventsInv, [Events!PhoneEventsNext]_phoneEventsVars
             PROVE SweptInFront'
  OBVIOUS
<1>0. Events!PhoneEventsTypeOK /\ SweptInFront
  BY DEF EventsInv
<1> USE DEF Events!PhoneEventsConstants, Events!PhoneEventsTypeOK, Events!addrVars, Events!sweepVars, SweptInFront
<1>1. CASE Events!NodeStops \/ Events!NodeStarts \/ Events!AddrsChange \/ Events!SelfUpdate
  BY <1>0, <1>1 DEF Events!NodeStops, Events!NodeStarts, Events!AddrsChange, Events!SelfUpdate
<1>2. CASE Events!Background \/ Events!Returning
  BY <1>0, <1>2 DEF Events!Background, Events!Returning
<1>3. CASE Events!Resumed
  BY <1>0, <1>3 DEF Events!Resumed
<1>4. ASSUME NEW i \in 1 .. MaxSweeps, Events!SweepEnds(i) PROVE SweptInFront'
  BY <1>0, <1>4 DEF Events!SweepEnds, Events!NoSweep
<1>5. ASSUME NEW i \in 1 .. MaxSweeps, NEW s \in Asleep, Events!SweepReaches(i, s)
      PROVE SweptInFront'
  <2> DEFINE x == [sweeps[i] EXCEPT !.todo = @ \ {s}, !.at = s]
             y == [sweeps[i] EXCEPT !.todo = @ \ {s}]
  <2>1. sweeps' = [sweeps EXCEPT ![i] = x] \/ sweeps' = [sweeps EXCEPT ![i] = y]
    BY <1>0, <1>5 DEF Events!SweepReaches
  <2>2. /\ x.of = sweeps[i].of /\ x.todo = sweeps[i].todo \ {s}
        /\ y.of = sweeps[i].of /\ y.todo = sweeps[i].todo \ {s}
    BY <1>0
  <2>3. \A j \in 1 .. MaxSweeps : sweeps'[j].of = sweeps[j].of /\ sweeps[j].todo \ {s} \subseteq sweeps'[j].todo
    BY <1>0, <2>1, <2>2
  <2>4. UNCHANGED <<appState, eventsNode>>
    BY <1>5 DEF Events!SweepReaches
  <2>5. \A t \in Asleep \ {s} : strandStatus'[t] = strandStatus[t] /\ (t \in wakesMissed => t \in wakesMissed')
    BY <1>0, <1>5 DEF Events!SweepReaches, Events!wakeStrand
  <2>6. /\ strandStatus'[s] \in {strandStatus[s], "starting"} 
        /\ strandStatus'[s] = "starting" => eventsNode # 0 
        /\ strandStatus'[s] = "hibernating" => s \in wakesMissed' \/ sweeps[i].of # eventsNode
        /\ s \in wakesMissed => s \in wakesMissed'
    BY <1>0, <1>5 DEF Events!SweepReaches, Events!wakeStrand, Events!Going
  <2>7. sweeps[i].of # eventsNode => sweeps' = [sweeps EXCEPT ![i] = y] /\ UNCHANGED <<strandStatus, wakesMissed>>
    BY <1>0, <1>5 DEF Events!SweepReaches
  <2> HIDE DEF x, y
  <2> QED BY <1>0, <2>1, <2>2, <2>3, <2>4, <2>5, <2>6, <2>7
<1>6. ASSUME NEW s \in Asleep, Events!WakeEnds(s) PROVE SweptInFront'
  BY <1>0, <1>6 DEF Events!WakeEnds, Events!WakeSettles, Events!Woken
<1>7. ASSUME NEW s \in Asleep, Events!strandFor(s) \/ Events!StrandForEnds(s) PROVE SweptInFront'
  BY <1>0, <1>7 DEF Events!strandFor, Events!StrandForEnds, Events!Woken
<1>8. CASE UNCHANGED phoneEventsVars
  BY <1>0, <1>8 DEF phoneEventsVars
<1> QED BY <1>1, <1>2, <1>3, <1>4, <1>5, <1>6, <1>7, <1>8 DEF Events!PhoneEventsNext

(* A wake under way has its sweep at the strand. *)
LEMMA AwaitedStays ==
    Events!PhoneEventsConstants /\ EventsInv /\ [Events!PhoneEventsNext]_phoneEventsVars => WakesAreAwaited'
<1> SUFFICES ASSUME Events!PhoneEventsConstants, EventsInv, [Events!PhoneEventsNext]_phoneEventsVars
             PROVE WakesAreAwaited'
  OBVIOUS
<1>0. Events!PhoneEventsTypeOK /\ WakesAreAwaited
  BY DEF EventsInv
<1> USE DEF Events!PhoneEventsConstants, Events!PhoneEventsTypeOK, Events!addrVars, Events!sweepVars,
            WakesAreAwaited
<1>1. CASE UNCHANGED <<sweeps, wakes, sweepsBegun, sweepsOverlapped>>
  BY <1>0, <1>1
<1>2. CASE Events!Resumed
  <2>1. CASE UNCHANGED <<sweeps, sweepsBegun, sweepsOverlapped>>
    BY <1>0, <1>2, <2>1 DEF Events!Resumed
  <2>2. CASE eventsNode # 0 /\ sweepsBegun < MaxSweeps
    <3>1. /\ sweeps' = [sweeps EXCEPT ![sweepsBegun + 1] =
                           [of |-> eventsNode, todo |-> Asleep, at |-> Events!NoOne]]
          /\ sweepsOverlapped' = (sweepsOverlapped \/ \E i \in 1 .. MaxSweeps : Events!Going(i))
          /\ UNCHANGED wakes /\ sweepsBegun + 1 \in 1 .. MaxSweeps
      BY <1>0, <1>2, <2>2 DEF Events!Resumed
    <3>2. sweepsOverlapped' \/ (~sweepsOverlapped /\ \A i \in 1 .. MaxSweeps : sweeps[i].of = 0)
      BY <1>0, <3>1 DEF Events!Going
    <3>3. \A i \in 1 .. MaxSweeps : sweeps[i].of = 0 => sweeps[i].at = Events!NoOne
      BY <1>0
    <3>4. \A i \in 1 .. MaxSweeps : i # sweepsBegun + 1 => sweeps'[i] = sweeps[i]
      BY <1>0, <3>1
    <3>5. sweeps'[sweepsBegun + 1].of = eventsNode /\ sweeps'[sweepsBegun + 1].at = Events!NoOne
      BY <1>0, <3>1
    <3>6. sweeps[sweepsBegun + 1].at = Events!NoOne /\ sweepsBegun' = sweepsBegun + 1
      BY <1>0, <1>2, <2>2, <3>3 DEF Events!Resumed
    <3> QED BY <1>0, <2>2, <3>1, <3>2, <3>3, <3>4, <3>5, <3>6
  <2> QED BY <1>2, <2>1, <2>2 DEF Events!Resumed
<1>3. ASSUME NEW i \in 1 .. MaxSweeps, Events!SweepEnds(i) PROVE WakesAreAwaited'
  BY <1>0, <1>3 DEF Events!SweepEnds, Events!NoSweep
<1>4. ASSUME NEW i \in 1 .. MaxSweeps, NEW s \in Asleep, Events!SweepReaches(i, s)
      PROVE WakesAreAwaited'
  <2> DEFINE x == [sweeps[i] EXCEPT !.todo = @ \ {s}, !.at = s]
             y == [sweeps[i] EXCEPT !.todo = @ \ {s}]
  <2>1. \/ /\ sweeps' = [sweeps EXCEPT ![i] = x] /\ UNCHANGED <<sweepsBegun, sweepsOverlapped>>
           /\ \A t \in Asleep : wakes'[t] # 0 => wakes[t] # 0 \/ t = s
        \/ sweeps' = [sweeps EXCEPT ![i] = y] /\ UNCHANGED <<wakes, sweepsBegun, sweepsOverlapped>>
    BY <1>0, <1>4 DEF Events!SweepReaches, Events!wakeStrand
  <2>2. x.of = sweeps[i].of /\ x.at = s /\ y.of = sweeps[i].of /\ y.at = sweeps[i].at
    BY <1>0
  <2>3. sweeps[i].at = Events!NoOne /\ sweeps[i].of # 0
    BY <1>4 DEF Events!SweepReaches, Events!Going
  <2> HIDE DEF x, y
  <2>4. \A j \in 1 .. MaxSweeps : /\ sweeps'[j].of = sweeps[j].of
                                  /\ j # i => sweeps'[j].at = sweeps[j].at
    BY <1>0, <2>1, <2>2, <2>3
  <2>6. \A j \in 1 .. MaxSweeps : sweeps'[j].at # Events!NoOne => sweeps'[j].of # 0
    BY <1>0, <2>3, <2>4
  <2>5. \A t \in Asleep : wakes'[t] # 0 => \E j \in 1 .. MaxSweeps : sweeps'[j].at = t
    <3> SUFFICES ASSUME NEW t \in Asleep, wakes'[t] # 0
                 PROVE  \E j \in 1 .. MaxSweeps : sweeps'[j].at = t
      OBVIOUS
    <3>1. CASE sweeps' = [sweeps EXCEPT ![i] = x] /\ t = s
      <4>1. sweeps'[i].at = t
        BY <1>0, <2>2, <3>1
      <4> QED BY <4>1
    <3>2. CASE wakes[t] # 0
      <4>1. PICK j \in 1 .. MaxSweeps : sweeps[j].at = t
        BY <1>0, <3>2
      <4>2. j # i
        BY <2>3, <4>1
      <4> QED BY <2>4, <4>1, <4>2
    <3> QED BY <2>1, <3>1, <3>2
  <2> QED BY <1>0, <2>1, <2>4, <2>5, <2>6
<1>5. ASSUME NEW s \in Asleep, Events!WakeEnds(s) PROVE WakesAreAwaited'
  BY <1>0, <1>5 DEF Events!WakeEnds, Events!WakeSettles
<1> QED BY <1>1, <1>2, <1>3, <1>4, <1>5 DEF Events!PhoneEventsNext, phoneEventsVars, Events!NodeStops,
           Events!NodeStarts, Events!AddrsChange, Events!SelfUpdate, Events!Background, Events!Returning,
           Events!strandFor, Events!StrandForEnds

LEMMA SeenStays == ChangesAreSeen /\ [Events!PhoneEventsNext]_phoneEventsVars => ChangesAreSeen'
<1> SUFFICES ASSUME ChangesAreSeen, [Events!PhoneEventsNext]_phoneEventsVars PROVE ChangesAreSeen'
  OBVIOUS
<1> USE DEF ChangesAreSeen, Events!ReachIsShown
<1>1. CASE Events!NodeStops \/ Events!NodeStarts \/ Events!AddrsChange \/ Events!SelfUpdate
  BY <1>1 DEF Events!NodeStops, Events!NodeStarts, Events!AddrsChange, Events!SelfUpdate, Events!OnStatus
<1>2. CASE UNCHANGED <<eventsNode, Events!addrVars>>
  BY <1>2 DEF Events!addrVars
<1> QED BY <1>1, <1>2 DEF Events!PhoneEventsNext, phoneEventsVars, Events!addrVars,
           Events!Background, Events!Returning, Events!Resumed, Events!SweepEnds, Events!SweepReaches,
           Events!WakeEnds, Events!strandFor, Events!StrandForEnds, Events!sweepVars

LEMMA EventsStep ==
    Events!PhoneEventsConstants /\ EventsInv /\ [Events!PhoneEventsNext]_phoneEventsVars => EventsInv'
BY EventsTypesStay, SweptStays, AwaitedStays, SeenStays DEF EventsInv

LEMMA EventsHold ==
    ASSUME Events!PhoneEventsConstants, EventsInv
    PROVE  Events!AwakeInFront /\ Events!OneAtATime /\ Events!ReachIsShown
<1>1. Events!PhoneEventsTypeOK /\ SweptInFront /\ WakesAreAwaited /\ Events!ReachIsShown
  BY DEF EventsInv, ChangesAreSeen
<1>2. Events!AwakeInFront
  BY <1>1 DEF SweptInFront, Events!AwakeInFront, Events!Going
<1>3. CASE sweepsOverlapped
  BY <1>1, <1>2, <1>3 DEF Events!OneAtATime
<1>4. CASE ~sweepsOverlapped
  <2> DEFINE awaited == {s \in Asleep : wakes[s] # 0 /\ wakes[s] = eventsNode}
  <2>1. \A s, t \in awaited : s = t
    BY <1>1, <1>4 DEF WakesAreAwaited, Events!PhoneEventsConstants
  <2> HIDE DEF awaited
  <2>2. awaited = {} \/ \E s \in awaited : awaited = {s}
    BY <2>1
  <2>3. Cardinality(awaited) = 0 \/ Cardinality(awaited) = 1
    BY <2>2, FS_EmptySet, FS_Singleton
  <2>4. Cardinality(awaited) <= 1
    BY <2>3
  <2>5. Events!OneAtATime
    BY <2>4 DEF Events!OneAtATime, awaited, Events!Cardinality, Cardinality
  <2> QED BY <1>1, <1>2, <2>5
<1> QED BY <1>3, <1>4

(* The strands of the phone are awake in the front and woken one at a time, and who shows the *)
(* addresses is told of their changes, for any number of strands, nodes and returns.          *)
LEMMA EventsHoldAlone ==
    ASSUME Events!PhoneEventsConstants
    PROVE  Events!PhoneEventsInit /\ [][Events!PhoneEventsNext]_phoneEventsVars =>
              [](Events!PhoneEventsTypeOK /\ Events!AwakeInFront /\ Events!OneAtATime /\ Events!ReachIsShown)
<1>1. EventsInv => Events!PhoneEventsTypeOK
  BY DEF EventsInv
<1> QED BY <1>1, EventsInitInv, EventsStep, EventsHold, PTL

-----------------------------------------------------------------------------
(***************************************************************************)
(* Following.                                                              *)
(* TailMissesNothing, for any number of messages and any limits.  The      *)
(* inductive invariant says where a message that was not printed is: in    *)
(* the page of the pass under way, or a change is still to be reported, or *)
(* another pass comes.                                                     *)
(***************************************************************************)
FollowTypes ==
    /\ log \in Seq(Tailing!Arrivals) /\ follows \in {"first", "on", "over"}
    /\ seen \in SUBSET Tailing!Arrivals /\ printed \in [Tailing!Arrivals -> Nat] /\ changed \in BOOLEAN
    /\ reader \in {"idle", "asks", "reads", "names"} /\ again \in BOOLEAN
    /\ page \in Seq(Tailing!Arrivals) /\ missed \in SUBSET Tailing!Arrivals /\ failing \in BOOLEAN

ArrivedAreRead ==
    follows = "on" =>
        /\ reader = "idle" => changed \/ failing \/ Tailing!ToSet(log) \subseteq seen \cup missed
        /\ reader \in {"reads", "names"} =>
              changed \/ again \/ Tailing!ToSet(log) \subseteq seen \cup missed \cup Tailing!ToSet(page)

PrintedOnce ==
    /\ \A m \in Tailing!Arrivals : printed[m] = 0 \/ (printed[m] = 1 /\ m \in seen)
    /\ follows = "first" => reader \in {"asks", "reads"} /\ \A m \in Tailing!Arrivals : printed[m] = 0

FollowInv == FollowTypes /\ ArrivedAreRead /\ PrintedOnce

LEMMA FollowTypesAre == Tailing!FollowingTypeOK <=> FollowTypes
BY DEF Tailing!FollowingTypeOK, FollowTypes

LEMMA ElementsAre ==
    ASSUME NEW S, NEW s \in Seq(S)
    PROVE  Tailing!ToSet(s) \in SUBSET S
BY DEF Tailing!ToSet

LEMMA PartIsSeq ==
    ASSUME NEW S, NEW s \in Seq(S), NEW i \in 1 .. Len(s) + 1, NEW j \in 0 .. Len(s)
    PROVE  SubSeq(s, i, j) \in Seq(S)
<1>1. \A k \in i .. j : s[k] \in S
  OBVIOUS
<1>2. i \in Int /\ j \in Int
  OBVIOUS
<1>3. SubSeq(s, i, j) = [k \in 1 .. (IF i <= j THEN j - i + 1 ELSE 0) |-> s[i + k - 1]]
  BY <1>2, SubSeqProperties
<1> QED BY <1>1, <1>2, SubSeqProperties

LEMMA LastIsSeq ==
    ASSUME NEW S, NEW s \in Seq(S), NEW n \in Nat
    PROVE  Tailing!LastOf(s, n) \in Seq(S)
<1>1. Len(s) \in Nat /\ Len(s) \in 0 .. Len(s)
  OBVIOUS
<1>2. (IF Len(s) > n THEN Len(s) - n + 1 ELSE 1) \in 1 .. Len(s) + 1
  BY <1>1
<1> QED BY <1>1, <1>2, PartIsSeq DEF Tailing!LastOf

(* A message that takes its place joins those that are there. *)
LEMMA InsertedJoins ==
    ASSUME NEW S, NEW s \in Seq(S), NEW i \in 1 .. Len(s) + 1, NEW e \in S
    PROVE  Tailing!InsertAt(s, i, e) \in Seq(S)
<1>1. i - 1 \in 0 .. Len(s) /\ 1 \in 1 .. Len(s) + 1 /\ Len(s) \in 0 .. Len(s)
  OBVIOUS
<1>2. SubSeq(s, 1, i - 1) \in Seq(S) /\ SubSeq(s, i, Len(s)) \in Seq(S) /\ <<e>> \in Seq(S)
  BY <1>1, PartIsSeq
<1>3. SubSeq(s, 1, i - 1) \o <<e>> \in Seq(S)
  BY <1>2, ConcatProperties
<1> QED BY <1>2, <1>3, ConcatProperties DEF Tailing!InsertAt

LEMMA FollowInitInv == Tailing!FollowingConstants /\ Tailing!FollowingInit => FollowInv
<1> SUFFICES ASSUME Tailing!FollowingInit PROVE FollowInv
  OBVIOUS
<1>1. log \in Seq(Tailing!Arrivals) /\ page \in Seq(Tailing!Arrivals) /\ seen \in SUBSET Tailing!Arrivals
      /\ missed \in SUBSET Tailing!Arrivals
  BY DEF Tailing!FollowingInit
<1>2. printed \in [Tailing!Arrivals -> Nat] /\ \A m \in Tailing!Arrivals : printed[m] = 0
  BY DEF Tailing!FollowingInit
<1>3. follows = "first" /\ reader = "asks"
  BY DEF Tailing!FollowingInit
<1>4. changed \in BOOLEAN /\ again \in BOOLEAN /\ failing \in BOOLEAN
  BY DEF Tailing!FollowingInit
<1>5. FollowTypes
  BY <1>1, <1>2, <1>3, <1>4 DEF FollowTypes
<1> QED BY <1>2, <1>3, <1>5 DEF FollowInv, ArrivedAreRead, PrintedOnce

(* What comes after a pass: another, if one was asked for. *)
LEMMA NextPassTypes ==
    ASSUME again \in BOOLEAN, Tailing!NextPass
    PROVE  reader' \in {"idle", "asks"} /\ again' \in BOOLEAN
BY DEF Tailing!NextPass

LEMMA FollowStep ==
    Tailing!FollowingConstants /\ FollowInv /\ [Tailing!FollowingNext]_followingVars => FollowInv'
<1> SUFFICES ASSUME Tailing!FollowingConstants, FollowInv, [Tailing!FollowingNext]_followingVars PROVE FollowInv'
  OBVIOUS
<1>0. FollowTypes /\ ArrivedAreRead /\ PrintedOnce
  BY DEF FollowInv
<1>00. MaxArrivals \in Nat /\ FirstLimit \in Nat /\ TailLimit \in Nat
  BY DEF Tailing!FollowingConstants
<1>1. ASSUME NEW i \in 1 .. Len(log) + 1, Tailing!Arrives(i) PROVE FollowInv'
  <2>1. Len(log) + 1 \in Tailing!Arrivals
    BY <1>0, <1>00, <1>1 DEF FollowTypes, Tailing!Arrives, Tailing!Arrivals
  <2>2. log' \in Seq(Tailing!Arrivals)
    BY <1>0, <1>1, <2>1, InsertedJoins DEF FollowTypes, Tailing!Arrives
  <2>3. /\ changed' = (follows = "on")
        /\ UNCHANGED <<follows, seen, printed, reader, again, page, missed, failing>>
    BY <1>1 DEF Tailing!Arrives
  <2>4. FollowTypes'
    BY <1>0, <2>2, <2>3 DEF FollowTypes
  <2>5. ArrivedAreRead' /\ PrintedOnce'
    BY <1>0, <2>3 DEF ArrivedAreRead, PrintedOnce
  <2> QED BY <2>4, <2>5 DEF FollowInv
<1>2. CASE Tailing!FirstRead
  <2>1. page' \in Seq(Tailing!Arrivals)
    BY <1>0, <1>00, <1>2, LastIsSeq DEF FollowTypes, Tailing!FirstRead
  <2>2. FollowTypes'
    BY <1>0, <1>2, <2>1 DEF FollowTypes, Tailing!FirstRead
  <2>3. ArrivedAreRead' /\ PrintedOnce'
    BY <1>0, <1>2 DEF ArrivedAreRead, PrintedOnce, Tailing!FirstRead
  <2> QED BY <2>2, <2>3 DEF FollowInv
<1>3. CASE Tailing!WatchBegins
  <2>1. seen' \in SUBSET Tailing!Arrivals /\ missed' \in SUBSET Tailing!Arrivals /\ page' \in Seq(Tailing!Arrivals)
    BY <1>0, <1>3, ElementsAre DEF FollowTypes, Tailing!WatchBegins
  <2>2. FollowTypes'
    BY <1>0, <1>3, <2>1 DEF FollowTypes, Tailing!WatchBegins
  <2>3. ArrivedAreRead' /\ PrintedOnce'
    BY <1>0, <1>3 DEF ArrivedAreRead, PrintedOnce, Tailing!WatchBegins
  <2> QED BY <2>2, <2>3 DEF FollowInv
<1>4. CASE Tailing!Change
  <2>1. FollowTypes'
    BY <1>0, <1>4 DEF FollowTypes, Tailing!Change
  <2>2. ArrivedAreRead' /\ PrintedOnce'
    BY <1>0, <1>4 DEF ArrivedAreRead, PrintedOnce, Tailing!Change, FollowTypes
  <2> QED BY <2>1, <2>2 DEF FollowInv
<1>5. CASE Tailing!Query
  <2>1. page' \in Seq(Tailing!Arrivals)
    BY <1>0, <1>00, <1>5, LastIsSeq DEF FollowTypes, Tailing!Query
  <2>2. missed' \in SUBSET Tailing!Arrivals
    BY <1>0, <1>5, ElementsAre DEF FollowTypes, Tailing!Query
  <2>3. FollowTypes'
    BY <1>0, <1>5, <2>1, <2>2 DEF FollowTypes, Tailing!Query
  <2>4. Tailing!ToSet(log') \subseteq seen' \cup missed' \cup Tailing!ToSet(page')
    BY <1>5 DEF Tailing!Query
  <2>5. ArrivedAreRead' /\ PrintedOnce'
    BY <1>0, <1>5, <2>4 DEF ArrivedAreRead, PrintedOnce, Tailing!Query
  <2> QED BY <2>3, <2>5 DEF FollowInv
<1>6. CASE Tailing!Listed
  BY <1>0, <1>6 DEF FollowInv, FollowTypes, ArrivedAreRead, PrintedOnce, Tailing!Listed
<1>7. CASE Tailing!ReadFails
  <2>0. reader' \in {"idle", "asks"} /\ again' \in BOOLEAN
    BY <1>0, <1>7, NextPassTypes DEF FollowTypes, Tailing!ReadFails
  <2>1. FollowTypes'
    BY <1>0, <1>7, <2>0 DEF FollowTypes, Tailing!ReadFails
  <2>2. ArrivedAreRead' /\ PrintedOnce'
    BY <1>0, <1>7 DEF ArrivedAreRead, PrintedOnce, Tailing!ReadFails, Tailing!NextPass
  <2> QED BY <2>1, <2>2 DEF FollowInv
<1>8. CASE Tailing!Printed
  <2>1. Tailing!ToSet(page) \in SUBSET Tailing!Arrivals
    BY <1>0, ElementsAre DEF FollowTypes
  <2>2. /\ printed' = [m \in Tailing!Arrivals |-> IF m \in Tailing!ToSet(page) \ seen THEN printed[m] + 1 ELSE printed[m]]
        /\ seen' = seen \cup Tailing!ToSet(page) /\ page' = <<>> /\ failing' = FALSE
        /\ reader = "names" /\ Tailing!NextPass /\ UNCHANGED <<log, follows, changed, missed>>
    BY <1>8 DEF Tailing!Printed
  <2>3. printed' \in [Tailing!Arrivals -> Nat]
    BY <1>0, <2>2 DEF FollowTypes
  <2>7. reader' \in {"idle", "asks"} /\ again' \in BOOLEAN
    BY <1>0, <2>2, NextPassTypes DEF FollowTypes
  <2>8. page' \in Seq(Tailing!Arrivals) /\ seen' \in SUBSET Tailing!Arrivals
    BY <1>0, <2>1, <2>2 DEF FollowTypes
  <2>4. FollowTypes'
    BY <1>0, <2>2, <2>3, <2>7, <2>8 DEF FollowTypes
  <2>5. ArrivedAreRead'
    BY <1>0, <2>2 DEF ArrivedAreRead, Tailing!NextPass
  <2>6. PrintedOnce'
    BY <1>0, <2>2 DEF PrintedOnce, Tailing!NextPass, FollowTypes
  <2> QED BY <2>4, <2>5, <2>6 DEF FollowInv
<1>9. CASE Tailing!Interrupted
  BY <1>0, <1>9 DEF FollowInv, FollowTypes, ArrivedAreRead, PrintedOnce, Tailing!Interrupted
<1>10. CASE UNCHANGED followingVars
  BY <1>0, <1>10 DEF FollowInv, FollowTypes, ArrivedAreRead, PrintedOnce, followingVars
<1> QED BY <1>1, <1>2, <1>3, <1>4, <1>5, <1>6, <1>7, <1>8, <1>9, <1>10 DEF Tailing!FollowingNext

LEMMA FollowingHoldsAlone ==
    ASSUME Tailing!FollowingConstants
    PROVE  Tailing!FollowingInit /\ [][Tailing!FollowingNext]_followingVars =>
              [](Tailing!FollowingTypeOK /\ Tailing!TailMissesNothing)
<1>1. FollowInv => Tailing!FollowingTypeOK /\ Tailing!TailMissesNothing
  <2> SUFFICES ASSUME FollowInv PROVE Tailing!TailMissesNothing
    BY FollowTypesAre DEF FollowInv
  <2> QED BY DEF FollowInv, FollowTypes, ArrivedAreRead, PrintedOnce, Tailing!TailMissesNothing
<1> QED BY <1>1, FollowInitInv, FollowStep, PTL

-----------------------------------------------------------------------------
(***************************************************************************)
(* Machines.                                                               *)
(* MachinesAreTold, for any machines.  The inductive invariant says the    *)
(* same of what a read found, until it is shown, as of what is shown.      *)
(***************************************************************************)
Tells(status) ==
    /\ status.node = nodeUp \/ unheard = Machines
    /\ nodeUp /\ status.whole => \A m \in Machines \ unheard : m \in status.machines <=> m \in cadre

MachineTypes ==
    /\ cadre \in SUBSET Machines /\ asking \in SUBSET Machines /\ removals \in SUBSET Machines
    /\ lateRemovals \in SUBSET Machines /\ unheard \in SUBSET Machines
    /\ nodeUp \in BOOLEAN /\ rereads \in BOOLEAN /\ confirmed \in BOOLEAN /\ reopened \in BOOLEAN
    /\ readStep \in {"idle", "reading", "read"} /\ found \in Cadre!Statuses
    /\ pane \in [at : {"loading", "failed", "listed"}, status : Cadre!Statuses]
    /\ secret \in {"closed", "generating", "key", "error"} /\ exports \in 0 .. MaxExports

ListTells ==
    /\ readStep = "read" => rereads \/ Tells(found)
    /\ readStep = "idle" /\ pane.at = "listed" => Tells(pane.status)
    /\ secret # "closed" => confirmed \/ reopened

MachinesInv == MachineTypes /\ ListTells

LEMMA MachineTypesAre == Cadre!MachinesTypeOK <=> MachineTypes
BY DEF Cadre!MachinesTypeOK, MachineTypes

LEMMA MachinesInitInv == Cadre!MachinesConstants /\ Cadre!MachinesInit => MachinesInv
<1> SUFFICES ASSUME Cadre!MachinesConstants, Cadre!MachinesInit PROVE MachinesInv
  OBVIOUS
<1>1. found \in Cadre!Statuses /\ pane = [at |-> "loading", status |-> found]
  BY DEF Cadre!MachinesInit, Cadre!NoneFound, Cadre!Statuses, Cadre!Pane
<1>2. pane \in [at : {"loading", "failed", "listed"}, status : Cadre!Statuses]
  BY <1>1
<1>4. rereads \in BOOLEAN /\ confirmed \in BOOLEAN /\ reopened \in BOOLEAN /\ nodeUp \in BOOLEAN
  BY DEF Cadre!MachinesInit
<1>5. exports \in 0 .. MaxExports
  BY DEF Cadre!MachinesInit, Cadre!MachinesConstants
<1>3. MachineTypes
  BY <1>1, <1>2, <1>4, <1>5 DEF Cadre!MachinesInit, MachineTypes
<1> QED BY <1>1, <1>3 DEF MachinesInv, ListTells, Cadre!MachinesInit

LEMMA MachinesStep == Cadre!MachinesConstants /\ MachinesInv /\ [Cadre!MachinesNext]_machinesVars => MachinesInv'
<1> SUFFICES ASSUME Cadre!MachinesConstants, MachineTypes, ListTells, [Cadre!MachinesNext]_machinesVars
             PROVE  MachineTypes' /\ ListTells'
  BY DEF MachinesInv
<1> USE DEF Cadre!listVars, Cadre!removalVars, Cadre!secretVars
<1>1. CASE Cadre!Node \/ Cadre!ReadAgain
  BY <1>1 DEF MachineTypes, ListTells, Tells, Cadre!Node, Cadre!ReadAgain, Cadre!Reload
<1>2. ASSUME NEW m \in Machines, Cadre!Elsewhere(m) \/ Cadre!RemovedLate(m) PROVE MachineTypes' /\ ListTells'
  BY <1>2 DEF MachineTypes, ListTells, Tells, Cadre!Elsewhere, Cadre!RemovedLate
<1>3. ASSUME NEW m \in Machines, Cadre!Ask(m) \/ Cadre!Removed(m) PROVE MachineTypes' /\ ListTells'
  BY <1>3 DEF MachineTypes, ListTells, Tells, Cadre!Ask, Cadre!Removed, Cadre!Reload
<1>4. ASSUME NEW m \in Machines, NEW g \in BOOLEAN, Cadre!RemovalFails(m, g) PROVE MachineTypes' /\ ListTells'
  BY <1>4 DEF MachineTypes, ListTells, Tells, Cadre!RemovalFails, Cadre!Reload
<1>5. ASSUME NEW b \in BOOLEAN, Cadre!Answer(b) PROVE MachineTypes' /\ ListTells'
  BY <1>5 DEF MachineTypes, ListTells, Tells, Cadre!Answer
<1>6. ASSUME NEW b \in BOOLEAN, Cadre!Lists(b) PROVE MachineTypes' /\ ListTells'
  <2>1. found' \in Cadre!Statuses
    BY <1>6 DEF MachineTypes, Cadre!Lists, Cadre!Statuses
  <2>2. MachineTypes'
    BY <1>6, <2>1 DEF MachineTypes, Cadre!Lists
  <2>3. ListTells'
    BY <1>6 DEF MachineTypes, ListTells, Tells, Cadre!Lists
  <2> QED BY <2>2, <2>3
<1>7. CASE Cadre!Listed
  <2>1. pane' = [at |-> "listed", status |-> found]
    BY <1>7 DEF Cadre!Listed, Cadre!Pane
  <2>4. readStep' \in {"idle", "reading"} /\ rereads' \in BOOLEAN
    BY <1>7 DEF MachineTypes, Cadre!Listed, Cadre!Ends
  <2>5. pane' \in [at : {"loading", "failed", "listed"}, status : Cadre!Statuses]
    BY <2>1 DEF MachineTypes
  <2>2. MachineTypes'
    BY <1>7, <2>4, <2>5 DEF MachineTypes, Cadre!Listed
  <2>3. ListTells'
    BY <1>7, <2>1 DEF MachineTypes, ListTells, Tells, Cadre!Listed, Cadre!Ends
  <2> QED BY <2>2, <2>3
<1>8. CASE Cadre!ListFails
  <2>1. Cadre!Pane("failed", Cadre!NoneFound) \in [at : {"loading", "failed", "listed"}, status : Cadre!Statuses]
        /\ Cadre!Pane("failed", Cadre!NoneFound).at = "failed"
    BY DEF Cadre!Pane, Cadre!NoneFound, Cadre!Statuses
  <2>2. MachineTypes'
    BY <1>8, <2>1 DEF MachineTypes, Cadre!ListFails, Cadre!Ends
  <2>3. ListTells'
    BY <1>8, <2>1 DEF MachineTypes, ListTells, Tells, Cadre!ListFails, Cadre!Ends
  <2> QED BY <2>2, <2>3
<1>9. CASE Cadre!BackUp
  <2>1. exports' \in 0 .. MaxExports
    BY <1>9 DEF MachineTypes, Cadre!BackUp, Cadre!MachinesConstants
  <2>2. MachineTypes'
    BY <1>9, <2>1 DEF MachineTypes, Cadre!BackUp
  <2>3. ListTells'
    BY <1>9 DEF ListTells, Tells, Cadre!BackUp
  <2> QED BY <2>2, <2>3
<1>12. CASE Cadre!Close
  <2>1. confirmed' \in BOOLEAN /\ reopened' \in BOOLEAN
    BY <1>12 DEF Cadre!Close
  <2>2. MachineTypes'
    BY <1>12, <2>1 DEF MachineTypes, Cadre!Close
  <2>3. ListTells'
    BY <1>12 DEF ListTells, Tells, Cadre!Close
  <2> QED BY <2>2, <2>3
<1>10. ASSUME NEW r \in {"key", "error"}, Cadre!Exported(r) PROVE MachineTypes' /\ ListTells'
  <2>1. exports' \in 0 .. MaxExports
    BY <1>10 DEF MachineTypes, Cadre!Exported, Cadre!MachinesConstants
  <2>2. reopened' \in BOOLEAN /\ (~confirmed => reopened')
    BY <1>10 DEF MachineTypes, Cadre!Exported
  <2>3. MachineTypes'
    BY <1>10, <2>1, <2>2 DEF MachineTypes, Cadre!Exported
  <2>4. ListTells'
    BY <1>10, <2>2 DEF ListTells, Tells, Cadre!Exported
  <2> QED BY <2>3, <2>4
<1>11. CASE UNCHANGED machinesVars
  BY <1>11 DEF MachineTypes, ListTells, Tells, machinesVars
<1> QED
  BY <1>1, <1>2, <1>3, <1>4, <1>5, <1>6, <1>7, <1>8, <1>9, <1>10, <1>11, <1>12 DEF Cadre!MachinesNext

LEMMA MachinesHoldAlone ==
    ASSUME Cadre!MachinesConstants
    PROVE  Cadre!MachinesInit /\ [][Cadre!MachinesNext]_machinesVars =>
              [](Cadre!MachinesTypeOK /\ Cadre!MachinesAreTold)
<1>1. MachinesInv => Cadre!MachinesTypeOK /\ Cadre!MachinesAreTold
  BY MachineTypesAre DEF MachinesInv, ListTells, Tells, Cadre!MachinesAreTold
<1> QED BY <1>1, MachinesInitInv, MachinesStep, PTL

-----------------------------------------------------------------------------
(***************************************************************************)
(* MemberNames.                                                            *)
(* NamesFollow, for any members and names and any number of changes.  The  *)
(* inductive invariant says the same of the reads under way: the last one  *)
(* asked for finds, and the list's own read found, what the list was last  *)
(* told of, or the list reads again.                                       *)
(***************************************************************************)
NameSaves == [who : Others, name : Naming!Given]

NamesTypes ==
    /\ names \in Naming!Table /\ rows \in Naming!Table
    /\ version \in 0 .. MaxGiven /\ listVersion \in 0 .. MaxGiven /\ told \in 0 .. MaxGiven
    /\ rowsFrom \in [n : Nat, version : 0 .. MaxGiven, read : BOOLEAN]
    /\ loads \in Seq(Naming!Found) /\ Len(loads) <= MaxLoads /\ lastLoad \in Nat
    /\ namesError \in BOOLEAN /\ listAgain \in BOOLEAN
    /\ sheet \in [who : Others \cup {NoName}, current : Naming!Given]
    /\ saves \in Seq(NameSaves)
    /\ listRead \in {"idle", "asked", "read"} /\ listFound \in 0 .. MaxGiven

(* A read that found something found all that was told before it was asked for. *)
IsFresh(load, newest, toldOf) == load.n <= newest /\ (load.n = newest /\ load.at = "read" => load.version >= toldOf)

ListIsTold ==
    /\ told <= version /\ version + Len(saves) <= MaxGiven
    /\ listRead = "read" => listFound >= told \/ listAgain
    /\ listRead = "idle" => listVersion >= told

ScreenIsFresh ==
    /\ \A i \in DOMAIN loads : IsFresh(loads[i], lastLoad, told)
    /\ rowsFrom.n <= lastLoad /\ (rowsFrom.n = lastLoad /\ rowsFrom.read => rowsFrom.version >= told)
    /\ sheet = Naming!Closed \/ sheet.who \in Others

NamesInv == NamesTypes /\ ListIsTold /\ ScreenIsFresh

LEMMA NamesTypesAre == Naming!MemberNamesTypeOK <=> NamesTypes
BY DEF Naming!MemberNamesTypeOK, NamesTypes, NameSaves

LEMMA NamesInitInv == Naming!MemberNamesConstants /\ Naming!MemberNamesInit => NamesInv
<1> SUFFICES ASSUME Naming!MemberNamesConstants, Naming!MemberNamesInit PROVE NamesInv
  OBVIOUS
<1>1. MaxLoads \in Nat /\ MaxGiven \in Nat
  BY DEF Naming!MemberNamesConstants
<1>2. names \in Naming!Table /\ rows \in Naming!Table
  BY DEF Naming!MemberNamesInit, Naming!NoNames, Naming!Table, Naming!Given
<1>3. sheet \in [who : Others \cup {NoName}, current : Naming!Given]
  BY DEF Naming!MemberNamesInit, Naming!Closed, Naming!Given
<1>4. rowsFrom \in [n : Nat, version : 0 .. MaxGiven, read : BOOLEAN] /\ rowsFrom.n = 0 /\ rowsFrom.version = 0
  BY <1>1 DEF Naming!MemberNamesInit
<1>5. loads = <<>> /\ saves = <<>> /\ loads \in Seq(Naming!Found) /\ saves \in Seq(NameSaves)
      /\ Len(loads) = 0 /\ Len(saves) = 0 /\ DOMAIN loads = {}
  BY DEF Naming!MemberNamesInit
<1>6. version = 0 /\ listVersion = 0 /\ told = 0 /\ listFound = 0 /\ lastLoad = 0 /\ listRead = "idle"
  BY DEF Naming!MemberNamesInit
<1>7. namesError \in BOOLEAN /\ listAgain \in BOOLEAN
  BY DEF Naming!MemberNamesInit
<1>8. NamesTypes
  BY <1>1, <1>2, <1>3, <1>4, <1>5, <1>6, <1>7 DEF NamesTypes
<1>9. ListIsTold
  BY <1>1, <1>5, <1>6 DEF ListIsTold
<1>10. ScreenIsFresh
  BY <1>4, <1>5, <1>6 DEF ScreenIsFresh, Naming!MemberNamesInit
<1> QED BY <1>8, <1>9, <1>10 DEF NamesInv

(* A read leaves: the others stay as they are. *)
LEMMA OneReadLess ==
    ASSUME NEW S, NEW s \in Seq(S), NEW i \in DOMAIN s
    PROVE  /\ Naming!Without(s, i) \in Seq(S) /\ Len(Naming!Without(s, i)) = Len(s) - 1
           /\ \A k \in DOMAIN Naming!Without(s, i) : \E j \in DOMAIN s : Naming!Without(s, i)[k] = s[j]
<1> DEFINE before == SubSeq(s, 1, i - 1)  after == SubSeq(s, i + 1, Len(s))
<1>1. i \in 1 .. Len(s) /\ Len(s) \in Nat /\ DOMAIN s = 1 .. Len(s)
  OBVIOUS
<1>2. before \in Seq(S) /\ Len(before) = i - 1 /\ \A k \in 1 .. i - 1 : before[k] = s[k]
  BY <1>1, SubSeqProperties
<1>3. after \in Seq(S) /\ Len(after) = Len(s) - i /\ \A k \in 1 .. Len(s) - i : after[k] = s[i + k]
  BY <1>1, SubSeqProperties
<1>4. Naming!Without(s, i) = before \o after
  BY DEF Naming!Without
<1> HIDE DEF before, after
<1>5. /\ before \o after \in Seq(S) /\ Len(before \o after) = Len(s) - 1
      /\ \A k \in 1 .. Len(s) - 1 :
            (before \o after)[k] = IF k <= i - 1 THEN before[k] ELSE after[k - (i - 1)]
  <2>1. /\ before \o after \in Seq(S) /\ Len(before \o after) = Len(before) + Len(after)
        /\ \A k \in 1 .. Len(before) + Len(after) :
              (before \o after)[k] = IF k <= Len(before) THEN before[k] ELSE after[k - Len(before)]
    BY <1>2, <1>3, ConcatProperties
  <2>2. Len(before) + Len(after) = Len(s) - 1
    BY <1>1, <1>2, <1>3
  <2> QED BY <1>2, <2>1, <2>2
<1>6. ASSUME NEW k \in 1 .. Len(s) - 1 PROVE \E j \in 1 .. Len(s) : (before \o after)[k] = s[j]
  <2>1. CASE k <= i - 1
    <3>1. (before \o after)[k] = s[k] /\ k \in 1 .. Len(s)
      BY <1>1, <1>2, <1>5, <2>1
    <3> QED BY <3>1
  <2>2. CASE ~(k <= i - 1)
    <3>1. k - (i - 1) \in 1 .. Len(s) - i /\ i + (k - (i - 1)) = k + 1 /\ k + 1 \in 1 .. Len(s)
      BY <1>1, <2>2
    <3>2. (before \o after)[k] = after[k - (i - 1)]
      BY <1>5, <2>2
    <3>3. after[k - (i - 1)] = s[k + 1]
      BY <1>3, <3>1
    <3> QED BY <3>1, <3>2, <3>3
  <2> QED BY <2>1, <2>2
<1>7. DOMAIN (before \o after) = 1 .. Len(s) - 1
  BY <1>5
<1> QED BY <1>1, <1>4, <1>5, <1>6, <1>7

(* Another read begins: it is the last, and has found nothing yet. *)
LEMMA AskedIsFresh ==
    ASSUME NamesInv, Naming!Asked(loads), Len(loads) < MaxLoads, MaxLoads \in Nat, MaxGiven \in Nat, told' \in Nat,
           told' = told \/ rowsFrom' = rowsFrom, rowsFrom' = rowsFrom
    PROVE  /\ loads' \in Seq(Naming!Found) /\ Len(loads') <= MaxLoads /\ lastLoad' \in Nat
           /\ \A i \in DOMAIN loads' : IsFresh(loads'[i], lastLoad', told')
           /\ rowsFrom'.n < lastLoad'
<1> DEFINE new == [n |-> lastLoad', at |-> "asked", names |-> Naming!NoNames, version |-> 0]
<1>1. lastLoad' = lastLoad + 1 /\ loads' = Append(loads, new)
  BY DEF Naming!Asked
<1>2. new.n = lastLoad' /\ new.at = "asked"
  OBVIOUS
<1>3. new \in Naming!Found
  <2>1. Naming!NoNames \in Naming!Table
    BY DEF Naming!NoNames, Naming!Table, Naming!Given
  <2> QED BY <1>1, <2>1 DEF NamesInv, NamesTypes, Naming!Found
<1> HIDE DEF new
<1>4. loads \in Seq(Naming!Found) /\ lastLoad \in Nat /\ Len(loads) \in Nat /\ rowsFrom.n <= lastLoad /\ rowsFrom.n \in Nat
  BY DEF NamesInv, NamesTypes, ScreenIsFresh
<1>5. /\ loads' \in Seq(Naming!Found) /\ Len(loads') = Len(loads) + 1 /\ DOMAIN loads' = 1 .. Len(loads) + 1
      /\ \A i \in 1 .. Len(loads) : loads'[i] = loads[i]
      /\ loads'[Len(loads) + 1] = new
  BY <1>1, <1>3, <1>4, AppendKeeps
<1>6. ASSUME NEW i \in 1 .. Len(loads) PROVE loads[i].n <= lastLoad /\ loads[i].n \in Nat
  <2>1. i \in DOMAIN loads /\ loads[i] \in Naming!Found
    BY <1>4
  <2> QED BY <2>1 DEF NamesInv, ScreenIsFresh, IsFresh, Naming!Found
<1>7. ASSUME NEW i \in DOMAIN loads' PROVE IsFresh(loads'[i], lastLoad', told')
  <2>1. CASE i \in 1 .. Len(loads)
    <3>1. loads'[i].n < lastLoad'
      BY <1>1, <1>4, <1>5, <1>6, <2>1
    <3> QED BY <1>1, <1>4, <1>5, <1>6, <2>1, <3>1 DEF IsFresh
  <2>2. CASE i = Len(loads) + 1
    BY <1>1, <1>2, <1>4, <1>5, <2>2 DEF IsFresh
  <2> QED BY <1>4, <1>5, <2>1, <2>2
<1> QED BY <1>1, <1>4, <1>5, <1>7

(* A read ends, and what the list knows stays. *)
LEMMA LeftAreFresh ==
    ASSUME NamesInv, NEW i \in DOMAIN loads, loads' = Naming!Without(loads, i), UNCHANGED <<lastLoad, told>>, MaxLoads \in Nat
    PROVE  /\ loads' \in Seq(Naming!Found) /\ Len(loads') <= MaxLoads
           /\ \A k \in DOMAIN loads' : IsFresh(loads'[k], lastLoad', told')
<1>1. loads \in Seq(Naming!Found) /\ Len(loads) \in Nat /\ Len(loads) <= MaxLoads
  BY DEF NamesInv, NamesTypes
<1>2. /\ loads' \in Seq(Naming!Found) /\ Len(loads') = Len(loads) - 1
      /\ \A k \in DOMAIN loads' : \E j \in DOMAIN loads : loads'[k] = loads[j]
  BY <1>1, OneReadLess
<1>3. \A j \in DOMAIN loads : IsFresh(loads[j], lastLoad', told')
  BY DEF NamesInv, ScreenIsFresh, IsFresh
<1> QED BY <1>1, <1>2, <1>3

LEMMA NamesStep ==
    Naming!MemberNamesConstants /\ NamesInv /\ [Naming!MemberNamesNext]_memberNamesVars => NamesInv'
<1> SUFFICES ASSUME Naming!MemberNamesConstants, NamesInv, [Naming!MemberNamesNext]_memberNamesVars PROVE NamesInv'
  OBVIOUS
<1>0. NamesTypes /\ ListIsTold /\ ScreenIsFresh /\ MaxLoads \in Nat /\ MaxGiven \in Nat /\ NoName \notin Nicknames
  BY DEF NamesInv, Naming!MemberNamesConstants
<1>00. told \in Nat /\ version \in Nat /\ Len(saves) \in Nat /\ rowsFrom.n \in Nat
  BY <1>0 DEF NamesTypes
<1> USE DEF Naming!listVars
<1>1. CASE Naming!Load
  <2>1. Naming!Asked(loads) /\ Len(loads) < MaxLoads
        /\ UNCHANGED <<names, version, rows, rowsFrom, namesError, sheet, saves, listRead, listFound, listAgain,
                       listVersion, told>>
    BY <1>1 DEF Naming!Load
  <2>2. /\ loads' \in Seq(Naming!Found) /\ Len(loads') <= MaxLoads /\ lastLoad' \in Nat
        /\ \A i \in DOMAIN loads' : IsFresh(loads'[i], lastLoad', told')
        /\ rowsFrom'.n < lastLoad'
    BY <1>0, <1>00, <2>1, AskedIsFresh
  <2>3. NamesTypes'
    BY <1>0, <2>1, <2>2 DEF NamesTypes
  <2>4. ListIsTold'
    BY <1>0, <2>1 DEF ListIsTold
  <2>5. rowsFrom'.n <= lastLoad' /\ rowsFrom'.n # lastLoad'
    BY <1>00, <2>1, <2>2
  <2>6. ScreenIsFresh'
    BY <1>0, <2>1, <2>2, <2>5 DEF ScreenIsFresh
  <2> QED BY <2>3, <2>4, <2>6 DEF NamesInv
<1>2. ASSUME NEW i \in DOMAIN loads, NEW readable \in BOOLEAN, Naming!Reads(i, readable) PROVE NamesInv'
  <2> DEFINE new == IF readable THEN [loads[i] EXCEPT !.at = "read", !.names = names, !.version = version]
                    ELSE [loads[i] EXCEPT !.at = "unread"]
  <2>1. /\ loads' = [loads EXCEPT ![i] = new]
        /\ UNCHANGED <<names, version, rows, rowsFrom, lastLoad, namesError, sheet, saves, listRead, listFound,
                       listAgain, listVersion, told>>
    BY <1>2 DEF Naming!Reads
  <2>2. loads \in Seq(Naming!Found) /\ loads[i] \in Naming!Found
    BY <1>0 DEF NamesTypes
  <2>3. new \in Naming!Found /\ new.n = loads[i].n /\ (new.at = "read" => new.version = version)
    BY <1>0, <2>2 DEF NamesTypes, Naming!Found
  <2> HIDE DEF new
  <2>4. loads' \in Seq(Naming!Found) /\ Len(loads') = Len(loads) /\ DOMAIN loads' = DOMAIN loads
    BY <2>1, <2>2, <2>3
  <2>5. IsFresh(new, lastLoad, told)
    BY <1>0, <1>00, <2>3 DEF IsFresh, ScreenIsFresh, ListIsTold
  <2>6. \A k \in DOMAIN loads' : loads'[k] = IF k = i THEN new ELSE loads[k]
    BY <2>1, <2>2
  <2>7. \A k \in DOMAIN loads' : IsFresh(loads'[k], lastLoad, told)
    BY <1>0, <2>4, <2>5, <2>6 DEF ScreenIsFresh
  <2>8. NamesTypes'
    BY <1>0, <2>1, <2>4 DEF NamesTypes
  <2>9. ListIsTold'
    BY <1>0, <2>1 DEF ListIsTold
  <2>10. ScreenIsFresh'
    BY <1>0, <2>1, <2>7 DEF ScreenIsFresh, IsFresh
  <2> QED BY <2>8, <2>9, <2>10 DEF NamesInv
<1>3. ASSUME NEW i \in DOMAIN loads, Naming!Answers(i) PROVE NamesInv'
  <2>1. /\ loads' = Naming!Without(loads, i) /\ rows' = loads[i].names /\ namesError' = FALSE
        /\ rowsFrom' = [n |-> loads[i].n, version |-> loads[i].version, read |-> loads[i].at = "read"]
        /\ UNCHANGED <<names, version, lastLoad, sheet, saves, listRead, listFound, listAgain, listVersion, told>>
    BY <1>3 DEF Naming!Answers
  <2>2. loads[i] \in Naming!Found /\ IsFresh(loads[i], lastLoad, told)
    BY <1>0 DEF NamesTypes, ScreenIsFresh
  <2>3. rows' \in Naming!Table
    BY <2>1, <2>2 DEF Naming!Found
  <2>4. rowsFrom' \in [n : Nat, version : 0 .. MaxGiven, read : BOOLEAN]
    BY <2>1, <2>2 DEF Naming!Found
  <2>5. /\ loads' \in Seq(Naming!Found) /\ Len(loads') <= MaxLoads
        /\ \A k \in DOMAIN loads' : IsFresh(loads'[k], lastLoad', told')
    BY <1>0, <2>1, LeftAreFresh
  <2>6. NamesTypes'
    BY <1>0, <2>1, <2>3, <2>4, <2>5 DEF NamesTypes
  <2>7. ListIsTold'
    BY <1>0, <2>1 DEF ListIsTold
  <2>8. rowsFrom'.n = loads[i].n /\ rowsFrom'.version = loads[i].version /\ (rowsFrom'.read <=> loads[i].at = "read")
    BY <2>1
  <2>9. rowsFrom'.n <= lastLoad /\ (rowsFrom'.n = lastLoad /\ rowsFrom'.read => rowsFrom'.version >= told)
    BY <2>2, <2>8 DEF IsFresh
  <2>10. ScreenIsFresh'
    BY <1>0, <2>1, <2>5, <2>9 DEF ScreenIsFresh
  <2> QED BY <2>6, <2>7, <2>10 DEF NamesInv
<1>4. ASSUME NEW i \in DOMAIN loads, Naming!LoadFails(i) PROVE NamesInv'
  <2>1. /\ loads' = Naming!Without(loads, i) /\ namesError' = TRUE
        /\ UNCHANGED <<names, version, rows, rowsFrom, lastLoad, sheet, saves, listRead, listFound, listAgain,
                       listVersion, told>>
    BY <1>4 DEF Naming!LoadFails
  <2>2. /\ loads' \in Seq(Naming!Found) /\ Len(loads') <= MaxLoads
        /\ \A k \in DOMAIN loads' : IsFresh(loads'[k], lastLoad', told')
    BY <1>0, <2>1, LeftAreFresh
  <2>3. NamesTypes'
    BY <1>0, <2>1, <2>2 DEF NamesTypes
  <2>4. ListIsTold'
    BY <1>0, <2>1 DEF ListIsTold
  <2>5. ScreenIsFresh'
    BY <1>0, <2>1, <2>2 DEF ScreenIsFresh
  <2> QED BY <2>3, <2>4, <2>5 DEF NamesInv
<1>5. ASSUME NEW m \in Others, Naming!OpenSheet(m) PROVE NamesInv'
  <2>1. /\ sheet' = [who |-> m, current |-> rows[m]]
        /\ UNCHANGED <<names, version, rows, rowsFrom, loads, lastLoad, namesError, saves, listRead, listFound,
                       listAgain, listVersion, told>>
    BY <1>5 DEF Naming!OpenSheet
  <2>2. rows[m] \in Naming!Given
    BY <1>0 DEF NamesTypes, Naming!Table
  <2>3. sheet' \in [who : Others \cup {NoName}, current : Naming!Given] /\ sheet'.who \in Others
    BY <2>1, <2>2
  <2>4. NamesTypes'
    BY <1>0, <2>1, <2>3 DEF NamesTypes
  <2>5. ListIsTold' /\ ScreenIsFresh'
    BY <1>0, <2>1, <2>3 DEF ListIsTold, ScreenIsFresh, IsFresh
  <2> QED BY <2>4, <2>5 DEF NamesInv
<1>6. ASSUME NEW given \in Naming!Given, Naming!Save(given) PROVE NamesInv'
  <2>1. /\ sheet # Naming!Closed /\ sheet' = Naming!Closed /\ version + Len(saves) < MaxGiven
        /\ saves' = Append(saves, [who |-> sheet.who, name |-> given])
        /\ UNCHANGED <<names, version, rows, rowsFrom, loads, lastLoad, namesError, listRead, listFound, listAgain,
                       listVersion, told>>
    BY <1>6 DEF Naming!Save
  <2>2. [who |-> sheet.who, name |-> given] \in NameSaves
    BY <1>0, <2>1 DEF ScreenIsFresh, NameSaves
  <2>3. saves \in Seq(NameSaves)
    BY <1>0 DEF NamesTypes
  <2>4. saves' \in Seq(NameSaves) /\ Len(saves') = Len(saves) + 1
    BY <2>1, <2>2, <2>3, AppendKeeps
  <2>5. Naming!Closed \in [who : Others \cup {NoName}, current : Naming!Given]
    BY DEF Naming!Closed, Naming!Given
  <2>6. NamesTypes'
    BY <1>0, <2>1, <2>4, <2>5 DEF NamesTypes
  <2>7. version + Len(saves') <= MaxGiven
    BY <1>0, <1>00, <2>1, <2>4
  <2>8. ListIsTold'
    BY <1>0, <2>1, <2>7 DEF ListIsTold
  <2>9. ScreenIsFresh'
    BY <1>0, <2>1 DEF ScreenIsFresh, IsFresh
  <2> QED BY <2>6, <2>8, <2>9 DEF NamesInv
<1>7. CASE Naming!Cancel
  <2>1. Naming!Closed \in [who : Others \cup {NoName}, current : Naming!Given]
    BY DEF Naming!Closed, Naming!Given
  <2>2. NamesTypes'
    BY <1>0, <1>7, <2>1 DEF NamesTypes, Naming!Cancel
  <2>3. ListIsTold' /\ ScreenIsFresh'
    BY <1>0, <1>7 DEF ListIsTold, ScreenIsFresh, IsFresh, Naming!Cancel
  <2> QED BY <2>2, <2>3 DEF NamesInv
<1>8. CASE Naming!Saved
  <2> DEFINE one == Head(saves)
  <2>1. /\ saves # <<>> /\ Len(loads) < MaxLoads /\ names' = [names EXCEPT ![one.who] = one.name]
        /\ version' = version + 1 /\ saves' = Tail(saves) /\ Naming!ListsTold /\ Naming!Asked(loads)
        /\ UNCHANGED <<rows, rowsFrom, namesError, sheet>>
    BY <1>8 DEF Naming!Saved
  <2>2. saves \in Seq(NameSaves)
    BY <1>0 DEF NamesTypes
  <2>3. saves' \in Seq(NameSaves) /\ Len(saves') = Len(saves) - 1 /\ Len(saves) >= 1 /\ one \in NameSaves
    BY <2>1, <2>2, TailKeeps
  <2> HIDE DEF one
  <2>4. names' \in Naming!Table
    BY <1>0, <2>1, <2>3 DEF NamesTypes, Naming!Table, NameSaves
  <2>5. version' \in 0 .. MaxGiven /\ version' + Len(saves') <= MaxGiven /\ version' \in Nat
    BY <1>0, <1>00, <2>1, <2>3 DEF ListIsTold
  <2>6. /\ told' = version' /\ UNCHANGED <<listFound, listVersion>>
        /\ \/ listRead = "idle" /\ listRead' = "asked" /\ listAgain' = listAgain
           \/ listRead # "idle" /\ listAgain' = TRUE /\ listRead' = listRead
    BY <2>1 DEF Naming!ListsTold
  <2>7. /\ loads' \in Seq(Naming!Found) /\ Len(loads') <= MaxLoads /\ lastLoad' \in Nat
        /\ \A i \in DOMAIN loads' : IsFresh(loads'[i], lastLoad', told')
        /\ rowsFrom'.n < lastLoad'
    BY <1>0, <1>00, <2>1, <2>5, <2>6, AskedIsFresh
  <2>8. listRead' \in {"idle", "asked", "read"} /\ listRead' # "idle"
    BY <1>0, <2>6 DEF NamesTypes
  <2>9. listAgain' \in BOOLEAN /\ (listRead' = "read" => listAgain')
    BY <1>0, <2>6 DEF NamesTypes
  <2>10. NamesTypes'
    BY <1>0, <2>1, <2>3, <2>4, <2>5, <2>6, <2>7, <2>8, <2>9 DEF NamesTypes
  <2>11. told' <= version'
    BY <2>5, <2>6
  <2>12. ListIsTold'
    BY <2>5, <2>8, <2>9, <2>11 DEF ListIsTold
  <2>13. rowsFrom'.n <= lastLoad' /\ rowsFrom'.n # lastLoad'
    BY <1>00, <2>1, <2>7
  <2>14. ScreenIsFresh'
    BY <1>0, <2>1, <2>7, <2>13 DEF ScreenIsFresh
  <2> QED BY <2>10, <2>12, <2>14 DEF NamesInv
<1>9. CASE Naming!SaveFails
  <2>1. /\ saves # <<>> /\ saves' = Tail(saves) /\ namesError' = TRUE
        /\ UNCHANGED <<names, version, rows, rowsFrom, loads, lastLoad, sheet, listRead, listFound, listAgain,
                       listVersion, told>>
    BY <1>9 DEF Naming!SaveFails
  <2>2. saves \in Seq(NameSaves)
    BY <1>0 DEF NamesTypes
  <2>3. saves' \in Seq(NameSaves) /\ Len(saves') = Len(saves) - 1
    BY <2>1, <2>2, TailKeeps
  <2>4. version + Len(saves') <= MaxGiven
    BY <1>0, <1>00, <2>3 DEF ListIsTold
  <2>5. NamesTypes'
    BY <1>0, <2>1, <2>3 DEF NamesTypes
  <2>6. ListIsTold'
    BY <1>0, <2>1, <2>4 DEF ListIsTold
  <2>7. ScreenIsFresh'
    BY <1>0, <2>1 DEF ScreenIsFresh, IsFresh
  <2> QED BY <2>5, <2>6, <2>7 DEF NamesInv
<1>10. ASSUME NEW m \in Others, NEW given \in Naming!Given, Naming!Elsewhere(m, given) PROVE NamesInv'
  <2>1. /\ version + Len(saves) < MaxGiven /\ names' = [names EXCEPT ![m] = given] /\ version' = version + 1
        /\ UNCHANGED <<rows, rowsFrom, loads, lastLoad, namesError, sheet, saves, listRead, listFound, listAgain,
                       listVersion, told>>
    BY <1>10 DEF Naming!Elsewhere
  <2>2. names' \in Naming!Table
    BY <1>0, <2>1 DEF NamesTypes, Naming!Table
  <2>3. version' \in 0 .. MaxGiven /\ version' + Len(saves) <= MaxGiven /\ told <= version'
    BY <1>0, <1>00, <2>1 DEF ListIsTold
  <2>4. NamesTypes'
    BY <1>0, <2>1, <2>2, <2>3 DEF NamesTypes
  <2>5. ListIsTold'
    BY <1>0, <2>1, <2>3 DEF ListIsTold
  <2>6. ScreenIsFresh'
    BY <1>0, <2>1 DEF ScreenIsFresh, IsFresh
  <2> QED BY <2>4, <2>5, <2>6 DEF NamesInv
<1>11. CASE Naming!ListReads
  <2>1. /\ listRead' = "read" /\ listFound' = version
        /\ UNCHANGED <<names, version, rows, rowsFrom, loads, lastLoad, namesError, sheet, saves, listAgain,
                       listVersion, told>>
    BY <1>11 DEF Naming!ListReads
  <2>2. NamesTypes'
    BY <1>0, <2>1 DEF NamesTypes
  <2>3. listFound' >= told
    BY <1>0, <1>00, <2>1 DEF ListIsTold
  <2>4. ListIsTold'
    BY <1>0, <2>1, <2>3 DEF ListIsTold
  <2>5. ScreenIsFresh'
    BY <1>0, <2>1 DEF ScreenIsFresh, IsFresh
  <2> QED BY <2>2, <2>4, <2>5 DEF NamesInv
<1>12. CASE Naming!ListShows
  <2>1. /\ listRead = "read" /\ listVersion' = listFound /\ listAgain' = FALSE
        /\ listRead' = (IF listAgain THEN "asked" ELSE "idle")
        /\ UNCHANGED <<names, version, rows, rowsFrom, loads, lastLoad, namesError, sheet, saves, listFound, told>>
    BY <1>12 DEF Naming!ListShows
  <2>2. listRead' \in {"asked", "idle"} /\ (listRead' = "idle" => ~listAgain)
    BY <1>0, <2>1 DEF NamesTypes
  <2>3. NamesTypes'
    BY <1>0, <2>1, <2>2 DEF NamesTypes
  <2>4. ListIsTold'
    BY <1>0, <2>1, <2>2 DEF ListIsTold
  <2>5. ScreenIsFresh'
    BY <1>0, <2>1 DEF ScreenIsFresh, IsFresh
  <2> QED BY <2>3, <2>4, <2>5 DEF NamesInv
<1>13. CASE UNCHANGED memberNamesVars
  BY <1>0, <1>13 DEF NamesInv, NamesTypes, ListIsTold, ScreenIsFresh, IsFresh, memberNamesVars
<1> QED
  BY <1>1, <1>2, <1>3, <1>4, <1>5, <1>6, <1>7, <1>8, <1>9, <1>10, <1>11, <1>12, <1>13
  DEF Naming!MemberNamesNext

LEMMA NamesHoldAlone ==
    ASSUME Naming!MemberNamesConstants
    PROVE  Naming!MemberNamesInit /\ [][Naming!MemberNamesNext]_memberNamesVars =>
              [](Naming!MemberNamesTypeOK /\ Naming!NamesFollow)
<1>1. NamesInv => Naming!MemberNamesTypeOK /\ Naming!NamesFollow
  BY NamesTypesAre DEF NamesInv, ListIsTold, ScreenIsFresh, Naming!NamesFollow
<1> QED BY <1>1, NamesInitInv, NamesStep, PTL

-----------------------------------------------------------------------------
(***************************************************************************)
(* Opening.                                                                *)
(* OpeningIsFair, for any names, openings and edits.  The inductive        *)
(* invariant says what data without a marker is of, that nothing goes on   *)
(* in the app before its check, and that the saves of a first form are     *)
(* its own.                                                                *)
(***************************************************************************)
MarkerTells ==
    /\ marker = "other" => "other" \in wroteBy
    /\ marker = "none" /\ wroteBy # {} => "other" \in wroteBy \/ unmarked
    /\ check \in {"keys", "marking"} => marker = "none"
    /\ check = "ok" => marker # "none" \/ unmarked

CheckedFirst ==
    /\ gate # "unknown" => check = "ok"
    /\ gate = "unknown" => form.at = "closed" /\ nameSaves = <<>>
    /\ form.at = "closed" => form.reads = 0

NameIsAsked ==
    /\ gate = "first" => \A i \in 1 .. Len(nameSaves) : nameSaves[i].here
    /\ named => name # NoName

OpeningInv == App!OpeningTypeOK /\ MarkerTells /\ CheckedFirst /\ NameIsAsked /\ App!OpeningIsFair

Texts == App!Text
Reads == 0 .. 1
FormSet == [at : {"closed", "open"}, text : Texts, first : BOOLEAN, dirty : BOOLEAN, reads : Reads, error : BOOLEAN]

LEMMA FormsAre ==
    /\ App!NoForm \in FormSet /\ App!NoForm.at = "closed" /\ App!NoForm.reads = 0
    /\ [App!NoForm EXCEPT !.at = "open", !.reads = 1] \in FormSet
    /\ [App!NoForm EXCEPT !.at = "open", !.reads = 1].at = "open"
    /\ NoName \in Texts /\ 0 \in Reads /\ 1 \in Reads
    /\ FormSet = [at : {"closed", "open"}, text : App!Text, first : BOOLEAN, dirty : BOOLEAN, reads : 0 .. 1, error : BOOLEAN]
<1>1. NoName \in Texts /\ 0 \in Reads /\ 1 \in Reads
  BY DEF App!Text, Texts, Reads
<1>2. App!NoForm \in FormSet /\ App!NoForm.at = "closed" /\ App!NoForm.reads = 0
  BY <1>1 DEF App!NoForm, FormSet
<1>3. \A f \in FormSet, r \in Reads : [f EXCEPT !.at = "open", !.reads = r] \in FormSet /\ [f EXCEPT !.at = "open", !.reads = r].at = "open"
  BY DEF FormSet
<1>4. FormSet = [at : {"closed", "open"}, text : App!Text, first : BOOLEAN, dirty : BOOLEAN, reads : 0 .. 1, error : BOOLEAN]
  BY DEF FormSet, Texts, Reads
<1> QED BY <1>1, <1>2, <1>3, <1>4

LEMMA OpeningInitInv == App!OpeningConstants /\ App!OpeningInit => OpeningInv
<1> SUFFICES ASSUME App!OpeningConstants, App!OpeningInit PROVE OpeningInv
  OBVIOUS
<1>1. nameSaves = <<>> /\ Len(nameSaves) = 0 /\ nameSaves \in Seq([name : Names, here : BOOLEAN])
  BY DEF App!OpeningInit
<1>2. /\ openings = 0 /\ edits = 0 /\ name = NoName /\ wording = NoName /\ form = App!NoForm /\ ~named
      /\ named = FALSE /\ unmarked = FALSE /\ overtaken = FALSE /\ booted = FALSE
      /\ check = "closed" /\ gate = "unknown"
  BY DEF App!OpeningInit
<1>3. openings \in 0 .. MaxOpenings /\ edits \in 0 .. MaxEdits
  BY <1>2 DEF App!OpeningConstants
<1>4. marker \in {"none", "this", "other"} /\ wroteBy \subseteq {"this", "other"}
  BY DEF App!OpeningInit
<1>5. App!OpeningTypeOK
  <2>1. {name, wording} \subseteq App!Text /\ {booted, named, unmarked, overtaken} \subseteq BOOLEAN
    BY <1>2 DEF App!Text
  <2>2. Len(nameSaves) <= 2
    BY <1>1
  <2> QED BY <1>1, <1>2, <1>3, <1>4, <2>1, <2>2, FormsAre DEF App!OpeningTypeOK
<1>6. MarkerTells
  BY <1>2 DEF App!OpeningInit, MarkerTells
<1>7. CheckedFirst /\ NameIsAsked
  BY <1>1, <1>2, FormsAre DEF CheckedFirst, NameIsAsked
<1>8. App!OpeningIsFair
  BY <1>2 DEF App!OpeningIsFair
<1> QED BY <1>5, <1>6, <1>7, <1>8 DEF OpeningInv

(* The app opens, dies, and checks its data. *)
LEMMA ChecksKeep ==
    ASSUME App!OpeningConstants, OpeningInv,
           \/ App!Open \/ App!Killed \/ App!CheckMarker \/ App!CheckKeys \/ App!Mark \/ App!CheckFails \/ App!Boot
           \/ UNCHANGED App!openingVars
    PROVE  OpeningInv'
<1>1. CASE App!Open
  <2>1. openings' \in 0 .. MaxOpenings
    BY <1>1 DEF App!Open, OpeningInv, App!OpeningTypeOK, App!OpeningConstants
  <2>2. App!OpeningTypeOK'
    BY <1>1, <2>1 DEF App!Open, App!savedVars, App!formVars, OpeningInv, App!OpeningTypeOK
  <2> QED BY <1>1, <2>2 DEF App!Open, App!savedVars, App!formVars, OpeningInv, MarkerTells, CheckedFirst, NameIsAsked, App!OpeningIsFair
<1>2. CASE App!Killed
  <2>1. /\ check' = "closed" /\ booted' = FALSE /\ gate' = "unknown" /\ form' = App!NoForm /\ nameSaves' = <<>> /\ wording' = NoName
        /\ UNCHANGED <<marker, wroteBy, name, openings, edits, overtaken, named, unmarked>>
    BY <1>2 DEF App!Killed, App!savedVars
  <2>2. nameSaves' \in Seq([name : Names, here : BOOLEAN]) /\ Len(nameSaves') = 0
    BY <2>1
  <2>3. App!OpeningTypeOK'
    <3>1. {name, wording}' \subseteq App!Text /\ {booted, named, unmarked, overtaken}' \subseteq BOOLEAN
      BY <2>1 DEF OpeningInv, App!OpeningTypeOK, App!Text
    <3>2. Len(nameSaves') <= 2
      BY <2>2
    <3> QED BY <2>1, <2>2, <3>1, <3>2, FormsAre DEF OpeningInv, App!OpeningTypeOK
  <2>4. MarkerTells' /\ App!OpeningIsFair'
    BY <2>1 DEF OpeningInv, MarkerTells, App!OpeningIsFair
  <2>5. CheckedFirst' /\ NameIsAsked'
    BY <2>1, FormsAre DEF OpeningInv, CheckedFirst, NameIsAsked
  <2> QED BY <2>3, <2>4, <2>5 DEF OpeningInv
<1>3. CASE App!CheckMarker \/ App!CheckKeys \/ App!Mark \/ App!CheckFails \/ App!Boot \/ UNCHANGED App!openingVars
  <2>1. UNCHANGED <<name, openings, gate, form, nameSaves, edits, wording, overtaken, named>>
    BY <1>3 DEF App!CheckMarker, App!CheckKeys, App!Mark, App!CheckFails, App!Boot, App!openingVars, App!savedVars, App!formVars
  <2>2. /\ marker' \in {"none", "this", "other"} /\ wroteBy' \subseteq {"this", "other"}
        /\ check' \in {"closed", "marker", "keys", "marking", "ok", "refused"}
        /\ booted' \in BOOLEAN /\ unmarked' \in BOOLEAN
    BY <1>3 DEF App!CheckMarker, App!CheckKeys, App!Mark, App!CheckFails, App!Boot, App!openingVars, App!savedVars, App!formVars,
       OpeningInv, App!OpeningTypeOK
  <2>3. App!OpeningTypeOK'
    BY <2>1, <2>2 DEF OpeningInv, App!OpeningTypeOK
  <2>4. MarkerTells' /\ (check' = "refused" => "other" \in wroteBy' \/ unmarked')
    BY <1>3 DEF App!CheckMarker, App!CheckKeys, App!Mark, App!CheckFails, App!Boot, App!openingVars, App!savedVars, App!formVars,
       OpeningInv, App!OpeningTypeOK, MarkerTells, App!OpeningIsFair
  <2>5. gate # "unknown" => check' = "ok"
    BY <1>3 DEF App!CheckMarker, App!CheckKeys, App!Mark, App!CheckFails, App!Boot, App!openingVars, App!savedVars, App!formVars,
       OpeningInv, CheckedFirst
  <2>6. CheckedFirst' /\ NameIsAsked'
    BY <2>1, <2>5 DEF OpeningInv, CheckedFirst, NameIsAsked
  <2>7. App!OpeningIsFair'
    BY <2>1, <2>4 DEF OpeningInv, App!OpeningIsFair
  <2> QED BY <2>3, <2>4, <2>6, <2>7 DEF OpeningInv
<1> QED BY <1>1, <1>2, <1>3

(* The form opens, reads and is typed in. *)
LEMMA FormsKeep ==
    ASSUME App!OpeningConstants, OpeningInv,
           \/ \E readable \in BOOLEAN : App!LookForName(readable) \/ App!FormReads(readable)
           \/ \E n \in App!Text : App!Type(n)
           \/ App!OpenForm \/ App!Relabel
    PROVE  OpeningInv'
<1>1. UNCHANGED <<marker, wroteBy, name, openings, check, booted, nameSaves, named, unmarked>>
  BY DEF App!LookForName, App!FormReads, App!Type, App!OpenForm, App!Relabel, App!savedVars
<1>2. form \in FormSet /\ wording \in App!Text /\ name \in App!Text /\ edits \in 0 .. MaxEdits /\ MaxEdits \in Nat
      /\ NoName \in App!Text
  BY FormsAre DEF OpeningInv, App!OpeningTypeOK, App!OpeningConstants, App!Text
<1>3. edits' \in 0 .. MaxEdits
  <2>1. edits' = edits \/ (edits < MaxEdits /\ edits' = edits + 1)
    BY DEF App!LookForName, App!FormReads, App!Type, App!OpenForm, App!Relabel
  <2> QED BY <1>2, <2>1
<1>4. /\ form' \in FormSet /\ wording' \in App!Text /\ overtaken' \in BOOLEAN
      /\ gate' \in {"unknown", "first", "known"} /\ (gate' = "unknown" => gate = "unknown" /\ form' = form)
      /\ (gate # "unknown" => gate' = gate) /\ (gate' # "unknown" => check = "ok")
      /\ (gate = "unknown" => nameSaves = <<>>) /\ (gate' = "first" /\ gate = "unknown" => name = NoName)
      /\ (form'.at = "closed" => form'.reads = 0)
      /\ (wording' # NoName => form'.at = "open" /\ (form'.text = wording' \/ overtaken'))
  <2>1. form.at = "closed" => form.reads = 0 /\ wording = NoName
    BY DEF OpeningInv, CheckedFirst, App!OpeningIsFair
  <2>2. overtaken \in BOOLEAN /\ gate \in {"unknown", "first", "known"}
    BY DEF OpeningInv, App!OpeningTypeOK
  <2>3. /\ gate # "unknown" => check = "ok"
        /\ gate = "unknown" => form.at = "closed" /\ nameSaves = <<>>
        /\ wording # NoName => form.at = "open" /\ (form.text = wording \/ overtaken)
    BY DEF OpeningInv, CheckedFirst, App!OpeningIsFair
  <2>4. ASSUME NEW readable \in BOOLEAN, App!LookForName(readable) PROVE <1>4!:
    <3>1. /\ check = "ok" /\ gate = "unknown" /\ gate' = IF readable /\ name = NoName THEN "first" ELSE "known"
          /\ form' = IF gate' = "first" THEN [App!NoForm EXCEPT !.at = "open", !.reads = 1] ELSE form
          /\ UNCHANGED <<wording, overtaken>>
      BY <2>4 DEF App!LookForName
    <3> QED BY <1>2, <2>1, <2>2, <2>3, <3>1, FormsAre DEF FormSet
  <2>5. ASSUME App!OpenForm PROVE <1>4!:
    <3>1. /\ gate # "unknown" /\ form.at = "closed" /\ form' = [App!NoForm EXCEPT !.at = "open", !.reads = 1]
          /\ UNCHANGED <<gate, wording, overtaken>>
      BY <2>5 DEF App!OpenForm
    <3> QED BY <1>2, <2>1, <2>2, <2>3, <3>1, FormsAre DEF FormSet
  <2>6. ASSUME NEW n \in App!Text, App!Type(n) PROVE <1>4!:
    <3>1. /\ form.at = "open" /\ form' = [form EXCEPT !.text = n, !.dirty = TRUE] /\ wording' = n
          /\ UNCHANGED <<gate, overtaken>>
      BY <2>6 DEF App!Type
    <3>2. form' \in FormSet /\ form'.at = "open" /\ form'.text = n
      BY <1>2, <3>1, FormsAre DEF FormSet
    <3> QED BY <1>2, <2>2, <2>3, <3>1, <3>2
  <2>7. ASSUME App!Relabel PROVE <1>4!:
    <3>1. form.at = "open" /\ form' = [form EXCEPT !.reads = 1] /\ UNCHANGED <<gate, wording, overtaken>>
      BY <2>7 DEF App!Relabel
    <3>2. form' \in FormSet /\ form'.at = "open" /\ form'.text = form.text
      BY <1>2, <3>1, FormsAre DEF FormSet
    <3> QED BY <1>2, <2>2, <2>3, <3>1, <3>2
  <2>8. ASSUME NEW readable \in BOOLEAN, App!FormReads(readable) PROVE <1>4!:
    <3>1. /\ form.reads > 0
          /\ form' = IF readable THEN [form EXCEPT !.reads = 0, !.text = name, !.first = name = NoName]
                     ELSE [form EXCEPT !.reads = 0, !.error = TRUE]
          /\ overtaken' = (overtaken \/ (readable /\ wording \notin {NoName, name}))
          /\ UNCHANGED <<gate, wording>>
      BY <2>8 DEF App!FormReads
    <3>2. form.at = "open"
      BY <1>2, <2>1, <3>1 DEF FormSet
    <3>3. CASE readable
      <4> DEFINE b == name = NoName
      <4>0. form' = [form EXCEPT !.reads = 0, !.text = name, !.first = b] /\ b \in BOOLEAN
        BY <3>1, <3>3
      <4> HIDE DEF b
      <4>1. form' \in FormSet /\ form'.at = "open" /\ form'.text = name
        BY <1>2, <3>2, <4>0, FormsAre DEF FormSet
      <4>2. overtaken' \in BOOLEAN /\ (wording # NoName => name = wording \/ overtaken')
        BY <2>2, <3>1, <3>3
      <4>3. gate' = gate /\ wording' = wording
        BY <3>1
      <4> QED BY <1>2, <2>2, <2>3, <3>2, <4>1, <4>2, <4>3
    <3>4. CASE ~readable
      <4>1. form' \in FormSet /\ form'.at = "open" /\ form'.text = form.text
        BY <1>2, <3>1, <3>2, <3>4, FormsAre DEF FormSet
      <4> QED BY <1>2, <2>2, <2>3, <3>1, <3>4, <4>1
    <3> QED BY <3>3, <3>4
  <2> QED BY <2>4, <2>5, <2>6, <2>7, <2>8
<1>5. App!OpeningTypeOK'
  BY <1>1, <1>3, <1>4, FormsAre DEF OpeningInv, App!OpeningTypeOK
<1>6. MarkerTells'
  BY <1>1 DEF OpeningInv, MarkerTells
<1>7. CheckedFirst'
  BY <1>1, <1>4 DEF OpeningInv, CheckedFirst
<1>8. NameIsAsked'
  <2>1. gate' = "first" => \A i \in 1 .. Len(nameSaves) : nameSaves[i].here
    <3>1. CASE gate = "unknown"
      <4>1. Len(nameSaves) = 0
        BY <1>4, <3>1
      <4> QED BY <4>1
    <3>2. CASE gate # "unknown"
      BY <1>4, <3>2 DEF OpeningInv, NameIsAsked
    <3> QED BY <3>1, <3>2
  <2> QED BY <1>1, <2>1 DEF OpeningInv, NameIsAsked
<1>9. App!OpeningIsFair'
  <2>1. gate' = "first" => ~named
    BY <1>4 DEF OpeningInv, NameIsAsked, App!OpeningIsFair
  <2> QED BY <1>1, <1>4, <2>1 DEF OpeningInv, App!OpeningIsFair
<1> QED BY <1>5, <1>6, <1>7, <1>8, <1>9 DEF OpeningInv

SaveSet == [name : Names, here : BOOLEAN]

(* Names are saved. *)
LEMMA NamesKeep ==
    ASSUME App!OpeningConstants, OpeningInv, App!Back \/ App!Save \/ App!Saved \/ App!SaveFails
    PROVE  OpeningInv'
<1>1. /\ form \in FormSet /\ nameSaves \in Seq(SaveSet) /\ Len(nameSaves) \in Nat /\ Len(nameSaves) <= 2
      /\ gate \in {"unknown", "first", "known"} /\ wording \in App!Text /\ name \in App!Text /\ NoName \in App!Text
      /\ Names \subseteq App!Text /\ overtaken \in BOOLEAN
      /\ wroteBy \subseteq {"this", "other"} /\ named \in BOOLEAN
  BY FormsAre DEF OpeningInv, App!OpeningTypeOK, SaveSet, App!OpeningConstants, App!Text
<1>2. nameSaves # <<>> => check = "ok" /\ gate # "unknown"
  BY <1>1 DEF OpeningInv, CheckedFirst
<1>3. UNCHANGED <<marker, openings, check, booted, edits, unmarked>>
  BY DEF App!Back, App!Save, App!Saved, App!SaveFails, App!savedVars
<1>4. CASE App!Back
  <2>1. /\ form.at = "open" /\ gate = "known" /\ form' = App!NoForm /\ wording' = NoName
        /\ nameSaves' = [i \in DOMAIN nameSaves |-> [nameSaves[i] EXCEPT !.here = FALSE]]
        /\ UNCHANGED <<name, wroteBy, gate, overtaken, named>>
    BY <1>4 DEF App!Back, App!Closes, App!savedVars
  <2>2. DOMAIN nameSaves = 1 .. Len(nameSaves) /\ \A i \in 1 .. Len(nameSaves) : [nameSaves[i] EXCEPT !.here = FALSE] \in SaveSet
    <3>1. DOMAIN nameSaves = 1 .. Len(nameSaves) /\ \A i \in 1 .. Len(nameSaves) : nameSaves[i] \in SaveSet
      BY <1>1
    <3>2. \A x \in SaveSet : [x EXCEPT !.here = FALSE] \in SaveSet
      BY DEF SaveSet
    <3> QED BY <3>1, <3>2
  <2>3. nameSaves' \in Seq(SaveSet) /\ Len(nameSaves') = Len(nameSaves)
    BY <1>1, <2>1, <2>2
  <2>4. App!OpeningTypeOK'
    BY <1>1, <1>3, <2>1, <2>3, FormsAre DEF OpeningInv, App!OpeningTypeOK, SaveSet
  <2>5. MarkerTells' /\ App!OpeningIsFair'
    BY <1>3, <2>1 DEF OpeningInv, MarkerTells, App!OpeningIsFair
  <2>6. CheckedFirst' /\ NameIsAsked'
    BY <1>3, <2>1, FormsAre DEF OpeningInv, CheckedFirst, NameIsAsked
  <2> QED BY <2>4, <2>5, <2>6 DEF OpeningInv
<1>5. CASE App!Save
  <2> DEFINE c == [name |-> form.text, here |-> TRUE]
  <2>1. /\ form.at = "open" /\ form.text # NoName /\ Len(nameSaves) < 2 /\ nameSaves' = Append(nameSaves, c)
        /\ UNCHANGED <<name, wroteBy, gate, form, wording, overtaken, named>>
    BY <1>5 DEF App!Save, App!savedVars
  <2>2. c \in SaveSet /\ c.here = TRUE
    BY <1>1, <2>1 DEF SaveSet, FormSet, Texts, App!Text
  <2> HIDE DEF c
  <2>3. /\ nameSaves' \in Seq(SaveSet) /\ Len(nameSaves') = Len(nameSaves) + 1 /\ Len(nameSaves') <= 2
        /\ \A i \in 1 .. Len(nameSaves') : nameSaves'[i] = IF i <= Len(nameSaves) THEN nameSaves[i] ELSE c
    BY <1>1, <2>1, <2>2, AppendProperties
  <2>4. gate # "unknown"
    BY <2>1 DEF OpeningInv, CheckedFirst
  <2>5. App!OpeningTypeOK'
    BY <1>3, <2>1, <2>3 DEF OpeningInv, App!OpeningTypeOK, SaveSet
  <2>6. MarkerTells' /\ App!OpeningIsFair'
    BY <1>3, <2>1 DEF OpeningInv, MarkerTells, App!OpeningIsFair
  <2>7. CheckedFirst'
    BY <1>3, <2>1, <2>4 DEF OpeningInv, CheckedFirst
  <2>8. gate = "first" => \A i \in 1 .. Len(nameSaves') : nameSaves'[i].here
    BY <1>1, <2>2, <2>3 DEF OpeningInv, NameIsAsked
  <2>9. NameIsAsked'
    BY <2>1, <2>8 DEF OpeningInv, NameIsAsked
  <2> QED BY <2>5, <2>6, <2>7, <2>9 DEF OpeningInv
<1>6. ASSUME nameSaves # <<>>
      PROVE  /\ Head(nameSaves) \in SaveSet /\ Head(nameSaves) = nameSaves[1] /\ 1 \in 1 .. Len(nameSaves)
             /\ Tail(nameSaves) \in Seq(SaveSet) /\ Len(Tail(nameSaves)) = Len(nameSaves) - 1
             /\ DOMAIN Tail(nameSaves) = 1 .. Len(Tail(nameSaves))
             /\ \A i \in 1 .. Len(Tail(nameSaves)) :
                    /\ Tail(nameSaves)[i] \in SaveSet /\ Tail(nameSaves)[i] = nameSaves[i + 1] /\ i + 1 \in 1 .. Len(nameSaves)
  BY <1>1, <1>6
<1>7. CASE App!Saved
  <2> DEFINE h == Head(nameSaves)
             t == Tail(nameSaves)
             left == [i \in DOMAIN t |-> [t[i] EXCEPT !.here = @ /\ ~h.here]]
  <2>1. /\ nameSaves # <<>> /\ name' = h.name /\ named' = TRUE /\ wroteBy' = wroteBy \cup {"this"} /\ nameSaves' = left
        /\ IF h.here
           THEN /\ form' = App!NoForm /\ wording' = NoName /\ gate' = "known"
                /\ overtaken' = (overtaken \/ wording \notin {NoName, name'})
           ELSE UNCHANGED <<gate, form, wording, overtaken>>
    BY <1>7 DEF App!Saved, App!Closes
  <2>2. h \in SaveSet /\ t \in Seq(SaveSet) /\ Len(t) = Len(nameSaves) - 1 /\ DOMAIN t = 1 .. Len(t)
        /\ (gate = "first" => h.here)
    BY <1>6, <2>1 DEF OpeningInv, NameIsAsked
  <2>3. \A i \in 1 .. Len(t) : [t[i] EXCEPT !.here = @ /\ ~h.here] \in SaveSet
    <3> SUFFICES ASSUME NEW i \in 1 .. Len(t) PROVE [t[i] EXCEPT !.here = @ /\ ~h.here] \in SaveSet
      OBVIOUS
    <3> DEFINE b == t[i].here /\ ~h.here
    <3>0. t[i] \in SaveSet /\ h \in SaveSet
      BY <1>6, <2>1
    <3> HIDE DEF t, h
    <3>1. b \in BOOLEAN
      BY <3>0 DEF SaveSet
    <3>2. [t[i] EXCEPT !.here = @ /\ ~h.here] = [t[i] EXCEPT !.here = b]
      OBVIOUS
    <3> HIDE DEF b
    <3> QED BY <3>0, <3>1, <3>2 DEF SaveSet
  <2>4. left \in Seq(SaveSet) /\ Len(left) = Len(t)
    <3> HIDE DEF h, t
    <3> QED BY <2>2, <2>3
  <2>5. h.name \in Names /\ h.here \in BOOLEAN /\ h.name # NoName
    BY <2>2 DEF SaveSet, App!OpeningConstants
  <2> HIDE DEF h, t, left
  <2>6. nameSaves' \in Seq(SaveSet) /\ Len(nameSaves') <= 2
    BY <1>1, <2>1, <2>2, <2>4
  <2>7. gate' # "first" /\ gate' \in {"known", gate} /\ gate' # "unknown" /\ check = "ok"
    BY <1>1, <1>2, <2>1, <2>2
  <2>8. App!OpeningTypeOK'
    BY <1>1, <1>3, <2>1, <2>5, <2>6, <2>7, FormsAre DEF OpeningInv, App!OpeningTypeOK, SaveSet
  <2>9. MarkerTells'
    BY <1>3, <2>1, <2>7 DEF OpeningInv, MarkerTells
  <2>10. form'.at = "closed" => form'.reads = 0
    BY <2>1, FormsAre DEF OpeningInv, CheckedFirst
  <2>11. CheckedFirst' /\ NameIsAsked'
    BY <1>3, <2>1, <2>5, <2>7, <2>10 DEF CheckedFirst, NameIsAsked
  <2>12. App!OpeningIsFair'
    BY <1>3, <2>1, <2>7 DEF OpeningInv, App!OpeningIsFair
  <2> QED BY <2>8, <2>9, <2>11, <2>12 DEF OpeningInv
<1>8. CASE App!SaveFails
  <2> DEFINE b == Head(nameSaves).here
  <2>1. /\ nameSaves # <<>> /\ nameSaves' = Tail(nameSaves) /\ form' = [form EXCEPT !.error = @ \/ b]
        /\ UNCHANGED <<name, wroteBy, gate, wording, overtaken, named>>
    BY <1>8 DEF App!SaveFails, App!savedVars
  <2> DEFINE e == form.error \/ b
  <2>2. b \in BOOLEAN /\ form.error \in BOOLEAN
    BY <1>1, <1>6, <2>1 DEF SaveSet, FormSet
  <2>9. e \in BOOLEAN /\ form' = [form EXCEPT !.error = e]
    BY <2>1, <2>2
  <2>3. form' \in FormSet /\ form'.at = form.at /\ form'.reads = form.reads /\ form'.text = form.text
    <3> HIDE DEF b, e
    <3> QED BY <1>1, <2>9, FormsAre DEF FormSet
  <2>4. nameSaves' \in Seq(SaveSet) /\ Len(nameSaves') <= 2
    BY <1>1, <1>6, <2>1
  <2>5. App!OpeningTypeOK'
    BY <1>3, <2>1, <2>3, <2>4, FormsAre DEF OpeningInv, App!OpeningTypeOK, SaveSet
  <2>6. MarkerTells' /\ App!OpeningIsFair'
    BY <1>3, <2>1, <2>3 DEF OpeningInv, MarkerTells, App!OpeningIsFair
  <2>7. CheckedFirst'
    BY <1>2, <1>3, <2>1, <2>3 DEF OpeningInv, CheckedFirst
  <2>8. NameIsAsked'
    BY <1>6, <2>1 DEF OpeningInv, NameIsAsked
  <2> QED BY <2>5, <2>6, <2>7, <2>8 DEF OpeningInv
<1> QED BY <1>4, <1>5, <1>7, <1>8

LEMMA OpeningStep ==
    App!OpeningConstants /\ OpeningInv /\ [App!OpeningNext]_(App!openingVars) => OpeningInv'
BY ChecksKeep, FormsKeep, NamesKeep, Zenon DEF App!OpeningNext

LEMMA OpeningHoldsAlone ==
    ASSUME App!OpeningConstants
    PROVE  App!OpeningInit /\ [][App!OpeningNext]_(App!openingVars) =>
              [](App!OpeningTypeOK /\ App!OpeningIsFair)
<1>1. OpeningInv => App!OpeningTypeOK /\ App!OpeningIsFair
  BY DEF OpeningInv
<1> QED BY <1>1, OpeningInitInv, OpeningStep, PTL

-----------------------------------------------------------------------------
(***************************************************************************)
(* Leaving.                                                                *)
(* LeavingIsAsked, for any leaves.  The inductive invariant says what a    *)
(* user who is asked was told, which leave has the strand stopped, and     *)
(* that without an overlap one leave is under way, which read the record   *)
(* there is.                                                               *)
(***************************************************************************)
LeaveSet == [at : Departing!Stages, keep : BOOLEAN, discard : BOOLEAN, list : Departing!Slots, told : 0 .. MaxUnsent]

LeavingTypes ==
    /\ leave \in [Leaves -> LeaveSet] /\ slot \in Departing!Slots
    /\ messagesWritten \in 0 .. MaxUnsent /\ unsent \in Nat /\ withdrawn \in Nat /\ agreed \in Nat
    /\ withdrawn + unsent <= messagesWritten
    /\ instance \in BOOLEAN /\ published \in BOOLEAN /\ leaveError \in BOOLEAN /\ forgot \in BOOLEAN
    /\ lateMessage \in BOOLEAN /\ guessed \in BOOLEAN /\ halted \in BOOLEAN /\ overlapped \in BOOLEAN

Dropping == \E l \in Leaves : leave[l].discard

Told ==
    /\ withdrawn > 0 => Dropping
    /\ lateMessage \/ guessed \/ (Dropping => withdrawn + unsent <= agreed)
    /\ lateMessage \/ guessed \/ \A l \in Leaves : leave[l].at = "asking" => unsent <= leave[l].told

StoppedToLeave ==
    instance \/ ~published \/ leaveError \/ halted \/ \E l \in Leaves : leave[l].at = "removing"

Doing(l) == leave[l].at \in {"checking", "stopping", "removing", "saving"}

OneAtATime ==
    overlapped \/ /\ \A k, l \in Leaves : Doing(k) /\ Doing(l) => k = l
                  /\ forgot => /\ slot = "absent"
                               /\ \A l \in Leaves : leave[l].at \in {"stopping", "removing", "saving"} => leave[l].list = "absent"

LeavingInv == LeavingTypes /\ Told /\ StoppedToLeave /\ OneAtATime

LEMMA LeavingHonest == LeavingInv => Departing!LeavingIsAsked
<1> SUFFICES ASSUME LeavingInv PROVE Departing!LeavingIsAsked
  OBVIOUS
<1>1. withdrawn > 0 => \E l \in Leaves : leave[l].discard
  BY DEF LeavingInv, Told, Dropping
<1>2. withdrawn <= agreed \/ lateMessage \/ guessed
  <2>1. withdrawn \in Nat /\ unsent \in Nat /\ agreed \in Nat
    BY DEF LeavingInv, LeavingTypes
  <2> QED BY <1>1, <2>1 DEF LeavingInv, Told, Dropping
<1>3. (\A l \in Leaves : leave[l].at \in {"unused", "shown", "sure", "asking", "closed"})
          /\ published /\ ~leaveError => instance \/ halted
  BY DEF LeavingInv, StoppedToLeave
<1>4. forgot /\ Departing!UnderWay = {} => slot = "absent" \/ overlapped
  BY DEF LeavingInv, OneAtATime
<1> QED BY <1>1, <1>2, <1>3, <1>4 DEF Departing!LeavingIsAsked

LEMMA LeavingInitInv == Departing!LeavingConstants /\ Departing!LeavingInit => LeavingInv
<1> SUFFICES ASSUME Departing!LeavingConstants, Departing!LeavingInit PROVE LeavingInv
  OBVIOUS
<1>1. MaxUnsent \in Nat /\ leave = [l \in Leaves |-> Departing!Unused] /\ messagesWritten = 0 /\ unsent = 0
      /\ withdrawn = 0 /\ agreed = 0
  BY DEF Departing!LeavingConstants, Departing!LeavingInit
<1>2. Departing!Unused \in LeaveSet /\ Departing!Unused.at = "unused" /\ Departing!Unused.discard = FALSE
  <2>1. 0 \in 0 .. MaxUnsent
    BY <1>1
  <2> QED BY <2>1 DEF Departing!Unused, LeaveSet, Departing!Stages, Departing!Slots
<1>3. /\ instance = TRUE /\ published = TRUE /\ leaveError = FALSE /\ forgot = FALSE /\ lateMessage = FALSE
      /\ guessed = FALSE /\ halted = FALSE /\ overlapped = FALSE /\ slot \in Departing!Slots
  BY DEF Departing!LeavingInit, Departing!Slots
<1>4. LeavingTypes
  <2>1. leave \in [Leaves -> LeaveSet]
    BY <1>1, <1>2
  <2>2. messagesWritten \in 0 .. MaxUnsent /\ unsent \in Nat /\ withdrawn \in Nat /\ agreed \in Nat
        /\ withdrawn + unsent <= messagesWritten
    BY <1>1
  <2>3. /\ instance \in BOOLEAN /\ published \in BOOLEAN /\ leaveError \in BOOLEAN /\ forgot \in BOOLEAN
        /\ lateMessage \in BOOLEAN /\ guessed \in BOOLEAN /\ halted \in BOOLEAN /\ overlapped \in BOOLEAN
    BY <1>3
  <2> QED BY <1>3, <2>1, <2>2, <2>3 DEF LeavingTypes
<1>5. \A l \in Leaves : leave[l].at = "unused" /\ leave[l].discard = FALSE
  BY <1>1, <1>2
<1> QED BY <1>1, <1>3, <1>4, <1>5 DEF LeavingInv, Told, Dropping, StoppedToLeave, OneAtATime, Doing

(* One leave goes on, and the others stay. *)
LEMMA LeaveGoes ==
    ASSUME LeavingTypes, NEW l \in Leaves, NEW n \in LeaveSet, leave' = [leave EXCEPT ![l] = n]
    PROVE  /\ leave' \in [Leaves -> LeaveSet] /\ leave'[l] = n
           /\ \A k \in Leaves \ {l} : leave'[k] = leave[k]
BY DEF LeavingTypes

LEMMA StageMoves ==
    ASSUME Departing!LeavingConstants, LeavingTypes, NEW l \in Leaves, NEW s \in Departing!Stages, Departing!Moves(l, s)
    PROVE  /\ leave' \in [Leaves -> LeaveSet] /\ leave'[l].at = s
           /\ leave'[l].discard = leave[l].discard /\ leave'[l].list = leave[l].list /\ leave'[l].told = leave[l].told
           /\ \A k \in Leaves \ {l} : leave'[k] = leave[k]
<1> DEFINE n == [leave[l] EXCEPT !.at = s]
<1>1. leave[l] \in LeaveSet
  BY DEF LeavingTypes
<1>2. n \in LeaveSet /\ n.at = s /\ n.discard = leave[l].discard /\ n.list = leave[l].list /\ n.told = leave[l].told
  BY <1>1 DEF LeaveSet
<1>3. leave' = [leave EXCEPT ![l] = n]
  BY DEF Departing!Moves
<1> HIDE DEF n
<1> QED BY <1>2, <1>3, LeaveGoes

LEMMA FewerStill ==
    ASSUME NEW x \in Nat, NEW y \in Nat, NEW z \in Nat, NEW d \in Nat, z <= y, x + y <= d PROVE x + z <= d
OBVIOUS

(* The strand meanwhile. *)
LEMMA StrandKeeps ==
    ASSUME Departing!LeavingConstants, LeavingInv, Departing!Saves \/ Departing!Sends \/ UNCHANGED Departing!leavingVars
    PROVE  LeavingInv'
<1>0. /\ messagesWritten \in 0 .. MaxUnsent /\ unsent \in Nat /\ withdrawn \in Nat /\ agreed \in Nat
      /\ withdrawn + unsent <= messagesWritten /\ MaxUnsent \in Nat
      /\ \A l \in Leaves : leave[l].told \in Nat
  BY DEF LeavingInv, LeavingTypes, LeaveSet, Departing!LeavingConstants
<1>1. UNCHANGED <<instance, published, slot, leave, leaveError, withdrawn, agreed, forgot, guessed, halted, overlapped>>
  BY DEF Departing!Saves, Departing!Sends, Departing!leavingVars, Departing!historyVars
<1>2. \/ /\ messagesWritten < MaxUnsent /\ messagesWritten' = messagesWritten + 1 /\ unsent' = unsent + 1
         /\ lateMessage' = (lateMessage \/ \E l \in Leaves : leave[l].at = "asking" \/ leave[l].discard)
      \/ /\ messagesWritten' = messagesWritten /\ lateMessage' = lateMessage
         /\ unsent' = unsent \/ (unsent > 0 /\ unsent' = unsent - 1)
  BY DEF Departing!Saves, Departing!Sends, Departing!leavingVars, Departing!historyVars
<1>3. LeavingTypes'
  <2>1. messagesWritten' \in 0 .. MaxUnsent /\ unsent' \in Nat /\ withdrawn + unsent' <= messagesWritten'
    BY <1>0, <1>2
  <2>2. lateMessage' \in BOOLEAN
    BY <1>2 DEF LeavingInv, LeavingTypes
  <2> QED BY <1>1, <2>1, <2>2 DEF LeavingInv, LeavingTypes
<1>4. Told'
  <2>1. CASE lateMessage' \/ guessed
    BY <1>1, <2>1 DEF LeavingInv, Told, Dropping
  <2>2. CASE ~lateMessage' /\ ~guessed
    <3>1. ~lateMessage /\ (unsent' <= unsent \/ (~Dropping /\ \A l \in Leaves : leave[l].at # "asking")) /\ unsent' \in Nat
      <4>1. CASE /\ messagesWritten' = messagesWritten + 1 /\ unsent' = unsent + 1
                 /\ lateMessage' = (lateMessage \/ \E l \in Leaves : leave[l].at = "asking" \/ leave[l].discard)
        <5>1. ~lateMessage /\ ~Dropping /\ \A l \in Leaves : leave[l].at # "asking"
          BY <2>2, <4>1, Zenon DEF Dropping
        <5>2. unsent' \in Nat
          BY <1>0, <4>1
        <5> QED BY <5>1, <5>2
      <4>2. CASE lateMessage' = lateMessage /\ (unsent' = unsent \/ (unsent > 0 /\ unsent' = unsent - 1))
        BY <1>0, <2>2, <4>2
      <4> QED BY <1>2, <4>1, <4>2
    <3>2. (withdrawn > 0 => Dropping) /\ (Dropping => withdrawn + unsent <= agreed)
          /\ \A l \in Leaves : leave[l].at = "asking" => unsent <= leave[l].told
      BY <2>2, <3>1 DEF LeavingInv, Told
    <3>3. (Dropping => withdrawn + unsent' <= agreed) /\ \A l \in Leaves : leave[l].at = "asking" => unsent' <= leave[l].told
      <4>1. CASE unsent' <= unsent
        <5>1. ASSUME Dropping PROVE withdrawn + unsent' <= agreed
          <6>1. withdrawn + unsent <= agreed
            BY <3>2, <5>1
          <6>2. unsent' \in Nat
            BY <3>1
          <6>3. withdrawn \in Nat /\ unsent \in Nat /\ agreed \in Nat
            BY <1>0
          <6>4. unsent' <= unsent
            BY <4>1
          <6> QED BY <6>1, <6>2, <6>3, <6>4, FewerStill
        <5>2. ASSUME NEW l \in Leaves, leave[l].at = "asking" PROVE unsent' <= leave[l].told
          BY <1>0, <3>1, <3>2, <4>1, <5>2
        <5> QED BY <5>1, <5>2
      <4>2. CASE ~Dropping /\ \A l \in Leaves : leave[l].at # "asking"
        BY <4>2
      <4> QED BY <3>1, <4>1, <4>2
    <3> QED BY <1>1, <3>2, <3>3 DEF Told, Dropping
  <2> QED BY <2>1, <2>2
<1>5. StoppedToLeave' /\ OneAtATime'
  BY <1>1 DEF LeavingInv, StoppedToLeave, OneAtATime, Doing
<1> QED BY <1>3, <1>4, <1>5 DEF LeavingInv

(* A leave of which only the stage moves, and that dropped nothing and stops nothing. *)
LEMMA StepTells ==
    ASSUME LeavingInv, NEW l \in Leaves, leave' \in [Leaves -> LeaveSet],
           leave'[l].discard = leave[l].discard, leave'[l].at # "asking",
           \A k \in Leaves \ {l} : leave'[k] = leave[k],
           UNCHANGED <<messagesWritten, unsent, withdrawn, agreed, lateMessage, guessed>>
    PROVE  Told'
<1>1. \A k \in Leaves : leave'[k].discard = leave[k].discard /\ (leave'[k].at = "asking" => leave'[k] = leave[k])
  OBVIOUS
<1>2. Dropping' <=> Dropping
  BY <1>1 DEF Dropping
<1> QED BY <1>1, <1>2 DEF LeavingInv, Told

(* One leave goes from one stage to another that is not of a leave under way, or stays in one.  *)
LEMMA StepKeepsOne ==
    ASSUME LeavingInv, NEW l \in Leaves,
           \A k \in Leaves \ {l} : leave'[k] = leave[k],
           leave'[l].at \in {"checking", "stopping", "removing", "saving"} =>
               Doing(l) \/ overlapped' \/ \A k \in Leaves : ~Doing(k),
           leave'[l].at \in {"stopping", "removing", "saving"} =>
               \/ leave'[l].list = slot
               \/ leave[l].at \in {"stopping", "removing", "saving"} /\ leave'[l].list = leave[l].list,
           overlapped => overlapped', UNCHANGED <<slot, forgot>>
    PROVE  OneAtATime'
<1>1. CASE overlapped'
  BY <1>1 DEF OneAtATime
<1>2. CASE ~overlapped'
  <2>1. /\ \A k, m \in Leaves : Doing(k) /\ Doing(m) => k = m
        /\ forgot => /\ slot = "absent"
                     /\ \A k \in Leaves : leave[k].at \in {"stopping", "removing", "saving"} => leave[k].list = "absent"
    BY <1>2 DEF LeavingInv, OneAtATime
  <2>2. \A k \in Leaves \ {l} : Doing(k)' <=> Doing(k)
    BY DEF Doing
  <2>3. Doing(l)' => Doing(l) \/ \A k \in Leaves : ~Doing(k)
    BY <1>2 DEF Doing
  <2>4. \A k, m \in Leaves : Doing(k)' /\ Doing(m)' => k = m
    BY <2>1, <2>2, <2>3
  <2>5. forgot' => /\ slot' = "absent"
                   /\ \A k \in Leaves : leave'[k].at \in {"stopping", "removing", "saving"} => leave'[k].list = "absent"
    BY <2>1
  <2> QED BY <2>4, <2>5 DEF OneAtATime
<1> QED BY <1>1, <1>2

(* The dialogs. *)
LEMMA DialogsKeep ==
    ASSUME Departing!LeavingConstants, LeavingInv, NEW l \in Leaves,
           \/ \E keep \in BOOLEAN : Departing!Open(l, keep) \/ Departing!Counted(l, keep)
           \/ Departing!Continue(l) \/ Departing!Confirm(l) \/ Departing!ConfirmDiscard(l) \/ Departing!Cancel(l)
    PROVE  LeavingInv'
<1>0. /\ LeavingTypes /\ leave[l] \in LeaveSet /\ unsent \in 0 .. MaxUnsent /\ 1 \in 0 .. MaxUnsent /\ agreed \in Nat
      /\ leave[l].told \in Nat /\ withdrawn \in Nat
  BY DEF LeavingInv, LeavingTypes, LeaveSet, Departing!LeavingConstants
<1>1. UNCHANGED <<messagesWritten, unsent, instance, published, slot, leaveError, withdrawn, forgot, lateMessage, halted>>
  BY DEF Departing!Open, Departing!Counted, Departing!Continue, Departing!Confirm, Departing!ConfirmDiscard, Departing!Cancel,
         Departing!strandVars, Departing!historyVars
<1>2. CASE (\E keep \in BOOLEAN : Departing!Open(l, keep)) \/ Departing!Continue(l) \/ Departing!Confirm(l) \/ Departing!Cancel(l)
  <2>1. /\ leave' \in [Leaves -> LeaveSet] /\ leave'[l].discard = leave[l].discard
        /\ leave'[l].at \in {"shown", "sure", "checking", "closed"}
        /\ \A k \in Leaves \ {l} : leave'[k] = leave[k]
        /\ leave[l].at \in {"unused", "shown", "sure", "asking"}
        /\ (leave'[l].at = "checking" => overlapped' \/ \A k \in Leaves : ~Doing(k))
        /\ overlapped => overlapped'
        /\ overlapped' \in BOOLEAN /\ UNCHANGED <<agreed, guessed>>
    <3>1. ASSUME NEW keep \in BOOLEAN, Departing!Open(l, keep) PROVE <2>1!:
      <4> DEFINE n == [leave[l] EXCEPT !.at = "shown", !.keep = keep]
      <4>1. n \in LeaveSet /\ n.at = "shown" /\ n.discard = leave[l].discard
        BY <1>0 DEF LeaveSet, Departing!Stages
      <4>2. leave' = [leave EXCEPT ![l] = n] /\ leave[l].at = "unused" /\ UNCHANGED <<agreed, guessed, overlapped>>
        BY <3>1 DEF Departing!Open, Departing!historyVars
      <4> HIDE DEF n
      <4> QED BY <1>0, <4>1, <4>2, LeaveGoes DEF LeavingTypes
    <3>2. CASE Departing!Continue(l)
      <4>1. Departing!Moves(l, "sure") /\ leave[l].at = "shown" /\ UNCHANGED <<agreed, guessed, overlapped>> /\ "sure" \in Departing!Stages
        BY <3>2 DEF Departing!Continue, Departing!historyVars, Departing!Stages
      <4> QED BY <1>0, <4>1, StageMoves DEF LeavingTypes
    <3>3. CASE Departing!Cancel(l)
      <4>1. Departing!Moves(l, "closed") /\ leave[l].at \in {"shown", "sure", "asking"} /\ UNCHANGED <<agreed, guessed, overlapped>>
            /\ "closed" \in Departing!Stages
        BY <3>3 DEF Departing!Cancel, Departing!historyVars, Departing!Stages
      <4> QED BY <1>0, <4>1, StageMoves DEF LeavingTypes
    <3>4. CASE Departing!Confirm(l)
      <4>1. Departing!Moves(l, "checking") /\ leave[l].at \in {"shown", "sure"} /\ UNCHANGED <<agreed, guessed>>
            /\ "checking" \in Departing!Stages /\ overlapped' = (overlapped \/ Departing!UnderWay # {})
        BY <3>4 DEF Departing!Confirm, Departing!Stages
      <4>2. Departing!UnderWay # {} \/ \A k \in Leaves : ~Doing(k)
        BY DEF Departing!UnderWay, Doing
      <4> QED BY <1>0, <4>1, <4>2, StageMoves DEF LeavingTypes
    <3> QED BY <1>2, <3>1, <3>2, <3>3, <3>4
  <2>2. LeavingTypes'
    BY <1>1, <2>1 DEF LeavingInv, LeavingTypes
  <2>3. Told'
    BY <1>1, <2>1, StepTells
  <2>4. StoppedToLeave'
    BY <1>1, <2>1 DEF LeavingInv, StoppedToLeave
  <2>5. OneAtATime'
    BY <1>1, <2>1, StepKeepsOne
  <2> QED BY <2>2, <2>3, <2>4, <2>5 DEF LeavingInv
<1>3. ASSUME NEW known \in BOOLEAN, Departing!Counted(l, known) PROVE LeavingInv'
  <2> DEFINE t == IF known THEN unsent ELSE 1
             n == [leave[l] EXCEPT !.at = "asking", !.told = t]
  <2>0. t \in 0 .. MaxUnsent /\ (known => t = unsent)
    BY <1>0
  <2>1. leave' = [leave EXCEPT ![l] = n] /\ leave[l].at = "counting" /\ UNCHANGED <<agreed, overlapped>>
        /\ guessed' = (guessed \/ ~known)
    BY <1>3 DEF Departing!Counted
  <2> HIDE DEF t
  <2>2. n \in LeaveSet /\ n.at = "asking" /\ n.told = t /\ n.discard = leave[l].discard
    BY <1>0, <2>0 DEF LeaveSet, Departing!Stages
  <2> HIDE DEF n
  <2>3. /\ leave' \in [Leaves -> LeaveSet] /\ leave'[l].at = "asking" /\ leave'[l].told = t
        /\ leave'[l].discard = leave[l].discard /\ \A k \in Leaves \ {l} : leave'[k] = leave[k]
    BY <1>0, <2>1, <2>2, LeaveGoes
  <2>4. LeavingTypes'
    BY <1>1, <2>1, <2>3 DEF LeavingInv, LeavingTypes
  <2>5. Told'
    <3>1. Dropping' <=> Dropping
      BY <2>3 DEF Dropping
    <3>2. CASE lateMessage \/ guessed'
      BY <1>1, <2>1, <3>1, <3>2 DEF LeavingInv, Told
    <3>3. CASE ~lateMessage /\ ~guessed'
      <4>1. known /\ ~guessed /\ unsent <= t
        <5>1. known /\ ~guessed
          BY <2>1, <3>3
        <5> QED BY <1>0, <2>0, <5>1
      <4>2. \A k \in Leaves : leave'[k].at = "asking" => unsent <= leave'[k].told
        BY <2>3, <3>3, <4>1 DEF LeavingInv, Told
      <4> QED BY <1>1, <2>1, <3>1, <3>3, <4>1, <4>2 DEF LeavingInv, Told
    <3> QED BY <3>2, <3>3
  <2>6. StoppedToLeave'
    BY <1>1, <2>1, <2>3 DEF LeavingInv, StoppedToLeave
  <2>7. OneAtATime'
    BY <1>1, <2>1, <2>3, StepKeepsOne
  <2> QED BY <2>4, <2>5, <2>6, <2>7 DEF LeavingInv
<1>4. CASE Departing!ConfirmDiscard(l)
  <2> DEFINE n == [leave[l] EXCEPT !.at = "checking", !.discard = TRUE]
  <2>1. leave' = [leave EXCEPT ![l] = n] /\ leave[l].at = "asking" /\ guessed' = guessed
        /\ overlapped' = (overlapped \/ Departing!UnderWay # {})
        /\ agreed' = IF leave[l].told > agreed THEN leave[l].told ELSE agreed
    BY <1>4 DEF Departing!ConfirmDiscard
  <2>2. n \in LeaveSet /\ n.at = "checking" /\ n.discard = TRUE
    BY <1>0 DEF LeaveSet, Departing!Stages
  <2> HIDE DEF n
  <2>3. /\ leave' \in [Leaves -> LeaveSet] /\ leave'[l].at = "checking"
        /\ leave'[l].discard = TRUE /\ \A k \in Leaves \ {l} : leave'[k] = leave[k]
    BY <1>0, <2>1, <2>2, LeaveGoes
  <2>4. agreed' \in Nat /\ agreed' >= agreed /\ agreed' >= leave[l].told
    BY <1>0, <2>1
  <2>5. LeavingTypes'
    <3>1. overlapped' \in BOOLEAN
      BY <2>1
    <3> QED BY <1>1, <2>1, <2>3, <2>4, <3>1 DEF LeavingInv, LeavingTypes
  <2>6. Told'
    <3>1. Dropping'
      BY <2>3 DEF Dropping
    <3>2. CASE lateMessage \/ guessed
      BY <1>1, <2>1, <3>1, <3>2 DEF LeavingInv, Told
    <3>3. CASE ~lateMessage /\ ~guessed
      <4>1. withdrawn + unsent <= agreed'
        <5>1. CASE Dropping
          BY <1>0, <2>4, <3>3, <5>1 DEF LeavingInv, Told
        <5>2. CASE ~Dropping
          <6>1. withdrawn = 0 /\ unsent <= leave[l].told
            BY <1>0, <2>1, <3>3, <5>2 DEF LeavingInv, Told
          <6> QED BY <1>0, <2>4, <6>1
        <5> QED BY <5>1, <5>2
      <4>2. \A k \in Leaves : leave'[k].at = "asking" => unsent <= leave'[k].told
        BY <2>3, <3>3 DEF LeavingInv, Told
      <4> QED BY <1>1, <2>1, <3>1, <4>1, <4>2 DEF Told
    <3> QED BY <3>2, <3>3
  <2>7. StoppedToLeave'
    BY <1>1, <2>1, <2>3 DEF LeavingInv, StoppedToLeave
  <2>8. OneAtATime'
    <3>1. overlapped' \/ \A k \in Leaves : ~Doing(k)
      BY <2>1 DEF Departing!UnderWay, Doing
    <3> QED BY <1>1, <2>1, <2>3, <3>1, StepKeepsOne
  <2> QED BY <2>5, <2>6, <2>7, <2>8 DEF LeavingInv
<1> QED BY <1>2, <1>3, <1>4

(* A leave goes on. *)
LEMMA LeavesKeep ==
    ASSUME Departing!LeavingConstants, LeavingInv, NEW l \in Leaves,
           \/ \E stopped \in BOOLEAN : Departing!Stop(l, stopped)
           \/ Departing!Check(l) \/ Departing!Refuse(l) \/ Departing!Fails(l) \/ Departing!Remove(l) \/ Departing!Save(l)
    PROVE  LeavingInv'
<1>0. /\ LeavingTypes /\ leave[l] \in LeaveSet /\ unsent \in Nat /\ withdrawn \in Nat /\ slot \in Departing!Slots
      /\ messagesWritten \in Nat /\ agreed \in Nat
  BY DEF LeavingInv, LeavingTypes, LeaveSet, Departing!LeavingConstants
<1>1. {"stopping", "removing", "saving", "counting", "left", "closed"} \subseteq Departing!Stages
  BY DEF Departing!Stages
<1>2. CASE Departing!Check(l)
  <2>1. /\ leave' \in [Leaves -> LeaveSet] /\ leave'[l].discard = leave[l].discard
        /\ leave'[l].at = "counting" \/ (leave'[l].at \in {"stopping", "removing"} /\ leave'[l].list = slot)
        /\ \A k \in Leaves \ {l} : leave'[k] = leave[k]
    <3>1. CASE Departing!Moves(l, "counting")
      BY <1>0, <1>1, <3>1, StageMoves
    <3>2. CASE ~Departing!Moves(l, "counting")
      <4> DEFINE s == IF slot = "absent" THEN "stopping" ELSE "removing"
                 n == [leave[l] EXCEPT !.list = slot, !.at = s]
      <4>0. s \in {"stopping", "removing"} /\ s \in Departing!Stages
        BY <1>1
      <4>1. leave' = [leave EXCEPT ![l] = n]
        BY <1>2, <3>2 DEF Departing!Check
      <4> HIDE DEF s
      <4>2. n \in LeaveSet /\ n.at = s /\ n.list = slot /\ n.discard = leave[l].discard
        BY <1>0, <4>0 DEF LeaveSet
      <4> HIDE DEF n
      <4> QED BY <1>0, <4>0, <4>1, <4>2, LeaveGoes
    <3> QED BY <3>1, <3>2
  <2>2. /\ UNCHANGED <<messagesWritten, unsent, instance, published, slot, leaveError, withdrawn, forgot, lateMessage, halted,
                       agreed, guessed, overlapped>>
        /\ leave[l].at = "checking"
    BY <1>2 DEF Departing!Check, Departing!strandVars, Departing!historyVars
  <2>3. LeavingTypes'
    BY <2>1, <2>2 DEF LeavingInv, LeavingTypes
  <2>4. Told'
    BY <2>1, <2>2, StepTells
  <2>5. StoppedToLeave'
    BY <2>1, <2>2 DEF LeavingInv, StoppedToLeave
  <2>6. OneAtATime'
    BY <2>1, <2>2, StepKeepsOne DEF Doing
  <2> QED BY <2>3, <2>4, <2>5, <2>6 DEF LeavingInv
<1>3. ASSUME NEW stopped \in BOOLEAN, Departing!Stop(l, stopped) PROVE LeavingInv'
  <2>1. /\ leave[l].at = "stopping" /\ Departing!Moves(l, "removing") /\ instance' = (instance /\ ~stopped)
        /\ UNCHANGED <<messagesWritten, unsent, published, slot, leaveError, withdrawn, forgot, lateMessage, halted,
                       agreed, guessed, overlapped>>
    BY <1>3 DEF Departing!Stop, Departing!historyVars
  <2>2. /\ leave' \in [Leaves -> LeaveSet] /\ leave'[l].at = "removing" /\ leave'[l].discard = leave[l].discard
        /\ leave'[l].list = leave[l].list /\ \A k \in Leaves \ {l} : leave'[k] = leave[k]
    BY <1>0, <1>1, <2>1, StageMoves
  <2>3. LeavingTypes'
    <3>1. instance' \in BOOLEAN
      BY <2>1
    <3> QED BY <2>1, <2>2, <3>1 DEF LeavingInv, LeavingTypes
  <2>4. Told'
    BY <2>1, <2>2, StepTells
  <2>5. StoppedToLeave'
    BY <2>2 DEF StoppedToLeave
  <2>6. OneAtATime'
    BY <2>1, <2>2, StepKeepsOne DEF Doing
  <2> QED BY <2>3, <2>4, <2>5, <2>6 DEF LeavingInv
<1>4. CASE Departing!Refuse(l) \/ Departing!Fails(l)
  <2>1. /\ leave[l].at \in {"checking", "removing", "saving"}
        /\ Departing!Moves(l, "counting") \/ Departing!Moves(l, "closed")
        /\ UNCHANGED <<messagesWritten, unsent, instance, published, slot, withdrawn, forgot, lateMessage,
                       agreed, guessed, overlapped>>
        /\ leaveError \/ halted => leaveError' \/ halted'
        /\ instance \/ leaveError' \/ halted'
        /\ leaveError' \in BOOLEAN /\ halted' \in BOOLEAN
    <3>1. CASE Departing!Refuse(l)
      BY <1>0, <3>1 DEF Departing!Refuse, Departing!strandVars, LeavingTypes
    <3>2. CASE Departing!Fails(l)
      BY <1>0, <3>2 DEF Departing!Fails, Departing!strandVars, Departing!historyVars, LeavingTypes
    <3> QED BY <1>4, <3>1, <3>2
  <2>2. /\ leave' \in [Leaves -> LeaveSet] /\ leave'[l].at \in {"counting", "closed"} /\ leave'[l].discard = leave[l].discard
        /\ \A k \in Leaves \ {l} : leave'[k] = leave[k]
    BY <1>0, <1>1, <2>1, StageMoves
  <2>3. LeavingTypes'
    BY <2>1, <2>2 DEF LeavingInv, LeavingTypes
  <2>4. Told'
    BY <2>1, <2>2, StepTells
  <2>5. StoppedToLeave'
    BY <2>1 DEF StoppedToLeave
  <2>6. OneAtATime'
    BY <2>1, <2>2, StepKeepsOne
  <2> QED BY <2>3, <2>4, <2>5, <2>6 DEF LeavingInv
<1>5. CASE Departing!Remove(l)
  <2>1. /\ leave[l].at = "removing" /\ Departing!Moves(l, "saving") /\ (unsent = 0 \/ leave[l].discard)
        /\ withdrawn' = withdrawn + unsent /\ unsent' = 0 /\ published' = FALSE
        /\ instance' = (instance /\ leave[l].list = "absent")
        /\ UNCHANGED <<messagesWritten, slot, leaveError, forgot, lateMessage, halted, agreed, guessed, overlapped>>
    BY <1>5 DEF Departing!Remove
  <2>2. /\ leave' \in [Leaves -> LeaveSet] /\ leave'[l].at = "saving" /\ leave'[l].discard = leave[l].discard
        /\ leave'[l].list = leave[l].list /\ \A k \in Leaves \ {l} : leave'[k] = leave[k]
    BY <1>0, <1>1, <2>1, StageMoves
  <2>3. LeavingTypes'
    <3>1. instance' \in BOOLEAN /\ published' \in BOOLEAN
      BY <2>1
    <3>2. unsent' \in Nat /\ withdrawn' \in Nat /\ withdrawn' + unsent' <= messagesWritten'
      BY <1>0, <2>1 DEF LeavingTypes
    <3> QED BY <2>1, <2>2, <3>1, <3>2 DEF LeavingInv, LeavingTypes
  <2>4. Told'
    <3>1. Dropping' <=> Dropping
      BY <2>2 DEF Dropping
    <3>2. withdrawn' > 0 => Dropping
      BY <1>0, <2>1 DEF LeavingInv, Told, Dropping
    <3>3. withdrawn' + unsent' = withdrawn + unsent
      BY <1>0, <2>1
    <3>4. \A k \in Leaves : leave'[k].told \in Nat
      BY <2>2 DEF LeaveSet
    <3>5. \A k \in Leaves : unsent' <= leave'[k].told
      BY <2>1, <3>4
    <3> QED BY <2>1, <3>1, <3>2, <3>3, <3>5 DEF LeavingInv, Told
  <2>5. StoppedToLeave'
    BY <2>1 DEF StoppedToLeave
  <2>6. OneAtATime'
    BY <2>1, <2>2, StepKeepsOne DEF Doing
  <2> QED BY <2>3, <2>4, <2>5, <2>6 DEF LeavingInv
<1>6. CASE Departing!Save(l)
  <2>1. /\ leave[l].at = "saving" /\ Departing!Moves(l, "left")
        /\ slot' = IF leave[l].list # "absent" /\ leave[l].keep THEN "left" ELSE "absent"
        /\ forgot' = (forgot \/ ~leave[l].keep)
        /\ UNCHANGED <<messagesWritten, unsent, instance, published, leaveError, withdrawn, lateMessage, halted, agreed, guessed, overlapped>>
    BY <1>6 DEF Departing!Save
  <2>2. /\ leave' \in [Leaves -> LeaveSet] /\ leave'[l].at = "left" /\ leave'[l].discard = leave[l].discard
        /\ \A k \in Leaves \ {l} : leave'[k] = leave[k]
    BY <1>0, <1>1, <2>1, StageMoves
  <2>3. LeavingTypes'
    <3>1. slot' \in Departing!Slots /\ forgot' \in BOOLEAN
      BY <2>1 DEF Departing!Slots
    <3> QED BY <2>1, <2>2, <3>1 DEF LeavingInv, LeavingTypes
  <2>4. Told'
    BY <2>1, <2>2, StepTells
  <2>5. StoppedToLeave'
    BY <2>1, <2>2 DEF LeavingInv, StoppedToLeave
  <2>6. OneAtATime'
    <3>1. CASE overlapped
      BY <2>1, <3>1 DEF OneAtATime
    <3>2. CASE ~overlapped
      <4>1. \A k \in Leaves \ {l} : ~Doing(k)
        BY <2>1, <3>2 DEF LeavingInv, OneAtATime, Doing
      <4>2. \A k \in Leaves : ~Doing(k)'
        BY <2>2, <4>1 DEF Doing
      <4>3. forgot' => slot' = "absent"
        BY <2>1, <3>2 DEF LeavingInv, OneAtATime
      <4> QED BY <4>2, <4>3 DEF OneAtATime, Doing
    <3> QED BY <3>1, <3>2
  <2> QED BY <2>3, <2>4, <2>5, <2>6 DEF LeavingInv
<1> QED BY <1>2, <1>3, <1>4, <1>5, <1>6

LEMMA LeavingStep ==
    Departing!LeavingConstants /\ LeavingInv /\ [Departing!LeavingNext]_(Departing!leavingVars) => LeavingInv'
BY StrandKeeps, DialogsKeep, LeavesKeep, Zenon DEF Departing!LeavingNext

LEMMA LeavingHoldsAlone ==
    ASSUME Departing!LeavingConstants
    PROVE  Departing!LeavingInit /\ [][Departing!LeavingNext]_(Departing!leavingVars) =>
              []Departing!LeavingIsAsked
BY LeavingInitInv, LeavingStep, LeavingHonest, PTL

-----------------------------------------------------------------------------
(***************************************************************************)
(* The types that the invariants above do not hold: the bounds on what a   *)
(* part counts, and what its histories are.                                *)
(***************************************************************************)
StoreRest == appliedOn \in Nat /\ begun \in 0 .. MaxUses /\ hasSchema \subseteq Nat

LEMMA StoreTypesHold == ASSUME StoreConstants PROVE StoreSpec /\ [](node \in Nat) => []StoreTypeOK
<1>1. StoreInit => StoreInv /\ StoreRest
  BY DEF StoreConstants, StoreInit, NotInUse, StoreInv, UsesAreRecords, AppliedHasSchema, WaitersAwait,
         SchemaBeforeUse, StoreRest
<1>2. StoreInv /\ StoreRest /\ [StoreNext \/ StoreDies]_storeVars => StoreRest'
  <2> SUFFICES ASSUME StoreInv, StoreRest, [StoreNext \/ StoreDies]_storeVars PROVE StoreRest'
    OBVIOUS
  <2>1. applying \in Nat
    BY DEF StoreInv
  <2>2. CASE Applied
    BY <2>1, <2>2 DEF Applied, StoreRest
  <2>3. ASSUME NEW u \in Users, Begin(u) PROVE StoreRest'
    BY <2>3 DEF Begin, StoreRest, StoreConstants
  <2>4. CASE \E u \in Users : Started(u) \/ Use(u)
    BY <2>4 DEF Started, Use, StoreRest
  <2>5. CASE ApplyFails
    BY <2>5 DEF ApplyFails, StoreRest
  <2>6. CASE StoreDies
    BY <2>6 DEF StoreDies, StoreRest
  <2>7. CASE UNCHANGED storeVars
    BY <2>7 DEF storeVars, StoreRest
  <2> QED BY <2>2, <2>3, <2>4, <2>5, <2>6, <2>7 DEF StoreNext
<1>3. StoreInv /\ StoreRest => StoreTypeOK
  BY DEF StoreInv, UsesAreRecords, StoreRest, StoreTypeOK
<1> QED BY <1>1, <1>2, <1>3, StoreNextInv, PTL DEF StoreSpec

SettingsRest ==
    /\ Len(setCalls) \in 0 .. MaxSetsAtOnce /\ sets \in 0 .. MaxSets
    /\ overwritten \in BOOLEAN /\ crossed \in BOOLEAN /\ refused \in BOOLEAN

LEMMA OneFewer ==
    ASSUME NEW S, NEW seq \in Seq(S), NEW i \in DOMAIN seq
    PROVE  Len(Choices!Without(seq, i)) = Len(seq) - 1
<1>1. i \in 1 .. Len(seq) /\ Len(seq) \in Nat
  OBVIOUS
<1>2. /\ SubSeq(seq, 1, i - 1) \in Seq(S) /\ Len(SubSeq(seq, 1, i - 1)) = i - 1
      /\ SubSeq(seq, i + 1, Len(seq)) \in Seq(S) /\ Len(SubSeq(seq, i + 1, Len(seq))) = Len(seq) - i
  BY <1>1, SubSeqProperties
<1>3. Choices!Without(seq, i) = SubSeq(seq, 1, i - 1) \o SubSeq(seq, i + 1, Len(seq))
  BY DEF Choices!Without
<1>4. Len(Choices!Without(seq, i)) = (i - 1) + (Len(seq) - i)
  BY <1>2, <1>3, ConcatProperties
<1> QED BY <1>1, <1>4

LEMMA SettingsTypesHold ==
    ASSUME Choices!AppSettingsConstants
    PROVE  Choices!AppSettingsInit /\ [][Choices!AppSettingsNext]_settingsVars => []Choices!AppSettingsTypeOK
<1>1. Choices!AppSettingsInit => SettingsRest
  <2> SUFFICES ASSUME Choices!AppSettingsInit PROVE SettingsRest
    OBVIOUS
  <2>1. setCalls = <<>> /\ sets = 0 /\ overwritten = FALSE /\ crossed = FALSE /\ refused = FALSE
    BY DEF Choices!AppSettingsInit
  <2>2. MaxSetsAtOnce \in Nat /\ MaxSets \in Nat
    BY DEF Choices!AppSettingsConstants
  <2>3. Len(setCalls) \in 0 .. MaxSetsAtOnce /\ sets \in 0 .. MaxSets
    BY <2>1, <2>2
  <2>4. overwritten \in BOOLEAN /\ crossed \in BOOLEAN /\ refused \in BOOLEAN
    BY <2>1, Zenon
  <2> QED BY <2>3, <2>4 DEF SettingsRest
<1>2. ChoicesInv /\ SettingsRest /\ [Choices!AppSettingsNext]_settingsVars => SettingsRest'
  <2> SUFFICES ASSUME ChoicesInv, SettingsRest, [Choices!AppSettingsNext]_settingsVars PROVE SettingsRest'
    OBVIOUS
  <2>0. setCalls \in Seq(OneKind) /\ MaxSetsAtOnce \in Nat /\ MaxSets \in Nat
    BY DEF ChoicesInv, Choices!AppSettingsConstants
  <2>1. ASSUME NEW patch, Choices!Calls(patch), UNCHANGED <<overwritten, crossed, refused>> PROVE SettingsRest'
    <3>1. /\ sets < MaxSets /\ sets' = sets + 1 /\ Len(setCalls) < MaxSetsAtOnce
          /\ setCalls' = Append(setCalls, [patch |-> patch, at |-> "reading", copy |-> prefs])
      BY <2>1 DEF Choices!Calls
    <3>2. Len(setCalls') = Len(setCalls) + 1
      BY <2>0, <3>1
    <3> QED BY <2>0, <2>1, <3>1, <3>2 DEF SettingsRest
  <2>2. ASSUME UNCHANGED <<setCalls, sets, overwritten, crossed, refused>> PROVE SettingsRest'
    BY <2>2 DEF SettingsRest
  <2>3. ASSUME NEW f \in Fields, NEW value \in BOOLEAN, Choices!Patch(f, value) PROVE SettingsRest'
    BY <2>1, <2>3 DEF Choices!Patch, Choices!prefVars, Choices!relayVars
  <2>4. ASSUME NEW r \in Offered, Choices!AcceptSets(r) \/ Choices!Drop(r) PROVE SettingsRest'
    BY <2>1, <2>4 DEF Choices!AcceptSets, Choices!Drop, Choices!prefVars, Choices!relayVars
  <2>5. ASSUME NEW r \in Offered,
               Choices!OpenOffer(r) \/ Choices!Decline(r) \/ Choices!Accept(r) \/ Choices!AcceptReads(r)
        PROVE  SettingsRest'
    BY <2>2, <2>5
    DEF Choices!OpenOffer, Choices!Decline, Choices!Accept, Choices!AcceptReads, Choices!prefVars, Choices!relayVars
  <2>6. CASE Choices!ListReads
    BY <2>2, <2>6 DEF Choices!ListReads, Choices!prefVars
  <2>7. ASSUME NEW i \in DOMAIN setCalls, Choices!SetReads(i) PROVE SettingsRest'
    <3>1. Len(setCalls') = Len(setCalls)
      BY <2>0, <2>7 DEF Choices!SetReads
    <3> QED BY <2>7, <3>1 DEF Choices!SetReads, SettingsRest, Choices!prefVars, Choices!relayVars
  <2>8. ASSUME NEW i \in DOMAIN setCalls, Choices!SetSaves(i) \/ Choices!SetFails(i) PROVE SettingsRest'
    <3>1. setCalls' = Choices!Without(setCalls, i) /\ sets' = sets
      BY <2>8 DEF Choices!SetSaves, Choices!SetFails
    <3>2. Len(setCalls') \in 0 .. MaxSetsAtOnce
      <4>1. Len(setCalls') = Len(setCalls) - 1 /\ Len(setCalls) \in Nat /\ i \in 1 .. Len(setCalls)
        BY <2>0, <3>1, OneFewer
      <4> QED BY <2>0, <4>1 DEF SettingsRest
    <3>3. overwritten' \in BOOLEAN /\ crossed' \in BOOLEAN /\ refused' \in BOOLEAN
      <4>1. CASE Choices!SetFails(i)
        BY <4>1 DEF Choices!SetFails, SettingsRest, Choices!prefVars, Choices!relayVars
      <4>2. CASE Choices!SetSaves(i)
        <5>1. /\ overwritten' = (overwritten \/ setCalls[i].copy # prefs) /\ refused' = refused
              /\ Choices!Applies(setCalls[i].patch)
          BY <4>2 DEF Choices!SetSaves
        <5>2. crossed' = crossed \/ crossed' = (crossed \/ setCalls[i].patch.base # Choices!RelaysUsed)
          BY <5>1, Zenon DEF Choices!Applies
        <5> QED BY <5>1, <5>2, Zenon DEF SettingsRest
      <4> QED BY <2>8, <4>1, <4>2
    <3> QED BY <3>1, <3>2, <3>3 DEF SettingsRest
  <2>9. ASSUME NEW rebuilt \in BOOLEAN, Choices!Applied(rebuilt) PROVE SettingsRest'
    BY <2>9 DEF Choices!Applied, SettingsRest, Choices!prefVars
  <2>10. CASE UNCHANGED settingsVars
    BY <2>2, <2>10 DEF settingsVars
  <2> QED BY <2>3, <2>4, <2>5, <2>6, <2>7, <2>8, <2>9, <2>10 DEF Choices!AppSettingsNext
<1>3. ChoicesInv /\ SettingsRest => Choices!AppSettingsTypeOK
  <2> SUFFICES ASSUME ChoicesInv, SettingsRest PROVE Choices!AppSettingsTypeOK
    OBVIOUS
  <2>1. setCalls \in Seq(AskedSets)
    BY DEF ChoicesInv, OneKind
  <2> QED BY <2>1 DEF ChoicesInv, SettingsRest, Choices!AppSettingsTypeOK, AskedSets, Choices!AppSettingsConstants
<1> QED BY <1>1, <1>2, <1>3, SettingsInitInv, SettingsStepKeeps, PTL

CommandRest ==
    /\ relayChanges \in 0 .. MaxRelays /\ (adding # Adding!NotAdding => relayChanges < MaxRelays)
    /\ removedRelay \in [address : Adding!Addresses, printed : Adding!Addresses]

ConfigRest == behind \subseteq Runs /\ outrun \in BOOLEAN

LEMMA CommandRestStays ==
    Adding!RelayingConstants /\ CommandInv /\ CommandRest /\ [Adding!CommandNext]_relayCommandVars => CommandRest'
<1> SUFFICES ASSUME Adding!RelayingConstants, CommandInv, CommandRest, [Adding!CommandNext]_relayCommandVars
             PROVE CommandRest'
  OBVIOUS
<1>0. MaxRelays \in Nat /\ savedRelays \in Seq(Adding!Addresses) /\ printedRelays \in Seq(Adding!Addresses)
  BY DEF Adding!RelayingConstants, CommandInv
<1>1. ASSUME NEW way \in Adding!Forms, NEW host \in RelayHosts, NEW peer \in Peers, Adding!Add(way, host, peer)
      PROVE  CommandRest'
  BY <1>1 DEF Adding!Add, CommandRest
<1>2. CASE Adding!Published \/ Adding!NotPublished \/ Adding!Learned
  <2>0. Adding!NotAdding.pc = "idle"
    BY DEF Adding!NotAdding
  <2>1. adding # Adding!NotAdding /\ UNCHANGED <<relayChanges, removedRelay>>
    <3>1. adding.pc \in {"lookup", "dial"} /\ UNCHANGED <<relayChanges, removedRelay>>
      BY <1>2 DEF Adding!Published, Adding!NotPublished, Adding!Learned
    <3> QED BY <2>0, <3>1
  <2> QED BY <2>1 DEF CommandRest
<1>3. CASE Adding!Added
  <2>1. adding # Adding!NotAdding /\ adding' = Adding!NotAdding /\ removedRelay' = removedRelay
    BY <1>3 DEF Adding!Added, Adding!NotAdding
  <2>2. relayChanges' = relayChanges \/ relayChanges' = relayChanges + 1
    BY <1>3 DEF Adding!Added, Adding!Apply, CommandRest
  <2> QED BY <1>0, <2>1, <2>2 DEF CommandRest
<1>4. CASE Adding!List
  BY <1>4 DEF Adding!List, Adding!Apply, CommandRest
<1>5. ASSUME NEW address, Adding!Drop(address)
      PROVE  relayChanges' \in 0 .. MaxRelays /\ adding' = Adding!NotAdding
  <2>1. relayChanges < MaxRelays /\ adding' = Adding!NotAdding
        /\ (relayChanges' = relayChanges \/ relayChanges' = relayChanges + 1)
    BY <1>5 DEF Adding!Drop, Adding!Apply, CommandRest
  <2> QED BY <1>0, <2>1 DEF CommandRest
<1>6. ASSUME NEW row, Adding!RemoveRow(row) PROVE CommandRest'
  <2>1. /\ row \in DOMAIN savedRelays /\ Adding!Drop(savedRelays[row])
        /\ removedRelay' = IF row \in DOMAIN printedRelays
                           THEN [address |-> savedRelays[row], printed |-> printedRelays[row]] ELSE removedRelay
    BY <1>6 DEF Adding!RemoveRow
  <2>2. savedRelays[row] \in Adding!Addresses
    BY <1>0, <2>1
  <2>3. row \in DOMAIN printedRelays => printedRelays[row] \in Adding!Addresses
    BY <1>0
  <2> QED BY <1>5, <2>1, <2>2, <2>3 DEF CommandRest
<1>7. ASSUME NEW address, Adding!RemoveAddress(address) PROVE CommandRest'
  BY <1>5, <1>7 DEF Adding!RemoveAddress, CommandRest
<1>8. CASE UNCHANGED relayCommandVars
  BY <1>8 DEF relayCommandVars, CommandRest
<1> QED BY <1>1, <1>2, <1>3, <1>4, <1>6, <1>7, <1>8 DEF Adding!CommandNext

LEMMA ConfigRestStays == ConfigRest /\ [Adding!ConfigNext]_configVars => ConfigRest'
<1> SUFFICES ASSUME ConfigRest, [Adding!ConfigNext]_configVars PROVE ConfigRest'
  OBVIOUS
<1>1. ASSUME NEW p \in Runs,
             \/ Adding!openProfile(p) \/ Adding!Created(p) \/ Adding!Locks(p) \/ Adding!Listens(p)
             \/ Adding!Relayed(p) \/ Adding!Ends(p)
      PROVE  ConfigRest'
  <2>1. ASSUME NEW config, Adding!Saves(p, config) PROVE ConfigRest'
    BY <1>1, <2>1 DEF Adding!Saves, Adding!Live, ConfigRest
  <2>2. CASE Adding!openProfile(p) \/ Adding!Locks(p) \/ Adding!Ends(p)
    BY <2>2 DEF Adding!openProfile, Adding!Locks, Adding!Ends, ConfigRest
  <2> QED BY <1>1, <2>1, <2>2 DEF Adding!Created, Adding!Listens, Adding!Relayed, Adding!Reconfigures
<1>2. CASE UNCHANGED configVars
  BY <1>2 DEF configVars, ConfigRest
<1> QED BY <1>1, <1>2 DEF Adding!ConfigNext

LEMMA RelayingTypesHold ==
    ASSUME Adding!RelayingConstants
    PROVE  Adding!RelayingInit /\ [][Adding!CommandNext]_relayCommandVars /\ [][Adding!ConfigNext]_configVars
               => []Adding!RelayingTypeOK
<1>1. Adding!RelayingInit => CommandRest /\ ConfigRest
  <2> SUFFICES ASSUME Adding!RelayingInit PROVE CommandRest /\ ConfigRest
    OBVIOUS
  <2>1. /\ adding = Adding!NotAdding /\ relayChanges = 0 /\ removedRelay = Adding!NotRemoved /\ behind = {}
        /\ outrun = FALSE
    BY DEF Adding!RelayingInit
  <2>2. Adding!NotRemoved \in [address : Adding!Addresses, printed : Adding!Addresses] /\ MaxRelays \in Nat
    BY DEF Adding!NotRemoved, Adding!RelayingConstants
  <2>3. outrun \in BOOLEAN /\ behind \subseteq Runs
    BY <2>1, Zenon
  <2>4. CommandRest
    BY <2>1, <2>2 DEF CommandRest
  <2> QED BY <2>3, <2>4 DEF ConfigRest
<1>2. CommandInv /\ [Adding!CommandNext]_relayCommandVars => CommandInv'
  BY CommandStepKeeps
<1>3. ConfigInv /\ [Adding!ConfigNext]_configVars => ConfigInv'
  BY ConfigStepKeeps
<1>4. Adding!RelayingInit => CommandInv /\ ConfigInv
  BY CommandInitInv, ConfigInitInv
<1>5. CommandInv /\ CommandRest /\ [Adding!CommandNext]_relayCommandVars => CommandRest'
  BY CommandRestStays
<1>6. CommandInv /\ CommandRest /\ ConfigInv /\ ConfigRest => Adding!RelayingTypeOK
  BY DEF CommandInv, CommandRest, ConfigInv, ConfigRest, ConfigTypes, Wherever, ProfileRuns, Adding!RelayingTypeOK
<1> QED BY <1>1, <1>2, <1>3, <1>4, <1>5, <1>6, ConfigRestStays, PTL

ReadRest ==
    /\ camera \in {"not-determined", "authorized", "denied"}
    /\ textRead.as.kind \in {"none", "invitation", "node"}
    /\ textRead.as.id \in Invited \cup Nodes \cup {"none", Reading!Garbled}

LEMMA ReadIsTyped ==
    ASSUME NEW way \in Reading!Ways, NEW text \in Reading!Texts
    PROVE  /\ Reading!Read(way, text).kind \in {"none", "invitation", "node"}
           /\ Reading!Read(way, text).id \in Invited \cup Nodes \cup {"none", Reading!Garbled}
<1> DEFINE Id == Invited \cup Nodes \cup {"none", Reading!Garbled}
           Typed(x) == x = Reading!NoCode \/ \E i \in Id : x \in {Reading!Invitation(i), Reading!NodeCode(i)}
<1>1. \A x : Typed(x) => x.kind \in {"none", "invitation", "node"} /\ x.id \in Id
  BY DEF Reading!NoCode, Reading!Invitation, Reading!NodeCode
<1>2. text.of \in Id /\ Reading!Garbled \in Id
  BY DEF Reading!Texts
<1> HIDE DEF Id
<1>3. Typed(Reading!parseInviteToken(text)) /\ Typed(Reading!nodeCodeFromUrl(text)) /\ Typed(Reading!Routed(text))
  BY <1>2 DEF Reading!parseInviteToken, Reading!nodeCodeFromUrl, Reading!Routed
<1>4. Typed(Reading!Scanned(text)) /\ Typed(Reading!Joined(text)) /\ Typed(Reading!Pasted(text))
  BY <1>2, <1>3 DEF Reading!Scanned, Reading!Joined, Reading!Pasted
<1> HIDE DEF Typed
<1>5. Typed(Reading!Read(way, text))
  BY <1>3, <1>4 DEF Reading!Read, Reading!Ways
<1> QED BY <1>1, <1>5 DEF Id

LEMMA CodesTypesHold ==
    Reading!CodesInit /\ [][Reading!CodesNext]_(Reading!codesVars) => []Reading!CodesTypeOK
<1>1. Reading!CodesInit => ReadRest
  BY DEF Reading!CodesInit, Reading!NotRead, Reading!NoCode, ReadRest
<1>2. CodesInv /\ ReadRest /\ [Reading!CodesNext]_(Reading!codesVars) => ReadRest'
  <2> SUFFICES ASSUME CodesInv, ReadRest, [Reading!CodesNext]_(Reading!codesVars) PROVE ReadRest'
    OBVIOUS
  <2>1. ASSUME NEW way \in Reading!Ways, NEW text \in Reading!Texts, UNCHANGED camera,
               textRead' = [way |-> way, text |-> text, as |-> Reading!Read(way, text)]
        PROVE  ReadRest'
    <3>1. textRead'.as = Reading!Read(way, text)
      BY <2>1
    <3> QED BY <2>1, <3>1, ReadIsTyped DEF ReadRest
  <2>2. ASSUME NEW text \in Reading!Texts, NEW way \in Reading!Ways, Reading!Open(way, text) PROVE ReadRest'
    BY <2>1, <2>2 DEF Reading!Open, Reading!scannerVars
  <2>3. CASE Reading!Opened
    <3>1. "scanner" \in Reading!Ways /\ Reading!Read("scanner", scannedValue) = Reading!Scanned(scannedValue)
          /\ scannedValue \in Reading!Texts
      BY DEF Reading!Ways, Reading!Read, CodesInv
    <3> QED BY <2>1, <2>3, <3>1 DEF Reading!Opened, Reading!scannerVars
  <2>4. ASSUME UNCHANGED textRead, camera' \in {camera, "not-determined", "authorized", "denied"} PROVE ReadRest'
    BY <2>4 DEF ReadRest
  <2>5. ASSUME NEW text, Reading!CameraSees(text) \/ Reading!Typed(text) PROVE ReadRest'
    BY <2>4, <2>5 DEF Reading!CameraSees, Reading!Typed
  <2>6. ASSUME NEW granted \in BOOLEAN, Reading!Permission(granted) PROVE ReadRest'
    BY <2>4, <2>6 DEF Reading!Permission
  <2>7. CASE Reading!ScannerOpens \/ UNCHANGED Reading!codesVars
    BY <2>4, <2>7 DEF Reading!ScannerOpens, Reading!codesVars
  <2> QED BY <2>2, <2>3, <2>5, <2>6, <2>7 DEF Reading!CodesNext
<1>3. CodesInv /\ ReadRest => Reading!CodesTypeOK
  BY DEF CodesInv, ReadRest, Reading!CodesTypeOK
<1> QED BY <1>1, <1>2, <1>3, CodesInitInv, CodesStep, PTL

LeaveRest == kind \in {"founded", "joined"} /\ agreed \in 0 .. MaxUnsent

LEMMA LeavingTypesHold ==
    ASSUME Departing!LeavingConstants
    PROVE  Departing!LeavingInit /\ [][Departing!LeavingNext]_(Departing!leavingVars) => []Departing!LeavingTypeOK
<1>1. Departing!LeavingInit => LeaveRest
  BY DEF Departing!LeavingConstants, Departing!LeavingInit, LeaveRest
<1>2. LeavingInv /\ LeaveRest /\ [Departing!LeavingNext]_(Departing!leavingVars) => LeaveRest'
  <2> SUFFICES ASSUME LeavingInv, LeaveRest, [Departing!LeavingNext]_(Departing!leavingVars) PROVE LeaveRest'
    OBVIOUS
  <2>1. ASSUME NEW l \in Leaves, Departing!ConfirmDiscard(l) PROVE LeaveRest'
    <3>1. agreed' \in {agreed, leave[l].told} /\ kind' = kind
      BY <2>1 DEF Departing!ConfirmDiscard, Departing!strandVars
    <3>2. leave[l].told \in 0 .. MaxUnsent
      BY DEF LeavingInv, LeavingTypes, LeaveSet
    <3> QED BY <3>1, <3>2 DEF LeaveRest
  <2>2. ASSUME UNCHANGED <<kind, agreed>> PROVE LeaveRest'
    BY <2>2 DEF LeaveRest
  <2>3. ASSUME NEW l \in Leaves,
               \/ Departing!Continue(l) \/ Departing!Confirm(l) \/ Departing!Cancel(l) \/ Departing!Check(l)
               \/ Departing!Remove(l) \/ Departing!Refuse(l) \/ Departing!Save(l) \/ Departing!Fails(l)
        PROVE  LeaveRest'
    BY <2>2, <2>3
    DEF Departing!Continue, Departing!Confirm, Departing!Cancel, Departing!Check, Departing!Remove,
        Departing!Refuse, Departing!Save, Departing!Fails, Departing!strandVars, Departing!historyVars
  <2>4. ASSUME NEW l \in Leaves, NEW yes \in BOOLEAN,
               Departing!Open(l, yes) \/ Departing!Counted(l, yes) \/ Departing!Stop(l, yes)
        PROVE  LeaveRest'
    BY <2>2, <2>4
    DEF Departing!Open, Departing!Counted, Departing!Stop, Departing!strandVars, Departing!historyVars
  <2>5. CASE Departing!Saves \/ Departing!Sends \/ UNCHANGED Departing!leavingVars
    BY <2>2, <2>5 DEF Departing!Saves, Departing!Sends, Departing!leavingVars, Departing!historyVars
  <2> QED BY <2>1, <2>3, <2>4, <2>5 DEF Departing!LeavingNext
<1>3. LeavingInv /\ LeaveRest => Departing!LeavingTypeOK
  <2> SUFFICES ASSUME LeavingInv, LeaveRest PROVE Departing!LeavingTypeOK
    OBVIOUS
  <2>1. unsent \in 0 .. MaxUnsent /\ withdrawn \in 0 .. MaxUnsent
    BY DEF LeavingInv, LeavingTypes, Departing!LeavingConstants
  <2> QED BY <2>1 DEF LeavingInv, LeavingTypes, LeaveSet, LeaveRest, Departing!LeavingTypeOK
<1> QED BY <1>1, <1>2, <1>3, LeavingInitInv, LeavingStep, PTL

-----------------------------------------------------------------------------
(***************************************************************************)
(* The hosts, as in HostsProofs.                                           *)
(***************************************************************************)
LEMMA PromptIsPart == Spec => Prompt!SerchatInit /\ [][Prompt!SerchatNext]_promptVars
<1>1. Init => Prompt!SerchatInit
  BY DEF Init
<1>2. [Next]_vars => [Prompt!SerchatNext]_promptVars
  BY DEF Next, vars, Serchat, CommandNext, commandVars
<1> QED BY <1>1, <1>2, PTL DEF Spec

LEMMA NsIsPart == Spec => Ns!NsInit /\ [][Ns!NsNext]_nsVars
<1>1. Init => Ns!NsInit
  BY DEF Init
<1>2. [Next]_vars => [Ns!NsNext]_nsVars
  BY DEF Next, vars, Serchat, HostNext, hostVars
<1> QED BY <1>1, <1>2, PTL DEF Spec

LEMMA EventsIsPart == Spec => Events!PhoneEventsInit /\ [][Events!PhoneEventsNext]_phoneEventsVars
<1>1. Init => Events!PhoneEventsInit
  BY DEF Init
<1>2. [Next]_vars => [Events!PhoneEventsNext]_phoneEventsVars
  BY DEF Next, vars, Serchat, DeviceNext, deviceVars
<1> QED BY <1>1, <1>2, PTL DEF Spec

LEMMA FollowingIsPart == Spec => Tailing!FollowingInit /\ [][Tailing!FollowingNext]_followingVars
<1>1. Init => Tailing!FollowingInit
  BY DEF Init
<1>2. [Next]_vars => [Tailing!FollowingNext]_followingVars
  BY DEF Next, vars, Serchat, CommandNext, commandVars
<1> QED BY <1>1, <1>2, PTL DEF Spec

LEMMA MachinesIsPart == Spec => Cadre!MachinesInit /\ [][Cadre!MachinesNext]_machinesVars
<1>1. Init => Cadre!MachinesInit
  BY DEF Init
<1>2. [Next]_vars => [Cadre!MachinesNext]_machinesVars
  BY DEF Next, vars, Serchat, DecisionNext, decisionVars
<1> QED BY <1>1, <1>2, PTL DEF Spec

LEMMA NamesIsPart == Spec => Naming!MemberNamesInit /\ [][Naming!MemberNamesNext]_memberNamesVars
<1>1. Init => Naming!MemberNamesInit
  BY DEF Init
<1>2. [Next]_vars => [Naming!MemberNamesNext]_memberNamesVars
  BY DEF Next, vars, Serchat, DecisionNext, decisionVars
<1> QED BY <1>1, <1>2, PTL DEF Spec

LEMMA SessionIsPart == Spec => Run!SessionInit /\ [][Run!SessionNext]_(Run!sessionVars)
<1>1. Init => Run!SessionInit
  BY DEF Init
<1>2. [Next]_vars => [Run!SessionNext]_(Run!sessionVars)
  BY DEF Next, vars, Serchat, CommandNext, commandVars, sessionVars, Run!sessionVars
<1> QED BY <1>1, <1>2, PTL DEF Spec

LEMMA OpeningIsPart == Spec => App!OpeningInit /\ [][App!OpeningNext]_(App!openingVars)
<1>1. Init => App!OpeningInit
  BY DEF Init
<1>2. [Next]_vars => [App!OpeningNext]_(App!openingVars)
  BY DEF Next, vars, Serchat, DecisionNext, decisionVars, openingVars, App!openingVars
<1> QED BY <1>1, <1>2, PTL DEF Spec

LEMMA LeavingIsPart == Spec => Departing!LeavingInit /\ [][Departing!LeavingNext]_(Departing!leavingVars)
<1>1. Init => Departing!LeavingInit
  BY DEF Init
<1>2. [Next]_vars => [Departing!LeavingNext]_(Departing!leavingVars)
  BY DEF Next, vars, Serchat, DecisionNext, decisionVars, leavingVars, Departing!leavingVars
<1> QED BY <1>1, <1>2, PTL DEF Spec

LEMMA MarksIsPart == Spec => Marking!MarksInit /\ [][Marking!MarksNext]_(Marking!marksVars)
<1>1. Init => Marking!MarksInit
  BY DEF Init
<1>2. [Next]_vars => [Marking!MarksNext]_(Marking!marksVars)
  BY DEF Next, vars, Serchat, DeviceNext, deviceVars, marksVars, Marking!marksVars
<1> QED BY <1>1, <1>2, PTL DEF Spec

LEMMA CodesIsPart == Spec => Reading!CodesInit /\ [][Reading!CodesNext]_(Reading!codesVars)
<1>1. Init => Reading!CodesInit
  BY DEF Init
<1>2. [Next]_vars => [Reading!CodesNext]_(Reading!codesVars)
  BY DEF Next, vars, Serchat, DeviceNext, deviceVars, codesVars, Reading!codesVars
<1> QED BY <1>1, <1>2, PTL DEF Spec

(* serchat's node has the profile's relays and every handler, and its blocks to itself (cli     *)
(* host.ts), the NativeScript node runs with the party that was saved (ns host.ts:68-75), and   *)
(* the strands of a phone's node are awake in the front, woken one at a time                    *)
(* (CadreService.ts:109-116): for any number of lines, calls, launches, strands and sweeps,     *)
(* over the exceptions each part states.                                                        *)
THEOREM NodeStaysCurrent == Spec => []NodeIsCurrent
<1>1. Prompt!SerchatConstants /\ Ns!NsHostConstants /\ Events!PhoneEventsConstants
  BY HostsConstants
<1>2. Prompt!SerchatInit /\ [][Prompt!SerchatNext]_promptVars => []Prompt!NodeIsCurrent
  BY <1>1, PromptHoldsAlone, PTL
<1>3. Ns!NsInit /\ [][Ns!NsNext]_nsVars => []Ns!PartyIsSaved
  BY <1>1, PartySavedAlone, PTL
<1>4. Events!PhoneEventsInit /\ [][Events!PhoneEventsNext]_phoneEventsVars =>
          [](Events!AwakeInFront /\ Events!OneAtATime)
  BY <1>1, EventsHoldAlone, PTL
<1>5. Prompt!NodeIsCurrent /\ Ns!PartyIsSaved /\ Events!AwakeInFront /\ Events!OneAtATime => NodeIsCurrent
  BY DEF NodeIsCurrent
<1> QED BY <1>2, <1>3, <1>4, <1>5, PromptIsPart, NsIsPart, EventsIsPart, PTL

(* Who looks is told of changes: `tail` prints every message it is told of, once                *)
(* (commands/strands.ts:100), the lists show every name saved here (model.ts:112), the network  *)
(* screen the party's machines (cadre.ts:30-31), and whoever shows it whether this device can   *)
(* be reached (reachability.ts:3-5), for any messages and limits, members and names, machines   *)
(* and addresses, whatever changed while a read was under way.                                  *)
THEOREM ChangesStayTold == Spec => []ChangesAreTold
<1>1. Tailing!FollowingConstants /\ Naming!MemberNamesConstants /\ Cadre!MachinesConstants
      /\ Events!PhoneEventsConstants
  BY HostsConstants
<1>2. Tailing!FollowingInit /\ [][Tailing!FollowingNext]_followingVars => []Tailing!TailMissesNothing
  BY <1>1, FollowingHoldsAlone, PTL
<1>3. Naming!MemberNamesInit /\ [][Naming!MemberNamesNext]_memberNamesVars => []Naming!NamesFollow
  BY <1>1, NamesHoldAlone, PTL
<1>4. Cadre!MachinesInit /\ [][Cadre!MachinesNext]_machinesVars => []Cadre!MachinesAreTold
  BY <1>1, MachinesHoldAlone, PTL
<1>5. Events!PhoneEventsInit /\ [][Events!PhoneEventsNext]_phoneEventsVars => []Events!ReachIsShown
  BY <1>1, EventsHoldAlone, PTL
<1>6. Tailing!TailMissesNothing /\ Naming!NamesFollow /\ Cadre!MachinesAreTold /\ Events!ReachIsShown
          => ChangesAreTold
  BY DEF ChangesAreTold
<1> QED BY <1>2, <1>3, <1>4, <1>5, <1>6, FollowingIsPart, NamesIsPart, MachinesIsPart, EventsIsPart, PTL

(* Only what the user asked for is done: lines typed at the prompt run once, in order           *)
(* (main.ts:255-257); a leave drops only what the user was told of (StrandDetail.tsx:147-215);  *)
(* data is refused, or a name asked for, only of those it should be (data-format.ts:2-3,        *)
(* AppNavigator.tsx:37-41); a row number names what was printed, and a run ends once what it    *)
(* founded is started (session.ts:24, main.ts:215-216); a text is opened as what it was made as *)
(* (invite-link.ts:27-28), and a mark is of the last write (delivery.ts:148): for any lines,    *)
(* leaves, names, listings, texts and writes, over the exceptions each part states.             *)
THEOREM UserStaysHeeded == Spec => []UserIsHeeded
<1>1. /\ Prompt!SerchatConstants /\ Departing!LeavingConstants /\ App!OpeningConstants
      /\ Run!SessionConstants /\ Marking!MarksConstants
  BY HostsConstants
<1>2. Prompt!SerchatInit /\ [][Prompt!SerchatNext]_promptVars => []Prompt!LinesRunInOrder
  BY <1>1, PromptHoldsAlone, PTL
<1>3. Departing!LeavingInit /\ [][Departing!LeavingNext]_(Departing!leavingVars) => []Departing!LeavingIsAsked
  BY <1>1, LeavingHoldsAlone, PTL
<1>4. App!OpeningInit /\ [][App!OpeningNext]_(App!openingVars) => []App!OpeningIsFair
  BY <1>1, OpeningHoldsAlone, PTL
<1>5. Run!SessionInit /\ [][Run!SessionNext]_(Run!sessionVars) => [](Run!RowsAreAsPrinted /\ Run!FoundedIsStarted)
  BY <1>1, SessionHoldsAlone, PTL
<1>6. Reading!CodesInit /\ [][Reading!CodesNext]_(Reading!codesVars) => []Reading!CodesAreRead
  BY CodesHoldAlone, PTL
<1>7. Marking!MarksInit /\ [][Marking!MarksNext]_(Marking!marksVars) => []Marking!MarksAreRead
  BY <1>1, MarksHoldAlone, PTL
<1>8. /\ Prompt!LinesRunInOrder /\ Departing!LeavingIsAsked /\ App!OpeningIsFair /\ Run!RowsAreAsPrinted
      /\ Run!FoundedIsStarted /\ Reading!CodesAreRead /\ Marking!MarksAreRead
      => UserIsHeeded
  BY DEF UserIsHeeded
<1> QED
  BY <1>2, <1>3, <1>4, <1>5, <1>6, <1>7, <1>8, PromptIsPart, LeavingIsPart, OpeningIsPart, SessionIsPart,
     CodesIsPart, MarksIsPart, PTL

(* Every part keeps to its types, for every value of the constants: every count to its bound. *)
THEOREM HostsWellTyped == Spec => []TypeOK
<1>1. /\ Phone!PhoneConstants /\ Prompt!SerchatConstants /\ LockConstants /\ Ns!NsHostConstants /\ StoreConstants
      /\ StorageConstants /\ Tailing!FollowingConstants /\ App!OpeningConstants /\ Choices!AppSettingsConstants
      /\ Cadre!MachinesConstants /\ Naming!MemberNamesConstants /\ Departing!LeavingConstants
      /\ Run!SessionConstants /\ Events!PhoneEventsConstants /\ Marking!MarksConstants /\ Adding!RelayingConstants
  BY HostsConstants
<1>2. Spec => []Phone!PhoneTypeOK
  <2>1. PhoneInv => Phone!PhoneTypeOK
    BY DEF PhoneInv
  <2> QED BY <1>1, <2>1, PhoneInitInv, PhoneStepKeeps, PhoneIsPart, PTL
<1>3. Spec => []StoreTypeOK
  BY <1>1, StoreTypesHold, StoreIsPart, NodeIsNumbered, PTL
<1>4. Spec => []LockTypeOK
  <2>1. LockInv => LockTypeOK
    BY DEF LockInv
  <2> QED BY <1>1, <2>1, LockInitInv, LockNextInv, LockIsPart, PTL DEF LockSpec
<1>5. Spec => []StorageTypeOK
  <2>1. StorageInv => StorageTypeOK
    BY DEF StorageInv
  <2>2. MaxOpens \in Nat
    BY <1>1 DEF StorageConstants
  <2> QED BY <2>1, <2>2, StorageInitInv, StorageNextInv, StorageIsPart, PTL DEF StorageSpec
<1>6. Spec => []BatchTypeOK
  <2>1. BatchInv => BatchTypeOK
    BY DEF BatchInv
  <2> QED BY <2>1, BatchInitInv, BatchNextInv, BatchingIsPart, PTL DEF BatchSpec
<1>7. Spec => [](Prompt!SerchatTypeOK /\ Ns!NsTypeOK)
  BY <1>1, PromptHoldsAlone, PartySavedAlone, PromptIsPart, NsIsPart, PTL
<1>8. Spec => [](Tailing!FollowingTypeOK /\ Run!SessionTypeOK /\ Adding!RelayingTypeOK)
  BY <1>1, FollowingHoldsAlone, SessionHoldsAlone, RelayingTypesHold, FollowingIsPart, SessionIsPart, RelayingIsPart,
     PTL
<1>9. Spec => [](App!OpeningTypeOK /\ Choices!AppSettingsTypeOK /\ Cadre!MachinesTypeOK)
  BY <1>1, OpeningHoldsAlone, SettingsTypesHold, MachinesHoldAlone, OpeningIsPart, SettingsIsPart, MachinesIsPart,
     PTL
<1>10. Spec => [](Naming!MemberNamesTypeOK /\ Departing!LeavingTypeOK)
  BY <1>1, NamesHoldAlone, LeavingTypesHold, NamesIsPart, LeavingIsPart, PTL
<1>11. Spec => [](Events!PhoneEventsTypeOK /\ Marking!MarksTypeOK /\ Reading!CodesTypeOK)
  BY <1>1, EventsHoldAlone, MarksHoldAlone, CodesTypesHold, EventsIsPart, MarksIsPart, CodesIsPart, PTL
<1>12. Spec => [](subject \in Subjects)
  <2>1. Init => subject \in Subjects
    BY DEF Init
  <2>2. subject \in Subjects /\ [Next]_vars => (subject \in Subjects)'
    BY DEF Next, vars, Serchat
  <2> QED BY <2>1, <2>2, PTL DEF Spec
<1>13. /\ Phone!PhoneTypeOK /\ StoreTypeOK /\ LockTypeOK /\ StorageTypeOK /\ BatchTypeOK
       /\ Prompt!SerchatTypeOK /\ Ns!NsTypeOK
       /\ Tailing!FollowingTypeOK /\ Run!SessionTypeOK /\ Adding!RelayingTypeOK
       /\ App!OpeningTypeOK /\ Choices!AppSettingsTypeOK /\ Cadre!MachinesTypeOK
       /\ Naming!MemberNamesTypeOK /\ Departing!LeavingTypeOK
       /\ Events!PhoneEventsTypeOK /\ Marking!MarksTypeOK /\ Reading!CodesTypeOK /\ subject \in Subjects
       => TypeOK
  BY DEF TypeOK
<1> QED BY <1>2, <1>3, <1>4, <1>5, <1>6, <1>7, <1>8, <1>9, <1>10, <1>11, <1>12, <1>13, PTL
=============================================================================
