------------------------------ MODULE Serchat ------------------------------
(***************************************************************************)
(* The command line: its node host, its prompt and its way out.            *)
(*                                                                         *)
(* The node is built with the relays of the profile; a change of relays    *)
(* stops it and starts another one.  The prompt reads the terminal, runs   *)
(* one line at a time, and hands a line to a command that asked a          *)
(* question.  Each await is a boundary between actions.  A line is its     *)
(* number and what it asks for; the development bridge is left out.        *)
(***************************************************************************)
EXTENDS Naturals, Sequences, SequencesExt

CONSTANTS
    MaxLines        \* bound on lines typed

\* What the constants have to be; the modules that compose this one assume it.
SerchatConstants == MaxLines \in Nat

\* What a line may ask for: usage (`help`, needing no node), a change of relays,
\* something that follows the node's events until Ctrl-C (`tail`), something that
\* asks first (`leave`), or to leave.
Kinds == {"help", "relay", "tail", "leave", "quit"}

Handlers == {"runtime", "tail"}

VARIABLES
    node,           \* the relays of the node that runs, or NoNode
    starting,       \* ensureStarted's promise: "none", "pending" or "done"
    build,          \* the start under way: where it is, its relays and its handlers
    relays,         \* config.relays, a version number
    stored,         \* the same in profile.json
    handlers,       \* registered with on()
    attached,       \* on the node that runs
    open,           \* whether a node's block stores wait to be flushed and closed
    ready,          \* the boot: "pending", "up" or "failed"
    typed,          \* how many lines were typed
    queue,          \* lines read and not run yet
    command,        \* the line that runs: its number, kind and where it is
    running,        \* the drain loop runs
    asker,          \* a question waits for the next line
    aborted,        \* the signal of the line that runs
    closed,         \* the terminal was closed
    phase,          \* "prompt", "leaving", "stopping" or "exited"
    ran,            \* history: the lines that were run to their end, in order
    answers         \* history: the lines that answered a question

serchatVars == <<node, starting, build, relays, stored, handlers, attached, open, ready,
                 typed, queue, command, running, asker, aborted, closed, phase, ran, answers>>

hostVars == <<node, starting, build, relays, stored, handlers, attached, open>>
promptVars == <<typed, queue, command, running, asker, aborted, closed, phase, ran, answers>>

NoNode == MaxLines + 1      \* no version of the relays
NotBuilding == [pc |-> "idle", relays |-> 0, handlers |-> {}]
NoCommand == [n |-> 0, kind |-> "help", pc |-> "none"]

SerchatTypeOK ==
    /\ node \in 0 .. NoNode /\ starting \in {"none", "pending", "done"}
    /\ build \in [pc : {"idle", "stores", "starting", "genesis"}, relays : 0 .. MaxLines,
                  handlers : SUBSET Handlers]
    /\ relays \in 0 .. MaxLines /\ stored \in 0 .. MaxLines
    /\ handlers \subseteq Handlers /\ attached \subseteq Handlers /\ open \in BOOLEAN
    /\ ready \in {"pending", "up", "failed"} /\ typed \in 0 .. MaxLines
    /\ queue \in Seq([n : 1 .. MaxLines, kind : Kinds])
    /\ command \in [n : 0 .. MaxLines, kind : Kinds,
                    pc : {"none", "waits", "runs", "saving", "stopping", "starting", "asks"}]
    /\ running \in BOOLEAN /\ asker \in BOOLEAN /\ aborted \in BOOLEAN /\ closed \in BOOLEAN
    /\ phase \in {"prompt", "leaving", "stopping", "exited"} /\ ran \in Seq(1 .. MaxLines)
    /\ answers \subseteq 1 .. MaxLines

\* main() starts the boot at once, and does not wait for it.
SerchatInit ==
    /\ node = NoNode /\ starting = "pending" /\ build = [NotBuilding EXCEPT !.pc = "stores"]
    /\ relays = 0 /\ stored = 0 /\ handlers = {} /\ attached = {} /\ open = FALSE
    /\ ready = "pending" /\ typed = 0 /\ queue = <<>> /\ command = NoCommand
    /\ running = FALSE /\ asker = FALSE /\ aborted = FALSE /\ closed = FALSE
    /\ phase = "prompt" /\ ran = <<>> /\ answers = {}

(***************************************************************************)
(* The host.                                                               *)
(***************************************************************************)

\* ensureStarted: one start at a time.  The relays are read as the build begins, before
\* its stores are opened.
ensureStarted ==
    /\ starting = "none"
    /\ starting' = "pending"
    /\ build' = [pc |-> "stores", relays |-> relays, handlers |-> {}]

\* The stores are open: the node is made, with the handlers registered by now.
Built ==
    /\ build.pc = "stores"
    /\ build' = [build EXCEPT !.pc = "starting", !.handlers = handlers] /\ open' = TRUE
    /\ UNCHANGED <<node, starting, relays, stored, handlers, attached, ready, promptVars>>

\* start() has returned: the node is published, then owner genesis runs.
NodeUp ==
    /\ build.pc = "starting"
    /\ build' = [build EXCEPT !.pc = "genesis"]
    /\ node' = build.relays /\ attached' = build.handlers
    /\ UNCHANGED <<starting, relays, stored, handlers, open, ready, promptVars>>

Genesis ==
    /\ build.pc = "genesis"
    /\ build' = NotBuilding /\ starting' = IF starting = "pending" THEN "done" ELSE starting
    /\ UNCHANGED <<node, relays, stored, handlers, attached, open, ready, promptVars>>

\* A start that fails may be tried again.
StartRefused ==
    /\ build.pc \in {"stores", "starting"}
    /\ build' = NotBuilding /\ starting' = "none"
    /\ UNCHANGED <<node, relays, stored, handlers, attached, open, ready, promptVars>>

\* Mutant: a handler waits for the next node.
on_NotAttached(h) == handlers' = handlers \cup {h} /\ UNCHANGED attached

\* on(): registered for the life of the host, and put on the node that runs.
on(h) ==
    /\ handlers' = handlers \cup {h}
    /\ attached' = IF node = NoNode THEN attached ELSE attached \cup {h}

off(h) ==
    /\ handlers' = handlers \ {h}
    /\ attached' = IF node = NoNode THEN attached ELSE attached \ {h}

\* stop() up to its first await; what it awaits ends with the stores closed.
stopHost ==
    /\ node' = NoNode /\ starting' = "none" /\ attached' = {}

(***************************************************************************)
(* The boot.                                                               *)
(***************************************************************************)

\* The runtime subscribes to the node's offers once the node is up.
BootEnds ==
    /\ ready = "pending" /\ starting = "done"
    /\ on("runtime") /\ ready' = "up"
    /\ UNCHANGED <<node, starting, build, relays, stored, open, promptVars>>

BootFails ==
    /\ ready = "pending" /\ starting = "none" /\ build.pc = "idle"
    /\ ready' = "failed"
    /\ UNCHANGED <<hostVars, promptVars>>

(***************************************************************************)
(* The prompt.                                                             *)
(***************************************************************************)

\* The loop takes the next line: a command, or the wish to leave.
Take(lines) ==
    /\ queue' = Tail(lines) /\ running' = TRUE
    /\ command' = [n |-> Head(lines).n, kind |-> Head(lines).kind,
                   pc |-> IF Head(lines).kind = "help" THEN "runs" ELSE "waits"]
    /\ aborted' = FALSE

\* A line arrives: the answer to a question, or one more line to run.
Line(kind) ==
    /\ ~closed /\ phase = "prompt" /\ typed < MaxLines
    /\ typed' = typed + 1
    /\ LET lines == Append(queue, [n |-> typed + 1, kind |-> kind]) IN
       \/ /\ asker /\ asker' = FALSE
          /\ command' = [command EXCEPT !.pc = "runs"] /\ answers' = answers \cup {typed + 1}
          /\ UNCHANGED <<queue, running, aborted>>
       \/ /\ ~asker /\ running /\ queue' = lines
          /\ UNCHANGED <<command, running, asker, aborted, answers>>
       \/ /\ ~asker /\ ~running /\ Take(lines) /\ UNCHANGED <<asker, answers>>
    /\ UNCHANGED <<hostVars, ready, closed, phase, ran>>

\* Ctrl-C stops what runs.  Nothing listens once the terminal is closed.
Interrupt ==
    /\ ~closed /\ running /\ ~aborted
    /\ aborted' = TRUE
    /\ UNCHANGED <<hostVars, ready, typed, queue, command, running, asker, closed, phase, ran, answers>>

\* Ctrl-D: a question that waits is answered with nothing.
Close ==
    /\ ~closed /\ phase = "prompt"
    /\ closed' = TRUE /\ asker' = FALSE
    /\ command' = IF asker THEN [command EXCEPT !.pc = "runs"] ELSE command
    /\ phase' = IF running THEN phase ELSE "leaving"
    /\ UNCHANGED <<hostVars, ready, typed, queue, running, aborted, ran, answers>>

\* Mutant: the loop ends after one line.
NextLine_OneLine(left, leaves) ==
    /\ ran' = Append(ran, command.n) /\ queue' = <<>> /\ running' = FALSE /\ command' = NoCommand
    /\ phase' = (IF leaves THEN "leaving" ELSE phase) /\ UNCHANGED aborted

\* Mutant: a terminal closed while a line ran is not looked at again.
NextLine_NeverLeaves(left, leaves) ==
    /\ ran' = Append(ran, command.n) /\ UNCHANGED phase
    /\ \/ left # <<>> /\ Take(left)
       \/ /\ left = <<>> /\ queue' = <<>> /\ running' = FALSE /\ command' = NoCommand
          /\ UNCHANGED aborted

\* The loop goes on with the next line, or ends; quitting drops the lines not run.
NextLine(left, leaves) ==
    /\ ran' = Append(ran, command.n)
    /\ \/ /\ left # <<>> /\ Take(left) /\ UNCHANGED phase
       \/ /\ left = <<>> /\ queue' = <<>> /\ running' = FALSE /\ command' = NoCommand
          /\ phase' = IF leaves THEN "leaving" ELSE phase
          /\ UNCHANGED aborted

CommandEnds == NextLine(queue, closed) /\ UNCHANGED <<typed, asker, closed, answers>>

\* A command that needs the node waits for the boot, and fails with it.
CommandWaits ==
    /\ command.pc = "waits" /\ command.kind # "quit"
    /\ \/ /\ ready = "up" /\ command' = [command EXCEPT !.pc = "runs"]
          /\ UNCHANGED <<typed, queue, running, asker, aborted, closed, phase, ran, answers>>
       \/ ready = "failed" /\ CommandEnds
    /\ UNCHANGED <<hostVars, ready>>

Quit ==
    /\ command.kind = "quit" /\ command.pc = "waits"
    /\ closed' = TRUE /\ asker' = FALSE /\ NextLine(<<>>, TRUE)
    /\ UNCHANGED <<hostVars, ready, typed, answers>>

Help ==
    /\ command.kind = "help" /\ command.pc = "runs" /\ CommandEnds
    /\ UNCHANGED <<hostVars, ready>>

\* `leave` asks; the answer ends it either way, here.
Asks ==
    /\ command.kind = "leave" /\ command.pc = "runs"
    /\ asker' = TRUE /\ command' = [command EXCEPT !.pc = "asks"]
    /\ UNCHANGED <<hostVars, ready, typed, queue, running, aborted, closed, phase, ran, answers>>

Answered ==
    /\ command.kind = "leave" /\ command.pc = "runs" /\ CommandEnds
    /\ UNCHANGED <<hostVars, ready>>

\* `tail` follows the node's events until its signal is aborted.
Follows ==
    /\ command.kind = "tail" /\ command.pc = "runs" /\ on("tail")
    /\ command' = [command EXCEPT !.pc = "asks"]
    /\ UNCHANGED <<node, starting, build, relays, stored, open, ready, typed, queue, running,
                   asker, aborted, closed, phase, ran, answers>>

StopsFollowing ==
    /\ command.kind = "tail" /\ command.pc = "asks" /\ aborted
    /\ off("tail") /\ CommandEnds
    /\ UNCHANGED <<node, starting, build, relays, stored, open, ready>>

\* applyRelays: the profile is saved, the node is stopped, another one is started.
applyRelays ==
    /\ command.kind = "relay" /\ command.pc = "runs"
    /\ relays' = command.n /\ command' = [command EXCEPT !.pc = "saving"]
    /\ UNCHANGED <<node, starting, build, stored, handlers, attached, open, ready, typed,
                   queue, running, asker, aborted, closed, phase, ran, answers>>

RelaysSaved ==
    /\ command.kind = "relay" /\ command.pc = "saving"
    /\ stored' = relays
    /\ \/ /\ node = NoNode /\ CommandEnds
          /\ UNCHANGED <<node, starting, attached>>
       \/ /\ node # NoNode /\ stopHost
          /\ command' = [command EXCEPT !.pc = "stopping"]
          /\ UNCHANGED <<typed, queue, running, asker, aborted, closed, phase, ran, answers>>
    /\ UNCHANGED <<build, relays, handlers, open, ready>>

Stopped ==
    /\ command.kind = "relay" /\ command.pc = "stopping"
    /\ open' = FALSE /\ ensureStarted
    /\ command' = [command EXCEPT !.pc = "starting"]
    /\ UNCHANGED <<node, relays, stored, handlers, attached, ready, typed, queue, running, asker,
                   aborted, closed, phase, ran, answers>>

\* The node is up again, or the command fails.  The rebuild hooks run before it ends.
Restarted ==
    /\ command.kind = "relay" /\ command.pc = "starting" /\ starting # "pending"
    /\ CommandEnds
    /\ UNCHANGED <<hostVars, ready>>

(***************************************************************************)
(* The way out: the background work, the queues and the list are waited    *)
(* for, each for a bounded time; then the host is stopped.                 *)
(***************************************************************************)

ShutsDown ==
    /\ phase = "leaving" /\ ~running
    /\ phase' = "stopping" /\ stopHost
    /\ UNCHANGED <<build, relays, stored, handlers, open, ready, typed, queue, command,
                   running, asker, aborted, closed, ran, answers>>

\* The stores are closed, or their time is up.
Exits ==
    /\ phase = "stopping"
    /\ phase' = "exited"
    /\ open' \in {FALSE, open}
    /\ UNCHANGED <<node, starting, build, relays, stored, handlers, attached, ready, typed,
                   queue, command, running, asker, aborted, closed, ran, answers>>

HostSteps == Built \/ NodeUp \/ Genesis \/ StartRefused
Boot == BootEnds \/ BootFails
Commands ==
    \/ CommandWaits \/ Quit \/ Help \/ Asks \/ Answered \/ Follows \/ StopsFollowing
    \/ applyRelays \/ RelaysSaved \/ Stopped \/ Restarted
Terminal == (\E kind \in Kinds : Line(kind)) \/ Interrupt \/ Close

SerchatNext ==
    /\ phase # "exited"
    /\ HostSteps \/ Boot \/ Commands \/ Terminal \/ ShutsDown \/ Exits

(***************************************************************************)
(* Properties.                                                             *)
(***************************************************************************)

\* The node that runs was built with the relays of the profile, and carries every handler
\* registered with the host, over whichever rebuild (host.ts:138-139, 177-196).  No node
\* is built while another one runs or its stores still hold writes (host.ts:93-98).
NodeIsCurrent ==
    /\ node # NoNode /\ command.pc # "saving" => node = relays /\ relays = stored
    /\ node # NoNode => attached = handlers
    /\ build.pc = "stores" => node = NoNode /\ ~open

\* Every line typed is run once, in the order typed, or answers a question, and is not run
\* (main.ts:255-257); only leaving drops lines.
LinesRunInOrder ==
    LET due == ran \o (IF running THEN <<command.n>> ELSE <<>>)
                   \o [i \in 1 .. Len(queue) |-> queue[i].n]
    IN  /\ \A i \in 1 .. Len(due) - 1 : due[i] < due[i + 1]
        /\ IF closed THEN ToSet(due) \cap answers = {}
           ELSE ToSet(due) = (1 .. typed) \ answers

\* A terminal that was closed is left: the process exits (main.ts:338-342).  Except when a
\* command asks, or follows events, after the close: nothing answers or stops it then.
PromptEnds == closed ~> (phase = "exited" \/ command.pc = "asks")
=============================================================================
