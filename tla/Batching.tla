------------------------------ MODULE Batching ------------------------------
(***************************************************************************)
(* WebSocket sends, batched: the binary sends of one turn wait and go out  *)
(* as one message from a microtask.  A text send and close() send what     *)
(* waits first.  The receiver reads a byte stream, so a socket's messages  *)
(* are what they carry, one after the other.                               *)
(***************************************************************************)
EXTENDS Naturals, Sequences

CONSTANTS
    Sockets,
    Chunks,         \* what a send may carry
    MaxWrites       \* bound on the sends over one socket

\* What the constants have to be; the modules that compose this one assume it.
BatchingConstants == MaxWrites \in Nat

VARIABLES
    waiting,        \* the parts of each socket that wait for the end of the turn
    tasks,          \* the microtasks to come, each a flush of a socket
    closed,         \* sockets natively closed
    out,            \* what each socket carried
    written         \* history: what the callers sent

batchVars == <<waiting, tasks, closed, out, written>>

BatchTypeOK ==
    /\ waiting \in [Sockets -> Seq(Chunks)] /\ tasks \in Seq(Sockets)
    /\ closed \subseteq Sockets
    /\ out \in [Sockets -> Seq(Chunks)] /\ written \in [Sockets -> Seq(Chunks)]

BatchInit ==
    /\ waiting = [ws \in Sockets |-> <<>>] /\ tasks = <<>> /\ closed = {}
    /\ out = [ws \in Sockets |-> <<>>] /\ written = [ws \in Sockets |-> <<>>]

\* The native send, which a closed socket drops.
nativeSend(ws, parts) ==
    out' = IF ws \in closed THEN out ELSE [out EXCEPT ![ws] = @ \o parts]

\* flush: what waits goes out, and what follows it.
flush(ws, next) ==
    /\ nativeSend(ws, waiting[ws] \o next)
    /\ waiting' = [waiting EXCEPT ![ws] = <<>>]

\* A caller writes to a socket it has not closed.
Writes(ws, c) ==
    /\ ws \notin closed /\ Len(written[ws]) < MaxWrites
    /\ written' = [written EXCEPT ![ws] = Append(@, c)]

\* The first part of a socket asks for a flush at the end of the turn.
SendBinary(ws, c) ==
    /\ Writes(ws, c)
    /\ tasks' = IF waiting[ws] = <<>> THEN Append(tasks, ws) ELSE tasks
    /\ waiting' = [waiting EXCEPT ![ws] = Append(@, c)]
    /\ UNCHANGED <<closed, out>>

\* Mutant: a text goes out at once, before what waits.
SendText_Overtakes(ws, c) ==
    Writes(ws, c) /\ nativeSend(ws, <<c>>) /\ UNCHANGED <<waiting, tasks, closed>>

SendText(ws, c) ==
    /\ Writes(ws, c) /\ flush(ws, <<c>>)
    /\ UNCHANGED <<tasks, closed>>

Close(ws) ==
    /\ ws \notin closed /\ flush(ws, <<>>)
    /\ closed' = closed \cup {ws}
    /\ UNCHANGED <<tasks, written>>

\* The turn ends: its microtasks run in order.
Microtask ==
    /\ tasks # <<>>
    /\ flush(Head(tasks), <<>>) /\ tasks' = Tail(tasks)
    /\ UNCHANGED <<closed, written>>

BatchNext ==
    \/ Microtask
    \/ \E ws \in Sockets :
         \/ \E c \in Chunks : SendBinary(ws, c) \/ SendText(ws, c)
         \/ Close(ws)

BatchSpec == BatchInit /\ [][BatchNext]_batchVars

\* What a socket carried, followed by what waits, is what was sent over it, in order: nothing
\* is lost, doubled or overtaken, by a text or a close in the same turn either
\* (websocket-batching.ts:9-11).
Ordered == \A ws \in Sockets : out[ws] \o waiting[ws] = written[ws]

\* Nothing waits without a flush to come.
Scheduled == \A ws \in Sockets : waiting[ws] # <<>> => \E i \in 1 .. Len(tasks) : tasks[i] = ws

\* The stream of each socket: in order, and never left waiting once the turn has ended.
StreamIsKept == Ordered /\ Scheduled
=============================================================================
