------------------------------- MODULE Worker -------------------------------
(***************************************************************************)
(* One worker thread of the Crow server: an asio io_context that runs one  *)
(* handler at a time in the order they became ready, the task_timer of the *)
(* worker, and the HTTP connections dispatched to it                       *)
(* (crow/http_connection.h, crow/task_timer.h, the worker loop of          *)
(* crow/http_server.h).                                                    *)
(*                                                                         *)
(* Three other parties act between two handlers: the acceptor thread posts *)
(* Connection::start (Accept), the peer's bytes complete an outstanding    *)
(* read (Arrive), and the clock moves (Advance).                           *)
(***************************************************************************)
EXTENDS TaskTimer, Sequences, FiniteSets

CONSTANTS Conns,      \* Connection objects, each used for one TCP connection
          MaxReads    \* bound: reads of a connection that it survives

ASSUME WorkerAssumption == IsFiniteSet(Conns) /\ MaxReads \in Nat

TICK == "tick"        \* the handler of the timer, among the ready handlers

(* What a completed read brings, as far as the control flow of do_read and *)
(* handle tells reads apart:                                               *)
(*   "request"  completes a request on a connection to be kept             *)
(*   "final"    completes a request after which close_connection_ is set   *)
(*   "lost"     completes a request whose peer has vanished: asking the    *)
(*              socket for its remote endpoint throws                      *)
(*   "partial"  bytes that do not complete a request                       *)
(*   "error"    end of file, reset, or bytes the parser refuses            *)
(*   "aborted"  the socket was closed under the read                       *)
Requests   == {"request", "final", "lost"}
PeerReads  == Requests \cup {"partial", "error"}
Results    == PeerReads \cup {"aborted"}

VARIABLES
    table,    \* the task_timer
    tick,     \* "armed": async_wait outstanding; "due": its handler is ready
    queue,    \* ready handlers of the io_context, first in first out
    phase,    \* per connection: where its life stands (see Phases)
    open,     \* per connection: adaptor_.is_open()
    taskId,   \* per connection: task_id_
    result,   \* per connection: outcome of the completed read
    reads,    \* per connection: reads it survived (bounded by MaxReads)
    fired     \* history: connections whose deadline task has run

vars == <<table, tick, queue, phase, open, taskId, result, reads, fired>>

(* "absent"  not accepted yet                                              *)
(* "posted"  p->start() is among the ready handlers                        *)
(* "reading" async_read_some is outstanding                                *)
(* "ready"   the read completed and its handler is ready                   *)
(* "gone"    the last shared_ptr was released                              *)
Phases == {"absent", "posted", "reading", "ready", "gone"}

Init ==
    /\ table = EmptyTable
    /\ tick = "armed"
    /\ queue = <<>>
    /\ phase = [c \in Conns |-> "absent"]
    /\ open = [c \in Conns |-> FALSE]
    /\ taskId = [c \in Conns |-> 0]
    /\ result = [c \in Conns |-> "aborted"]
    /\ reads = [c \in Conns |-> 0]
    /\ fired = {}

-----------------------------------------------------------------------------
(* The environment of the worker thread.                                   *)

(* The acceptor thread accepted a connection for this worker and posts the *)
(* call of start().                                                        *)
Accept(c) ==
    /\ phase[c] = "absent"
    /\ phase' = [phase EXCEPT ![c] = "posted"]
    /\ open' = [open EXCEPT ![c] = TRUE]
    /\ queue' = Append(queue, c)
    /\ UNCHANGED <<table, tick, taskId, result, reads, fired>>

(* The outstanding read completes with what the peer did. *)
Arrive(c, r) ==
    /\ phase[c] = "reading"
    /\ open[c]
    /\ r \in {"request", "partial"} => reads[c] < MaxReads
    /\ phase' = [phase EXCEPT ![c] = "ready"]
    /\ result' = [result EXCEPT ![c] = r]
    /\ queue' = Append(queue, c)
    /\ UNCHANGED <<table, tick, open, taskId, reads, fired>>

(* A tick length passes; the timer, if it was waiting, expires. *)
Advance ==
    /\ table' = Elapse(table)
    /\ tick' = "due"
    /\ queue' = IF tick = "armed" THEN Append(queue, TICK) ELSE queue
    /\ table' # table \/ tick = "armed"
    /\ UNCHANGED <<phase, open, taskId, result, reads, fired>>

-----------------------------------------------------------------------------
(* The handlers.  Each runs to completion on the worker thread.            *)

(* The handler at the head of the ready queue is h, and it is taken. *)
Run(h) ==
    /\ queue # <<>>
    /\ Head(queue) = h

(* Mutant of StartDeadline: the previous task is not cancelled. *)
StartSecondDeadline(c) ==
    /\ table' = Schedule(table, c)
    /\ taskId' = [taskId EXCEPT ![c] = NextId(table)]

(* start_deadline(): cancel the previous task, register a new one. *)
StartDeadline(c) ==
    LET clean == Cancel(table, taskId[c]) IN
    /\ table' = Schedule(clean, c)
    /\ taskId' = [taskId EXCEPT ![c] = NextId(clean)]

(* do_read(): the connection waits for the next bytes. *)
ReadAgain(c) ==
    /\ StartDeadline(c)
    /\ phase' = [phase EXCEPT ![c] = "reading"]

(* Mutant of Release: the deadline stays registered. *)
ReleaseUncancelled(c) ==
    /\ phase' = [phase EXCEPT ![c] = "gone"]
    /\ open' = [open EXCEPT ![c] = FALSE]
    /\ UNCHANGED <<table, taskId>>

(* The handler ends and held the last shared_ptr: the destructor closes the *)
(* socket.  Every path that leads here called cancel_deadline_timer().      *)
Release(c) ==
    /\ table' = Cancel(table, taskId[c])
    /\ phase' = [phase EXCEPT ![c] = "gone"]
    /\ open' = [open EXCEPT ![c] = FALSE]
    /\ UNCHANGED taskId

(* Connection::start *)
RunStart(c) ==
    /\ Run(c)
    /\ phase[c] = "posted"
    /\ ReadAgain(c)
    /\ queue' = Tail(queue)
    /\ UNCHANGED <<tick, open, result, reads, fired>>

(* A read whose connection goes on.  For a request, handle() cancels the   *)
(* deadline, the response is written by this handler, and the deadline     *)
(* starts again; after a partial read it starts again at once.             *)
RunReadOn(c) ==
    /\ Run(c)
    /\ phase[c] = "ready"
    /\ result[c] \in {"request", "partial"}
    /\ open[c]
    /\ ReadAgain(c)
    /\ queue' = Tail(queue)
    /\ reads' = [reads EXCEPT ![c] = @ + 1]
    /\ UNCHANGED <<tick, open, result, fired>>

(* A read that ends its connection: a failed or aborted read; the last     *)
(* request of a connection; a request whose handle() throws, either since  *)
(* the peer vanished or since a tick closed the socket while this handler  *)
(* was ready; a partial read with the socket closed meanwhile.             *)
RunReadEnd(c) ==
    /\ Run(c)
    /\ phase[c] = "ready"
    /\ result[c] \in {"request", "partial"} => ~open[c]
    /\ Release(c)
    /\ queue' = Tail(queue)
    /\ UNCHANGED <<tick, result, reads, fired>>

(* The connections whose deadline a tick finds expired. *)
Overdue == {table.tasks[i].owner : i \in Expired(table)}

(* Mutant of AbortOrders: closing the socket completes no read. *)
NoAborts == {<<>>}

(* Closing a socket under an outstanding read makes the read's handler     *)
(* ready.  process_tasks walks tasks_ in the order of the identifiers.     *)
AbortOrders ==
    LET aborted == {c \in Overdue : open[c] /\ phase[c] = "reading"} IN
    {s \in [1..Cardinality(aborted) -> aborted] :
        \A i, j \in DOMAIN s : i < j => taskId[s[i]] < taskId[s[j]]}

(* tick_handler: the expired tasks shut their sockets and are erased, then *)
(* the timer is armed again.                                               *)
RunTick ==
    /\ Run(TICK)
    /\ table' = ProcessTasks(table)
    /\ tick' = "armed"
    /\ open' = [c \in Conns |-> open[c] /\ c \notin Overdue]
    /\ fired' = fired \cup Overdue
    /\ \E aborts \in AbortOrders :
        /\ queue' = Tail(queue) \o aborts
        /\ phase' = [c \in Conns |->
                       IF c \in Range(aborts) THEN "ready" ELSE phase[c]]
        /\ result' = [c \in Conns |->
                       IF c \in Range(aborts) THEN "aborted" ELSE result[c]]
    /\ UNCHANGED <<taskId, reads>>

Worker == RunTick \/ \E c \in Conns : RunStart(c) \/ RunReadOn(c) \/ RunReadEnd(c)

Next ==
    \/ Worker
    \/ Advance
    \/ \E c \in Conns : Accept(c) \/ \E r \in PeerReads : Arrive(c, r)

Spec == Init /\ [][Next]_vars

(* The operating system schedules the worker thread and the clock does not *)
(* stop.  Nothing is assumed of the peers or of the acceptor.              *)
Fairness == WF_vars(Worker) /\ WF_vars(Advance)

FairSpec == Spec /\ Fairness

-----------------------------------------------------------------------------
Deadlines == [owner : Conns, left : -1..Timeout]

IsTable(t) ==
    /\ t.tasks \in [DOMAIN t.tasks -> Deadlines]
    /\ DOMAIN t.tasks \subseteq Nat \ {0}
    /\ t.highest \in Nat

TypeOK ==
    /\ IsTable(table)
    /\ tick \in {"armed", "due"}
    /\ queue \in Seq(Conns \cup {TICK})
    /\ phase \in [Conns -> Phases]
    /\ open \in [Conns -> BOOLEAN]
    /\ taskId \in [Conns -> Nat]
    /\ result \in [Conns -> Results]
    /\ reads \in [Conns -> 0..MaxReads]
    /\ fired \subseteq Conns

Registered(c) == \E i \in DOMAIN table.tasks : table.tasks[i].owner = c

(* A connection waits for its peer with nothing that would ever end the wait. *)
Stranded(c) == phase[c] = "reading" /\ open[c] /\ ~Registered(c)

(* A registered deadline is known to its owner under the identifier it is   *)
(* registered with, so the owner can cancel it and has no second one; the   *)
(* identifier was issued and is not issued again while it is registered.    *)
DeadlineIsKnown ==
    \A i \in DOMAIN table.tasks :
        /\ taskId[table.tasks[i].owner] = i
        /\ i <= table.highest

(* The table holds a shared_ptr of each owner.  It never outlives the read  *)
(* cycle: no deadline keeps a finished connection (and its count in the     *)
(* queue length) alive, and none fires on a socket that is closed already.  *)
DeadlineOfOpenConn ==
    \A i \in DOMAIN table.tasks :
        LET c == table.tasks[i].owner IN phase[c] \in {"reading", "ready"} /\ open[c]

(* Until some deadline fires, every connection that waits for its peer has  *)
(* its deadline: the identifiers are unique as long as they are not reset   *)
(* under a connection that still remembers one.                             *)
GuardedUntilTimeout ==
    fired = {} => \A c \in Conns : phase[c] \in {"reading", "ready"} => Registered(c)

(* The abstract view of a worker: what its connections see of it.          *)
StateOf(c) ==
    IF phase[c] \in {"reading", "ready"}
    THEN IF open[c] THEN "served" ELSE "timedOut"
    ELSE IF phase[c] = "posted" THEN "accepted" ELSE phase[c]

Watched == {c \in Conns : taskId[c] \in DOMAIN table.tasks
                             /\ table.tasks[taskId[c]].owner = c}

Abstract == INSTANCE IdleTimeout WITH
                state <- [c \in Conns |-> StateOf(c)],
                left  <- [c \in Watched |-> table.tasks[taskId[c]].left]

(* Seen by its connections, the worker is the timeout service of module     *)
(* IdleTimeout: whatever identifiers are reused and whatever is ready when  *)
(* the tick comes, a deadline fires for its own connection, not before its  *)
(* time, and only a stale cancel after a timeout ever takes one away.      *)
IsIdleTimeout == Abstract!Spec

(* Every socket closed by its deadline is followed by the release of the    *)
(* connection: the aborted read always reaches the worker.                  *)
FiredIsReleased == \A c \in Conns : (c \in fired) ~> (phase[c] = "gone")

(* Once accepted, a connection ends or is stranded: no other way to hang.   *)
EndsOrStrands ==
    \A c \in Conns : (phase[c] = "posted") ~> (phase[c] = "gone" \/ Stranded(c))

(* app.h: "Set the connection timeout in seconds (default is 5)": whatever  *)
(* the other connections do, a connection whose peer stays silent is ended. *)
IdleIsEnded ==
    \A c \in Conns : (phase[c] = "reading") ~> (phase[c] # "reading")
=============================================================================
