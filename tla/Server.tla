------------------------------- MODULE Server -------------------------------
(***************************************************************************)
(* The server around the workers (crow/http_server.h): run() starts the    *)
(* worker threads and waits for them, the acceptor creates one Connection  *)
(* ahead for the worker with the shortest queue and hands the accepted     *)
(* connection over, stop() ends the io_contexts, and run() returns when    *)
(* every thread was joined.                                                *)
(*                                                                         *)
(* What a worker does with a connection is the subject of module Worker;   *)
(* here a connection is handled for a while and then released.  A handler  *)
(* may also block for good: responses are written with a synchronous       *)
(* asio::write, which waits for a peer that does not read.                 *)
(***************************************************************************)
EXTENDS Naturals, FiniteSets

CONSTANTS N,        \* worker threads: concurrency_ - 1
          Conns     \* Connection objects; a released one stands for a new one

ASSUME ServerAssumption == N \in Nat \ {0} /\ IsFiniteSet(Conns)

Workers == 0 .. N - 1

None == N           \* no worker

VARIABLES
    main,      \* what the thread of run() and of the acceptor does
    worker,    \* per worker: what its thread does
    initCount, \* init_count
    qlen,      \* task_queue_length_pool_
    minIdx,    \* min_queue_idx of pick_io_context_idx
    idx,       \* its loop variable i, and k of the loop of stop()
    operand,   \* the operand of its comparison that was read first
    atScan,    \* history: the queue lengths when the scan began
    conn,      \* per Connection object: its state
    home,      \* per Connection object: the worker it was created for
    stopped    \* the io_contexts of workers that were stopped

scan == <<minIdx, idx, operand, atScan>>
vars == <<main, worker, initCount, qlen, scan, conn, home, stopped>>

(* "fresh" no object; "pending" the object async_accept will fill;         *)
(* "failed" the accept failed, its handler still holds the object;         *)
(* "posted" start() is posted to the worker; "live" start() has run.       *)
ConnStates == {"fresh", "pending", "failed", "posted", "live"}

(* "reset" and "count": the two stores of the initialisation; "serving";   *)
(* "stuck" in a write that never ends; "exited".                           *)
WorkerStates == {"reset", "count", "serving", "stuck", "exited"}

MainStates == {"barrier", "accept", "cond", "first", "second", "create",
               "ending", "waiting", "stopping", "joining", "returned"}

NoOperand == [of |-> "none", value |-> 0]

Init ==
    /\ main = "barrier"
    /\ worker = [w \in Workers |-> "reset"]
    /\ initCount = 0
    /\ qlen = [w \in Workers |-> 0]
    /\ minIdx = 0 /\ idx = 0 /\ operand = NoOperand
    /\ atScan = [w \in Workers |-> 0]
    /\ conn = [c \in Conns |-> "fresh"]
    /\ home = [c \in Conns |-> None]
    /\ stopped = {}

-----------------------------------------------------------------------------
(* Worker threads.                                                         *)

ResetQueueLength(w) ==
    /\ worker[w] = "reset"
    /\ qlen' = [qlen EXCEPT ![w] = 0]
    /\ worker' = [worker EXCEPT ![w] = "count"]
    /\ UNCHANGED <<main, initCount, scan, conn, home, stopped>>

CountInit(w) ==
    /\ worker[w] = "count"
    /\ initCount' = initCount + 1
    /\ worker' = [worker EXCEPT ![w] = "serving"]
    /\ UNCHANGED <<main, qlen, scan, conn, home, stopped>>

Serves(w) == worker[w] = "serving" /\ w \notin stopped

(* The posted lambda calls start(). *)
StartConn(c) ==
    /\ conn[c] = "posted"
    /\ Serves(home[c])
    /\ conn' = [conn EXCEPT ![c] = "live"]
    /\ UNCHANGED <<main, worker, initCount, qlen, scan, home, stopped>>

(* ~Connection: the last reference is dropped by a handler of the worker. *)
Destroyed(c) ==
    /\ conn' = [conn EXCEPT ![c] = "fresh"]
    /\ home' = [home EXCEPT ![c] = None]
    /\ qlen' = [qlen EXCEPT ![home[c]] = @ - 1]

(* Mutant of FinishConn: the count is decremented and the object kept. *)
FinishConnTwice(c) ==
    /\ conn[c] = "live"
    /\ Serves(home[c])
    /\ qlen' = [qlen EXCEPT ![home[c]] = @ - 1]
    /\ UNCHANGED <<main, worker, initCount, scan, conn, home, stopped>>

FinishConn(c) ==
    /\ conn[c] = "live"
    /\ Serves(home[c])
    /\ Destroyed(c)
    /\ UNCHANGED <<main, worker, initCount, scan, stopped>>

(* A response is written to a peer that stops reading. *)
BlockInWrite(c) ==
    /\ conn[c] = "live"
    /\ Serves(home[c])
    /\ worker' = [worker EXCEPT ![home[c]] = "stuck"]
    /\ UNCHANGED <<main, initCount, qlen, scan, conn, home, stopped>>

(* run() of a stopped io_context returns; called again it returns 0. *)
ExitWorker(w) ==
    /\ worker[w] = "serving"
    /\ w \in stopped
    /\ worker' = [worker EXCEPT ![w] = "exited"]
    /\ UNCHANGED <<main, initCount, qlen, scan, conn, home, stopped>>

-----------------------------------------------------------------------------
(* The thread of run() and, after the barrier, of the acceptor.            *)

(* Mutant of PassBarrier: the first worker opens the barrier. *)
PassBarrierEarly ==
    /\ main = "barrier"
    /\ initCount >= 1
    /\ main' = "accept"
    /\ UNCHANGED <<worker, initCount, qlen, scan, conn, home, stopped>>

(* while (worker_thread_count != init_count) yield *)
PassBarrier ==
    /\ main = "barrier"
    /\ initCount = N
    /\ main' = "accept"
    /\ UNCHANGED <<worker, initCount, qlen, scan, conn, home, stopped>>

(* do_accept() enters pick_io_context_idx(). *)
BeginPick ==
    /\ main = "accept"
    /\ main' = "cond"
    /\ minIdx' = 0 /\ idx' = 1 /\ operand' = NoOperand
    /\ atScan' = qlen
    /\ UNCHANGED <<worker, initCount, qlen, conn, home, stopped>>

(* The loop condition reads the length of the best worker so far. *)
CheckLoop ==
    /\ main = "cond"
    /\ main' = IF idx < N /\ qlen[minIdx] > 0 THEN "first" ELSE "create"
    /\ UNCHANGED <<worker, initCount, qlen, scan, conn, home, stopped>>

(* The comparison reads two atomics, in either order. *)
ReadFirst ==
    /\ main = "first"
    /\ main' = "second"
    /\ \/ operand' = [of |-> "candidate", value |-> qlen[idx]]
       \/ operand' = [of |-> "best", value |-> qlen[minIdx]]
    /\ UNCHANGED <<worker, initCount, qlen, minIdx, idx, atScan, conn, home, stopped>>

(* Mutant of CandidateIsShorter: the comparison is inverted. *)
CandidateIsLonger ==
    IF operand.of = "candidate" THEN operand.value > qlen[minIdx]
                                ELSE qlen[idx] > operand.value

CandidateIsShorter ==
    IF operand.of = "candidate" THEN operand.value < qlen[minIdx]
                                ELSE qlen[idx] < operand.value

ReadSecond ==
    /\ main = "second"
    /\ main' = "cond"
    /\ minIdx' = IF CandidateIsShorter THEN idx ELSE minIdx
    /\ idx' = idx + 1
    /\ operand' = NoOperand
    /\ UNCHANGED <<worker, initCount, qlen, atScan, conn, home, stopped>>

(* The Connection for the next client is created and async_accept begins. *)
CreateConn(c) ==
    /\ main = "create"
    /\ conn[c] = "fresh"
    /\ main' = "ending"
    /\ conn' = [conn EXCEPT ![c] = "pending"]
    /\ home' = [home EXCEPT ![c] = minIdx]
    /\ qlen' = [qlen EXCEPT ![minIdx] = @ + 1]
    /\ UNCHANGED <<worker, initCount, scan, stopped>>

(* Mutant of EndAcceptHandler: a failed accept is not uncounted. *)
EndAcceptHandlerLeaking ==
    /\ main = "ending"
    /\ main' = "waiting"
    /\ conn' = [c \in Conns |-> IF conn[c] = "failed" THEN "fresh" ELSE conn[c]]
    /\ home' = [c \in Conns |-> IF conn[c] = "failed" THEN None ELSE home[c]]
    /\ UNCHANGED <<worker, initCount, qlen, scan, stopped>>

(* The handler of the previous accept ends only now: a connection whose     *)
(* accept failed was counted during the scan and is destroyed with it.     *)
EndAcceptHandler ==
    /\ main = "ending"
    /\ main' = "waiting"
    /\ IF \E c \in Conns : conn[c] = "failed"
       THEN \E c \in Conns : conn[c] = "failed" /\ Destroyed(c)
       ELSE UNCHANGED <<conn, home, qlen>>
    /\ UNCHANGED <<worker, initCount, scan, stopped>>

(* The accept handler: a client connected, or the accept failed; either way *)
(* it goes on with do_accept().                                            *)
Accepted(c, outcome) ==
    /\ main = "waiting"
    /\ conn[c] = "pending"
    /\ conn' = [conn EXCEPT ![c] = outcome]
    /\ main' = "accept"
    /\ UNCHANGED <<worker, initCount, qlen, scan, home, stopped>>

(* SIGINT or SIGTERM: the handler runs stop(), which first sets            *)
(* shutting_down_ and closes the acceptor.                                 *)
Signal ==
    /\ main = "waiting"
    /\ main' = "stopping"
    /\ idx' = 0
    /\ UNCHANGED <<worker, initCount, qlen, minIdx, operand, atScan, conn, home, stopped>>

(* Mutant of StopNext: the last context of the pool is not stopped. *)
StopAllButLast ==
    /\ main = "stopping"
    /\ IF idx + 1 < N
       THEN stopped' = stopped \cup {idx} /\ idx' = idx + 1 /\ UNCHANGED main
       ELSE main' = "joining" /\ UNCHANGED <<stopped, idx>>
    /\ UNCHANGED <<worker, initCount, qlen, minIdx, operand, atScan, conn, home>>

(* The loop of stop() over io_context_pool_, then io_context_.stop(). *)
StopNext ==
    /\ main = "stopping"
    /\ IF idx < N
       THEN stopped' = stopped \cup {idx} /\ idx' = idx + 1 /\ UNCHANGED main
       ELSE main' = "joining" /\ UNCHANGED <<stopped, idx>>
    /\ UNCHANGED <<worker, initCount, qlen, minIdx, operand, atScan, conn, home>>

(* The futures of the worker threads are destroyed: run() waits for each. *)
Return ==
    /\ main = "joining"
    /\ \A w \in Workers : worker[w] = "exited"
    /\ main' = "returned"
    /\ UNCHANGED <<worker, initCount, qlen, scan, conn, home, stopped>>

Acceptor ==
    \/ PassBarrier \/ BeginPick \/ CheckLoop \/ ReadFirst \/ ReadSecond
    \/ (\E c \in Conns : CreateConn(c)) \/ EndAcceptHandler
    \/ StopNext \/ Return

WorkerThread(w) ==
    \/ ResetQueueLength(w) \/ CountInit(w) \/ ExitWorker(w)
    \/ \E c \in Conns : home[c] = w /\ StartConn(c)

Next ==
    \/ Acceptor
    \/ \E w \in Workers : WorkerThread(w)
    \/ \E c \in Conns : FinishConn(c) \/ BlockInWrite(c)
                        \/ \E o \in {"posted", "failed"} : Accepted(c, o)
    \/ Signal

Spec == Init /\ [][Next]_vars

(* Threads are scheduled: each goes on with its next instruction.  Of the  *)
(* handlers in the queues nothing is assumed.                              *)
Fairness ==
    /\ WF_vars(Acceptor)
    /\ \A w \in Workers : WF_vars(ResetQueueLength(w)) /\ WF_vars(CountInit(w))
                          /\ WF_vars(ExitWorker(w))

FairSpec == Spec /\ Fairness

-----------------------------------------------------------------------------
TypeOK ==
    /\ main \in MainStates
    /\ worker \in [Workers -> WorkerStates]
    /\ initCount \in 0..N
    /\ qlen \in [Workers -> Nat]
    /\ minIdx \in Workers
    /\ idx \in 0..N
    /\ operand \in [of : {"none", "candidate", "best"}, value : Nat]
    /\ atScan \in [Workers -> Nat]
    /\ conn \in [Conns -> ConnStates]
    /\ home \in [Conns -> Workers \cup {None}]
    /\ stopped \subseteq Workers

(* The atomic that pick_io_context_idx compares is the number of Connection *)
(* objects of the worker: none is lost by the workers' initialisation, by a *)
(* failed accept or by connections released while the acceptor scans.      *)
QueueLengthExact ==
    \A w \in Workers : qlen[w] = Cardinality({c \in Conns : home[c] = w})

(* A connection is created only for a worker that has published its task    *)
(* timer and its date function: the barrier of run() works.                *)
ReadyBeforeUse ==
    \A c \in Conns : home[c] # None => worker[home[c]] \notin {"reset", "count"}

(* "No need to check other io_services if the current one has no tasks":    *)
(* although the lengths change under the scan and the scan stops early, the *)
(* worker it settles on has no more connections than any had at the start. *)
PickIsLeastLoaded ==
    main = "create" => \A w \in Workers : qlen[minIdx] <= atScan[w]

(* A signal ends run(), unless a worker is blocked in a synchronous write.  *)
StopReturns ==
    main = "stopping" ~> (main = "returned" \/ \E w \in Workers : worker[w] = "stuck")
=============================================================================
