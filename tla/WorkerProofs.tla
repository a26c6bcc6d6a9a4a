---------------------------- MODULE WorkerProofs ----------------------------
(***************************************************************************)
(* The safety invariants of Worker, for any number of connections, any     *)
(* timeout and any number of reads.  None of them is inductive alone: they *)
(* are proved together as the conjunction IInv.  Then that a worker        *)
(* implements the timeout service of module IdleTimeout: every handler     *)
(* maps to one step of the service, reads that complete to stuttering.     *)
(***************************************************************************)
EXTENDS Worker, FiniteSetTheorems, TLAPS

-----------------------------------------------------------------------------
(* What the operations of the deadline table do.                           *)

LEMMA CancelFacts ==
    ASSUME NEW t, IsTable(t), NEW id
    PROVE  /\ IsTable(Cancel(t, id))
           /\ DOMAIN Cancel(t, id).tasks = DOMAIN t.tasks \ {id}
           /\ \A i \in DOMAIN t.tasks \ {id} : Cancel(t, id).tasks[i] = t.tasks[i]
           /\ Cancel(t, id).highest = t.highest
  BY DEF IsTable, Cancel, Restrict

LEMMA ScheduleFacts ==
    ASSUME NEW t, IsTable(t), NEW c \in Conns, NextId(t) \notin DOMAIN t.tasks
    PROVE  /\ IsTable(Schedule(t, c))
           /\ DOMAIN Schedule(t, c).tasks = DOMAIN t.tasks \cup {NextId(t)}
           /\ \A i \in DOMAIN t.tasks : Schedule(t, c).tasks[i] = t.tasks[i]
           /\ Schedule(t, c).tasks[NextId(t)] = [owner |-> c, left |-> Timeout]
           /\ Schedule(t, c).highest = NextId(t)
  BY TimeoutAssumption DEF IsTable, Schedule, NextId, Deadlines

LEMMA ProcessTasksFacts ==
    ASSUME NEW t, IsTable(t)
    PROVE  /\ IsTable(ProcessTasks(t))
           /\ DOMAIN ProcessTasks(t).tasks = DOMAIN t.tasks \ Expired(t)
           /\ \A i \in DOMAIN t.tasks \ Expired(t) :
                 ProcessTasks(t).tasks[i] = t.tasks[i]
           /\ DOMAIN ProcessTasks(t).tasks # {} => ProcessTasks(t).highest = t.highest
  BY DEF IsTable, ProcessTasks, Restrict, Expired

LEMMA ElapseFacts ==
    ASSUME NEW t, IsTable(t)
    PROVE  /\ IsTable(Elapse(t))
           /\ DOMAIN Elapse(t).tasks = DOMAIN t.tasks
           /\ \A i \in DOMAIN t.tasks : Elapse(t).tasks[i].owner = t.tasks[i].owner
           /\ Elapse(t).highest = t.highest
  BY TimeoutAssumption DEF IsTable, Elapse, Deadlines

-----------------------------------------------------------------------------
(* The inductive invariant.                                                *)

(* A connection that was not started yet has no identifier. *)
NoEarlyId == \A c \in Conns : phase[c] \in {"absent", "posted"} => taskId[c] = 0

(* Only a tick or the connection itself closes a socket, and neither does   *)
(* before the connection has started.                                      *)
PostedIsOpen == \A c \in Conns : phase[c] = "posted" => open[c]

(* A read that the connection is to survive was within the bound. *)
ReadsBounded ==
    \A c \in Conns :
        phase[c] = "ready" /\ result[c] \in {"request", "partial"} => reads[c] < MaxReads

IInv ==
    /\ TypeOK
    /\ DeadlineIsKnown
    /\ DeadlineOfOpenConn
    /\ GuardedUntilTimeout
    /\ NoEarlyId
    /\ PostedIsOpen
    /\ ReadsBounded

(* A connection that restarts its deadline replaces the entry of its own   *)
(* identifier, and the new identifier is in nobody's use.                  *)
LEMMA RestartFacts ==
    ASSUME IInv, NEW c \in Conns, StartDeadline(c)
    PROVE  /\ IsTable(table')
           /\ table.highest + 1 \in Nat
           /\ DOMAIN table'.tasks = (DOMAIN table.tasks \ {taskId[c]}) \cup {table.highest + 1}
           /\ table'.tasks[table.highest + 1] = [owner |-> c, left |-> Timeout]
           /\ \A i \in DOMAIN table.tasks \ {taskId[c]} :
                 table'.tasks[i] = table.tasks[i] /\ i # table.highest + 1
           /\ table'.highest = table.highest + 1
           /\ taskId' = [taskId EXCEPT ![c] = table.highest + 1]
<1> DEFINE clean == Cancel(table, taskId[c])
<1>1. IsTable(table) /\ \A i \in DOMAIN table.tasks : i \in Nat /\ i <= table.highest
  BY DEF IInv, TypeOK, IsTable, DeadlineIsKnown
<1>2. /\ IsTable(clean)
      /\ DOMAIN clean.tasks = DOMAIN table.tasks \ {taskId[c]}
      /\ \A i \in DOMAIN table.tasks \ {taskId[c]} : clean.tasks[i] = table.tasks[i]
      /\ clean.highest = table.highest
  BY <1>1, CancelFacts
<1>3. NextId(clean) = table.highest + 1 /\ table.highest \in Nat
  BY <1>1, <1>2 DEF NextId, IsTable
<1>4. \A i \in DOMAIN table.tasks : i # table.highest + 1
  BY <1>1, <1>3
<1>5. NextId(clean) \notin DOMAIN clean.tasks
  BY <1>2, <1>3, <1>4
<1>6. /\ table' = Schedule(clean, c)
      /\ taskId' = [taskId EXCEPT ![c] = NextId(clean)]
  BY DEF StartDeadline
<1> HIDE DEF clean
<1>7. /\ IsTable(Schedule(clean, c))
      /\ DOMAIN Schedule(clean, c).tasks = DOMAIN clean.tasks \cup {NextId(clean)}
      /\ \A i \in DOMAIN clean.tasks : Schedule(clean, c).tasks[i] = clean.tasks[i]
      /\ Schedule(clean, c).tasks[NextId(clean)] = [owner |-> c, left |-> Timeout]
      /\ Schedule(clean, c).highest = NextId(clean)
  BY <1>2, <1>5, ScheduleFacts
<1> QED
  BY <1>2, <1>3, <1>4, <1>6, <1>7

(* Until a deadline fires, connections in their read cycle have identifiers *)
(* of their own.                                                           *)
LEMMA DistinctIds ==
    ASSUME IInv, fired = {}, NEW c \in Conns, NEW d \in Conns, c # d,
           phase[d] \in {"reading", "ready"},
           phase[c] \in {"posted", "reading", "ready"},
           NEW i \in DOMAIN table.tasks, table.tasks[i].owner = d
    PROVE  taskId[c] # i
<1>1. taskId[d] = i /\ i # 0
  BY DEF IInv, DeadlineIsKnown, TypeOK, IsTable
<1>2. CASE phase[c] = "posted"
  BY <1>1, <1>2 DEF IInv, NoEarlyId
<1>3. CASE phase[c] \in {"reading", "ready"}
  <2>1. PICK j \in DOMAIN table.tasks : table.tasks[j].owner = c
    BY <1>3 DEF IInv, GuardedUntilTimeout, Registered
  <2>2. taskId[c] = j
    BY <2>1 DEF IInv, DeadlineIsKnown
  <2> QED
    BY <2>1, <2>2
<1> QED
  BY <1>2, <1>3

(* The handlers that aborted reads make ready are handlers of connections  *)
(* that were reading and whose deadline has expired.                       *)
LEMMA AbortFacts ==
    ASSUME TypeOK, NEW aborts \in AbortOrders
    PROVE  /\ aborts \in Seq(Conns)
           /\ \A c \in Range(aborts) : c \in Overdue /\ phase[c] = "reading"
<1> DEFINE aborted == {c \in Overdue : open[c] /\ phase[c] = "reading"}
<1>1. aborted \subseteq Conns
  BY DEF TypeOK, IsTable, Deadlines, Overdue, Expired
<1>2. IsFiniteSet(aborted)
  BY <1>1, WorkerAssumption, FS_Subset
<1>3. Cardinality(aborted) \in Nat
  BY <1>2, FS_CardinalityType
<1>4. aborts \in [1..Cardinality(aborted) -> aborted]
  BY DEF AbortOrders
<1> HIDE DEF aborted
<1>5. aborts \in Seq(aborted)
  BY <1>3, <1>4
<1>6. \A c \in Range(aborts) : c \in aborted
  BY <1>4 DEF Range
<1> QED
  BY <1>1, <1>5, <1>6 DEF aborted

-----------------------------------------------------------------------------
(* Types.                                                                  *)

LEMMA TypeInit == Init => TypeOK
  BY WorkerAssumption, TimeoutAssumption
  DEF Init, TypeOK, IsTable, EmptyTable, Phases, Results, PeerReads, Requests

(* The ready queue without the handler that is taken from it. *)
LEMMA TailType ==
    ASSUME TypeOK, NEW h, Run(h)
    PROVE  Tail(queue) \in Seq(Conns \cup {TICK})
<1>1. queue \in Seq(Conns \cup {TICK}) /\ queue # <<>>
  BY DEF TypeOK, Run
<1> QED
  BY <1>1

(* A step from a state of the inductive invariant is typed. *)
LEMMA TypeStep == IInv /\ [Next]_vars => TypeOK'
<1> SUFFICES ASSUME IInv, [Next]_vars PROVE TypeOK'
  OBVIOUS
<1> USE DEF Phases
<1>0. TypeOK
  BY DEF IInv
<1>1. ASSUME NEW c \in Conns, Accept(c) PROVE TypeOK'
  BY <1>0, <1>1 DEF Accept, TypeOK
<1>2. ASSUME NEW c \in Conns, NEW r \in PeerReads, Arrive(c, r) PROVE TypeOK'
  BY <1>0, <1>2 DEF Arrive, TypeOK, Results
<1>3. CASE Advance
  <2>1. IsTable(table')
    BY <1>0, <1>3, ElapseFacts DEF Advance, TypeOK
  <2> QED
    BY <1>0, <1>3, <2>1 DEF Advance, TypeOK
<1>4. ASSUME NEW c \in Conns, RunStart(c) PROVE TypeOK'
  <2>1. StartDeadline(c)
    BY <1>4 DEF RunStart, ReadAgain
  <2>2. IsTable(table') /\ taskId' \in [Conns -> Nat]
    BY <1>0, <2>1, RestartFacts DEF TypeOK
  <2> QED
    BY <1>0, <1>4, <2>2, TailType DEF RunStart, ReadAgain, TypeOK
<1>5. ASSUME NEW c \in Conns, RunReadOn(c) PROVE TypeOK'
  <2>1. StartDeadline(c)
    BY <1>5 DEF RunReadOn, ReadAgain
  <2>2. IsTable(table') /\ taskId' \in [Conns -> Nat]
    BY <1>0, <2>1, RestartFacts DEF TypeOK
  <2>3. reads' \in [Conns -> 0..MaxReads]
    BY <1>0, <1>5, WorkerAssumption DEF RunReadOn, TypeOK, IInv, ReadsBounded
  <2> QED
    BY <1>0, <1>5, <2>2, <2>3, TailType DEF RunReadOn, ReadAgain, TypeOK
<1>6. ASSUME NEW c \in Conns, RunReadEnd(c) PROVE TypeOK'
  <2>1. IsTable(table')
    BY <1>0, <1>6, CancelFacts DEF RunReadEnd, Release, TypeOK
  <2> QED
    BY <1>0, <1>6, <2>1, TailType DEF RunReadEnd, Release, TypeOK
<1>7. CASE RunTick
  <2>1. PICK aborts \in AbortOrders :
          /\ queue' = Tail(queue) \o aborts
          /\ phase' = [c \in Conns |-> IF c \in Range(aborts) THEN "ready" ELSE phase[c]]
          /\ result' = [c \in Conns |-> IF c \in Range(aborts) THEN "aborted" ELSE result[c]]
    BY <1>7 DEF RunTick
  <2>2. IsTable(table')
    BY <1>0, <1>7, ProcessTasksFacts DEF RunTick, TypeOK
  <2>3. aborts \in Seq(Conns \cup {TICK})
    BY <1>0, AbortFacts
  <2>4. queue' \in Seq(Conns \cup {TICK})
    <3>1. Tail(queue) \in Seq(Conns \cup {TICK})
      BY <1>0, <1>7, TailType DEF RunTick
    <3> QED
      BY <2>1, <2>3, <3>1
  <2>5. fired' \subseteq Conns
    BY <1>0, <1>7 DEF RunTick, TypeOK, IsTable, Deadlines, Overdue, Expired
  <2>6. phase' \in [Conns -> Phases] /\ result' \in [Conns -> Results]
    BY <1>0, <2>1 DEF TypeOK, Results
  <2> QED
    BY <1>0, <1>7, <2>2, <2>4, <2>5, <2>6 DEF RunTick, TypeOK
<1>8. CASE UNCHANGED vars
  BY <1>0, <1>8 DEF vars, TypeOK, IsTable
<1> QED
  BY <1>1, <1>2, <1>3, <1>4, <1>5, <1>6, <1>7, <1>8 DEF Next, Worker
-----------------------------------------------------------------------------
(* The steps.                                                              *)

LEMMA InvInit == Init => IInv
<1> SUFFICES ASSUME Init PROVE IInv
  OBVIOUS
<1>1. DOMAIN table.tasks = {}
  BY DEF Init, EmptyTable
<1>2. DeadlineIsKnown /\ DeadlineOfOpenConn
  BY <1>1 DEF DeadlineIsKnown, DeadlineOfOpenConn
<1>3. GuardedUntilTimeout /\ NoEarlyId /\ PostedIsOpen /\ ReadsBounded
  BY DEF Init, GuardedUntilTimeout, NoEarlyId, PostedIsOpen, ReadsBounded
<1> QED
  BY <1>2, <1>3, TypeInit DEF IInv

(* Both handlers that go on: the connection restarts its deadline and waits *)
(* with its socket open.                                                   *)
LEMMA ReadAgainStep ==
    ASSUME IInv, TypeOK', NEW c \in Conns, ReadAgain(c), open[c],
           phase[c] \in {"posted", "ready"}, UNCHANGED <<open, fired>>
    PROVE  /\ DeadlineIsKnown' /\ DeadlineOfOpenConn' /\ GuardedUntilTimeout'
           /\ NoEarlyId' /\ PostedIsOpen'
<1> DEFINE new == table.highest + 1
<1>1. StartDeadline(c) /\ phase' = [phase EXCEPT ![c] = "reading"]
  BY DEF ReadAgain
<1>2. /\ DOMAIN table'.tasks = (DOMAIN table.tasks \ {taskId[c]}) \cup {new}
      /\ table'.tasks[new] = [owner |-> c, left |-> Timeout]
      /\ \A i \in DOMAIN table.tasks \ {taskId[c]} :
            table'.tasks[i] = table.tasks[i] /\ i # new
      /\ table'.highest = new
      /\ taskId' = [taskId EXCEPT ![c] = new]
      /\ new \in Nat
  BY <1>1, RestartFacts
<1>3. /\ phase \in [Conns -> Phases] /\ taskId \in [Conns -> Nat]
      /\ \A i \in DOMAIN table.tasks : i \in Nat /\ table.tasks[i].owner \in Conns
      /\ table.highest \in Nat
  BY DEF IInv, TypeOK, IsTable, Deadlines
<1> HIDE DEF new
<1>4. ASSUME NEW i \in DOMAIN table'.tasks
      PROVE  \/ i = new /\ table'.tasks[i].owner = c
             \/ /\ i \in DOMAIN table.tasks /\ i # taskId[c]
                /\ table'.tasks[i] = table.tasks[i] /\ table.tasks[i].owner # c
  <2>1. CASE i = new
    BY <1>2, <2>1
  <2>2. CASE i # new
    BY <1>2, <2>2 DEF IInv, DeadlineIsKnown
  <2> QED
    BY <2>1, <2>2
<1>5. DeadlineIsKnown'
  <2> SUFFICES ASSUME NEW i \in DOMAIN table'.tasks
               PROVE  taskId'[table'.tasks[i].owner] = i /\ i <= table'.highest
    BY DEF DeadlineIsKnown
  <2>1. CASE i = new
    BY <1>2, <1>3, <1>4, <2>1
  <2>2. CASE i # new
    <3>1. i \in DOMAIN table.tasks /\ table'.tasks[i] = table.tasks[i]
          /\ table.tasks[i].owner \in Conns \ {c}
      BY <1>3, <1>4, <2>2
    <3>2. taskId[table.tasks[i].owner] = i /\ i <= table.highest
      BY <3>1 DEF IInv, DeadlineIsKnown
    <3>3. i <= table'.highest
      BY <1>2, <1>3, <3>1, <3>2 DEF new
    <3> QED
      BY <1>2, <1>3, <3>1, <3>2, <3>3
  <2> QED
    BY <2>1, <2>2
<1>6. DeadlineOfOpenConn'
  <2> SUFFICES ASSUME NEW i \in DOMAIN table'.tasks
               PROVE  /\ phase'[table'.tasks[i].owner] \in {"reading", "ready"}
                      /\ open'[table'.tasks[i].owner]
    BY DEF DeadlineOfOpenConn
  <2>1. CASE table'.tasks[i].owner = c
    BY <1>1, <1>3, <2>1
  <2>2. CASE table'.tasks[i].owner # c
    <3>1. i \in DOMAIN table.tasks /\ table'.tasks[i] = table.tasks[i]
      BY <1>4, <2>2
    <3> QED
      BY <1>1, <1>3, <2>2, <3>1 DEF IInv, DeadlineOfOpenConn
  <2> QED
    BY <2>1, <2>2
<1>7. GuardedUntilTimeout'
  <2> SUFFICES ASSUME fired = {}, NEW d \in Conns, phase'[d] \in {"reading", "ready"}
               PROVE  \E i \in DOMAIN table'.tasks : table'.tasks[i].owner = d
    BY DEF GuardedUntilTimeout, Registered
  <2>1. CASE d = c
    BY <1>2, <2>1
  <2>2. CASE d # c
    <3>1. phase[d] \in {"reading", "ready"}
      BY <1>1, <1>3, <2>2
    <3>2. PICK i \in DOMAIN table.tasks : table.tasks[i].owner = d
      BY <3>1 DEF IInv, GuardedUntilTimeout, Registered
    <3>3. taskId[c] # i
      BY <2>2, <3>1, <3>2, DistinctIds
    <3> QED
      BY <1>2, <3>2, <3>3
  <2> QED
    BY <2>1, <2>2
<1>8. NoEarlyId' /\ PostedIsOpen'
  BY <1>1, <1>2, <1>3 DEF IInv, NoEarlyId, PostedIsOpen
<1> QED
  BY <1>5, <1>6, <1>7, <1>8

(* The handler that ends: the connection takes its deadline with it. *)
LEMMA ReleaseStep ==
    ASSUME IInv, TypeOK', NEW c \in Conns, Release(c),
           phase[c] = "ready", UNCHANGED fired
    PROVE  /\ DeadlineIsKnown' /\ DeadlineOfOpenConn' /\ GuardedUntilTimeout'
           /\ NoEarlyId' /\ PostedIsOpen'
<1>1. IsTable(table) /\ phase \in [Conns -> Phases] /\ open \in [Conns -> BOOLEAN]
  BY DEF IInv, TypeOK
<1>2. /\ phase' = [phase EXCEPT ![c] = "gone"]
      /\ open' = [open EXCEPT ![c] = FALSE]
      /\ taskId' = taskId
  BY DEF Release
<1>3. /\ DOMAIN table'.tasks = DOMAIN table.tasks \ {taskId[c]}
      /\ \A i \in DOMAIN table.tasks \ {taskId[c]} : table'.tasks[i] = table.tasks[i]
      /\ table'.highest = table.highest
  BY <1>1, CancelFacts DEF Release
<1>4. \A i \in DOMAIN table'.tasks :
         /\ i \in DOMAIN table.tasks /\ table'.tasks[i] = table.tasks[i]
         /\ table.tasks[i].owner # c /\ table.tasks[i].owner \in Conns
  BY <1>1, <1>3 DEF IInv, DeadlineIsKnown, IsTable, Deadlines
<1>5. DeadlineIsKnown'
  BY <1>2, <1>3, <1>4 DEF IInv, DeadlineIsKnown
<1>6. DeadlineOfOpenConn'
  BY <1>1, <1>2, <1>4 DEF IInv, DeadlineOfOpenConn
<1>7. GuardedUntilTimeout'
  <2> SUFFICES ASSUME fired = {}, NEW d \in Conns, phase'[d] \in {"reading", "ready"}
               PROVE  \E i \in DOMAIN table'.tasks : table'.tasks[i].owner = d
    BY <1>2 DEF GuardedUntilTimeout, Registered
  <2>1. d # c /\ phase[d] \in {"reading", "ready"}
    BY <1>1, <1>2
  <2>2. PICK i \in DOMAIN table.tasks : table.tasks[i].owner = d
    BY <2>1 DEF IInv, GuardedUntilTimeout, Registered
  <2>3. taskId[c] # i
    BY <2>1, <2>2, DistinctIds
  <2> QED
    BY <1>3, <2>2, <2>3
<1>8. NoEarlyId' /\ PostedIsOpen'
  BY <1>1, <1>2 DEF IInv, NoEarlyId, PostedIsOpen
<1> QED
  BY <1>5, <1>6, <1>7, <1>8
(* A tick removes the deadlines it fires and closes their sockets; the      *)
(* identifiers start again only when no deadline is left.                  *)
LEMMA TickStep ==
    ASSUME IInv, TypeOK', RunTick
    PROVE  IInv'
<1>1. IsTable(table) /\ phase \in [Conns -> Phases] /\ open \in [Conns -> BOOLEAN]
      /\ result \in [Conns -> Results]
  BY DEF IInv, TypeOK
<1>2. /\ DOMAIN table'.tasks = DOMAIN table.tasks \ Expired(table)
      /\ \A i \in DOMAIN table.tasks \ Expired(table) : table'.tasks[i] = table.tasks[i]
      /\ DOMAIN table'.tasks # {} => table'.highest = table.highest
  BY <1>1, ProcessTasksFacts DEF RunTick
<1>3. PICK aborts \in AbortOrders :
        /\ phase' = [c \in Conns |-> IF c \in Range(aborts) THEN "ready" ELSE phase[c]]
        /\ result' = [c \in Conns |-> IF c \in Range(aborts) THEN "aborted" ELSE result[c]]
  BY DEF RunTick
<1>4. \A c \in Range(aborts) : c \in Overdue /\ phase[c] = "reading"
  BY AbortFacts DEF IInv
<1>5. /\ open' = [c \in Conns |-> open[c] /\ c \notin Overdue]
      /\ fired' = fired \cup Overdue
      /\ taskId' = taskId /\ reads' = reads
  BY DEF RunTick
<1>6. \A i \in DOMAIN table'.tasks :
         /\ i \in DOMAIN table.tasks /\ table'.tasks[i] = table.tasks[i]
         /\ table.tasks[i].owner \in Conns /\ table.tasks[i].owner \notin Overdue
  BY <1>1, <1>2 DEF IInv, DeadlineIsKnown, IsTable, Deadlines, Overdue, Expired
<1>7. DeadlineIsKnown'
  BY <1>2, <1>5, <1>6 DEF IInv, DeadlineIsKnown
<1>8. DeadlineOfOpenConn'
  <2> SUFFICES ASSUME NEW i \in DOMAIN table'.tasks
               PROVE  /\ phase'[table'.tasks[i].owner] \in {"reading", "ready"}
                      /\ open'[table'.tasks[i].owner]
    BY DEF DeadlineOfOpenConn
  <2>1. /\ phase[table.tasks[i].owner] \in {"reading", "ready"}
        /\ open[table.tasks[i].owner]
    BY <1>6 DEF IInv, DeadlineOfOpenConn
  <2> QED
    BY <1>3, <1>5, <1>6, <2>1
<1>9. GuardedUntilTimeout'
  <2> SUFFICES ASSUME fired' = {}, NEW d \in Conns, phase'[d] \in {"reading", "ready"}
               PROVE  \E i \in DOMAIN table'.tasks : table'.tasks[i].owner = d
    BY DEF GuardedUntilTimeout, Registered
  <2>1. Overdue = {} /\ fired = {}
    BY <1>5
  <2>2. Expired(table) = {}
    BY <2>1 DEF Overdue
  <2>3. phase[d] \in {"reading", "ready"}
    BY <1>3, <1>4, <2>1
  <2>4. PICK i \in DOMAIN table.tasks : table.tasks[i].owner = d
    BY <2>1, <2>3 DEF IInv, GuardedUntilTimeout, Registered
  <2> QED
    BY <1>2, <2>2, <2>4
<1>10. NoEarlyId'
  BY <1>3, <1>5 DEF IInv, NoEarlyId
<1>11. PostedIsOpen'
  <2> SUFFICES ASSUME NEW c \in Conns, phase'[c] = "posted" PROVE open'[c]
    BY DEF PostedIsOpen
  <2>1. phase[c] = "posted" /\ open[c]
    BY <1>3 DEF IInv, PostedIsOpen
  <2>2. c \notin Overdue
    BY <2>1 DEF Overdue, Expired, IInv, DeadlineOfOpenConn
  <2> QED
    BY <1>5, <2>1, <2>2
<1>12. ReadsBounded'
  BY <1>3, <1>5 DEF IInv, ReadsBounded
<1> QED
  BY <1>7, <1>8, <1>9, <1>10, <1>11, <1>12 DEF IInv

LEMMA InvStep == IInv /\ [Next]_vars => IInv'
<1> SUFFICES ASSUME IInv, [Next]_vars PROVE IInv'
  OBVIOUS
<1>0. TypeOK' /\ TypeOK
  BY TypeStep DEF IInv
<1>1. ASSUME NEW c \in Conns, Accept(c) PROVE IInv'
  <2>1. phase \in [Conns -> Phases] /\ open \in [Conns -> BOOLEAN] /\ IsTable(table)
    BY <1>0 DEF TypeOK
  <2>2. /\ phase[c] = "absent" /\ phase' = [phase EXCEPT ![c] = "posted"]
        /\ open' = [open EXCEPT ![c] = TRUE]
        /\ UNCHANGED <<table, taskId, result, reads, fired>>
    BY <1>1 DEF Accept
  <2>3. DeadlineIsKnown' /\ DeadlineOfOpenConn'
    BY <2>1, <2>2 DEF IInv, DeadlineIsKnown, DeadlineOfOpenConn, IsTable, Deadlines
  <2>4. GuardedUntilTimeout' /\ NoEarlyId' /\ PostedIsOpen' /\ ReadsBounded'
    BY <2>1, <2>2 DEF IInv, GuardedUntilTimeout, Registered, NoEarlyId, PostedIsOpen,
                      ReadsBounded
  <2> QED
    BY <1>0, <2>3, <2>4 DEF IInv
<1>2. ASSUME NEW c \in Conns, NEW r \in PeerReads, Arrive(c, r) PROVE IInv'
  <2>1. /\ phase \in [Conns -> Phases] /\ result \in [Conns -> Results]
        /\ IsTable(table) /\ reads \in [Conns -> 0..MaxReads]
    BY <1>0 DEF TypeOK
  <2>2. /\ phase[c] = "reading" /\ phase' = [phase EXCEPT ![c] = "ready"]
        /\ r \in {"request", "partial"} => reads[c] < MaxReads
        /\ result' = [result EXCEPT ![c] = r]
        /\ UNCHANGED <<table, open, taskId, reads, fired>>
    BY <1>2 DEF Arrive
  <2>3. DeadlineIsKnown' /\ DeadlineOfOpenConn'
    BY <2>1, <2>2 DEF IInv, DeadlineIsKnown, DeadlineOfOpenConn, IsTable, Deadlines
  <2>4. GuardedUntilTimeout' /\ NoEarlyId' /\ PostedIsOpen' /\ ReadsBounded'
    BY <2>1, <2>2 DEF IInv, GuardedUntilTimeout, Registered, NoEarlyId, PostedIsOpen,
                      ReadsBounded
  <2> QED
    BY <1>0, <2>3, <2>4 DEF IInv
<1>3. CASE Advance
  <2>1. /\ DOMAIN table'.tasks = DOMAIN table.tasks
        /\ \A i \in DOMAIN table.tasks : table'.tasks[i].owner = table.tasks[i].owner
        /\ table'.highest = table.highest
    BY <1>0, <1>3, ElapseFacts DEF Advance, TypeOK
  <2>2. UNCHANGED <<phase, open, taskId, result, reads, fired>>
    BY <1>3 DEF Advance
  <2>3. DeadlineIsKnown' /\ DeadlineOfOpenConn'
    BY <2>1, <2>2 DEF IInv, DeadlineIsKnown, DeadlineOfOpenConn
  <2>4. GuardedUntilTimeout' /\ NoEarlyId' /\ PostedIsOpen' /\ ReadsBounded'
    BY <2>1, <2>2 DEF IInv, GuardedUntilTimeout, Registered, NoEarlyId, PostedIsOpen,
                      ReadsBounded
  <2> QED
    BY <1>0, <2>3, <2>4 DEF IInv
<1>4. ASSUME NEW c \in Conns, RunStart(c) PROVE IInv'
  <2>1. /\ phase[c] = "posted" /\ ReadAgain(c)
        /\ UNCHANGED <<open, fired, result, reads>>
    BY <1>4 DEF RunStart
  <2>2. open[c]
    BY <2>1 DEF IInv, PostedIsOpen
  <2>3. ReadsBounded'
    BY <1>0, <2>1 DEF ReadAgain, IInv, ReadsBounded, TypeOK
  <2> QED
    BY <1>0, <2>1, <2>2, <2>3, ReadAgainStep DEF IInv
<1>5. ASSUME NEW c \in Conns, RunReadOn(c) PROVE IInv'
  <2>1. /\ phase[c] = "ready" /\ ReadAgain(c) /\ open[c]
        /\ reads' = [reads EXCEPT ![c] = @ + 1]
        /\ UNCHANGED <<open, fired, result>>
    BY <1>5 DEF RunReadOn
  <2>2. ReadsBounded'
    BY <1>0, <2>1 DEF ReadAgain, IInv, ReadsBounded, TypeOK
  <2> QED
    BY <1>0, <2>1, <2>2, ReadAgainStep DEF IInv
<1>6. ASSUME NEW c \in Conns, RunReadEnd(c) PROVE IInv'
  <2>1. phase[c] = "ready" /\ Release(c) /\ UNCHANGED <<fired, result, reads>>
    BY <1>6 DEF RunReadEnd
  <2>2. ReadsBounded'
    BY <1>0, <2>1 DEF Release, IInv, ReadsBounded, TypeOK
  <2> QED
    BY <1>0, <2>1, <2>2, ReleaseStep DEF IInv
<1>7. CASE RunTick
  BY <1>0, <1>7, TickStep
<1>8. CASE UNCHANGED vars
  BY <1>0, <1>8 DEF vars, IInv, DeadlineIsKnown, DeadlineOfOpenConn, GuardedUntilTimeout,
                    Registered, NoEarlyId, PostedIsOpen, ReadsBounded
<1> QED
  BY <1>1, <1>2, <1>3, <1>4, <1>5, <1>6, <1>7, <1>8 DEF Next, Worker

-----------------------------------------------------------------------------
(* The results.                                                            *)

LEMMA Inductive == Spec => []IInv
  BY InvInit, InvStep, PTL DEF Spec

(* The variables of a worker keep their types: in particular no identifier *)
(* of a deadline is 0, the value of a connection that has none.            *)
THEOREM WorkerTypes == Spec => []TypeOK
<1>1. IInv => TypeOK
  BY DEF IInv
<1> QED
  BY <1>1, Inductive, PTL

(* A registered deadline is the one its connection remembers, so that       *)
(* cancel_deadline_timer() of its owner reaches it.                        *)
THEOREM DeadlinesAreKnown == Spec => []DeadlineIsKnown
<1>1. IInv => DeadlineIsKnown
  BY DEF IInv
<1> QED
  BY <1>1, Inductive, PTL

(* The table holds no connection whose read cycle is over: no deadline      *)
(* outlives its connection or keeps it in memory.                          *)
THEOREM DeadlinesAreOfOpenConns == Spec => []DeadlineOfOpenConn
<1>1. IInv => DeadlineOfOpenConn
  BY DEF IInv
<1> QED
  BY <1>1, Inductive, PTL

(* Until the first deadline fires, no connection waits without a deadline: *)
(* the loss of a deadline needs a fired one before it.                     *)
THEOREM GuardedUntilFirstTimeout == Spec => []GuardedUntilTimeout
<1>1. IInv => GuardedUntilTimeout
  BY DEF IInv
<1> QED
  BY <1>1, Inductive, PTL
-----------------------------------------------------------------------------
(* The two variables of IdleTimeout that are not variables of Worker. *)
State == [c \in Conns |-> StateOf(c)]
Left  == [c \in Watched |-> table.tasks[taskId[c]].left]

(* The watches that a cancel by connection c leaves to the others. *)
Untouched(c) == {d \in Watched \ {c} : taskId[d] # taskId[c]}

-----------------------------------------------------------------------------
(* A registered deadline is the watch of its owner. *)
LEMMA OwnersAreWatched ==
    ASSUME IInv
    PROVE  /\ \A i \in DOMAIN table.tasks :
                 table.tasks[i].owner \in Watched /\ taskId[table.tasks[i].owner] = i
           /\ \A c \in Watched :
                 /\ c \in Conns
                 /\ taskId[c] \in DOMAIN table.tasks
                 /\ table.tasks[taskId[c]].owner = c
                 /\ phase[c] \in {"reading", "ready"} /\ open[c]
  BY DEF IInv, DeadlineIsKnown, DeadlineOfOpenConn, TypeOK, IsTable, Deadlines, Watched

(* A cancel takes away the watch of the connection itself and, after a      *)
(* timeout, of at most one other.                                          *)
LEMMA UntouchedIsKept ==
    ASSUME IInv, NEW c \in Conns, phase[c] \in {"posted", "reading", "ready"}
    PROVE  Untouched(c) \in Abstract!Kept(c)
<1> DEFINE i == taskId[c]
<1>1. \A d \in Watched : taskId[d] \in DOMAIN table.tasks /\ table.tasks[taskId[d]].owner = d
  BY OwnersAreWatched
<1>2. CASE \A d \in Watched \ {c} : taskId[d] # i
  <2>1. Untouched(c) = Watched \ {c}
    BY <1>2 DEF Untouched
  <2> QED
    BY <2>1 DEF Abstract!Kept
<1>3. ASSUME NEW d \in Watched \ {c}, taskId[d] = i
      PROVE  Untouched(c) \in Abstract!Kept(c)
  <2>1. \A e \in Watched : taskId[e] = i => e = d
    BY <1>1, <1>3
  <2>2. Untouched(c) = Watched \ {c, d}
    BY <1>3, <2>1 DEF Untouched
  <2>3. /\ d \in Conns /\ phase[d] \in {"reading", "ready"}
        /\ i \in DOMAIN table.tasks /\ table.tasks[i].owner = d
    BY <1>3, OwnersAreWatched
  <2>4. fired # {}
    BY <1>3, <2>3, DistinctIds
  <2> QED
    BY <2>2, <2>3, <2>4 DEF Abstract!Kept
<1> QED
  BY <1>2, <1>3

(* Start, and a read after which the connection goes on: the peer is heard. *)
LEMMA ReadAgainIsHear ==
    ASSUME IInv, NEW c \in Conns, ReadAgain(c), open[c],
           phase[c] \in {"posted", "ready"}, UNCHANGED <<open, fired>>
    PROVE  Abstract!Hear(c)
<1> DEFINE new == table.highest + 1
<1>1. StartDeadline(c) /\ phase' = [phase EXCEPT ![c] = "reading"]
  BY DEF ReadAgain
<1>2. /\ new \in Nat
      /\ DOMAIN table'.tasks = (DOMAIN table.tasks \ {taskId[c]}) \cup {new}
      /\ table'.tasks[new] = [owner |-> c, left |-> Timeout]
      /\ \A i \in DOMAIN table.tasks \ {taskId[c]} :
            table'.tasks[i] = table.tasks[i] /\ i # new
      /\ taskId' = [taskId EXCEPT ![c] = new]
  BY <1>1, RestartFacts
<1>3. phase \in [Conns -> Phases] /\ taskId \in [Conns -> Nat]
  BY DEF IInv, TypeOK
<1> HIDE DEF new
<1>4. taskId'[c] = new /\ \A d \in Conns \ {c} : taskId'[d] = taskId[d]
  BY <1>2, <1>3
<1>5. c \in Watched'
  BY <1>2, <1>4 DEF Watched
<1>6. \A d \in Conns \ {c} : d \in Watched' <=> d \in Watched /\ taskId[d] # taskId[c]
  BY <1>2, <1>4 DEF Watched
<1>7. Watched' = Untouched(c) \cup {c}
  BY <1>5, <1>6 DEF Untouched, Watched
<1>8. \A d \in Untouched(c) : table'.tasks[taskId'[d]].left = table.tasks[taskId[d]].left
  BY <1>2, <1>4, OwnersAreWatched DEF Untouched
<1>9. Left' = [d \in Untouched(c) \cup {c} |-> IF d = c THEN Timeout ELSE Left[d]]
  <2>1. table'.tasks[taskId'[c]].left = Timeout
    BY <1>2, <1>4
  <2>2. \A d \in Untouched(c) : d # c /\ Left[d] = table.tasks[taskId[d]].left
    BY DEF Untouched, Left
  <2> QED
    BY <1>7, <1>8, <2>1, <2>2 DEF Left
<1>10. State[c] \in {"accepted", "served"} /\ State' = [State EXCEPT ![c] = "served"]
  BY <1>1, <1>3 DEF State, StateOf
<1>11. Untouched(c) \in Abstract!Kept(c)
  BY UntouchedIsKept
<1> QED
  BY <1>9, <1>10, <1>11 DEF Abstract!Hear, State, Left

(* A read that ends its connection. *)
LEMMA ReleaseIsEnd ==
    ASSUME IInv, NEW c \in Conns, Release(c), phase[c] = "ready", UNCHANGED fired
    PROVE  Abstract!End(c)
<1>1. IsTable(table) /\ phase \in [Conns -> Phases] /\ open \in [Conns -> BOOLEAN]
  BY DEF IInv, TypeOK
<1>2. /\ phase' = [phase EXCEPT ![c] = "gone"]
      /\ open' = [open EXCEPT ![c] = FALSE]
      /\ taskId' = taskId
  BY DEF Release
<1>3. /\ DOMAIN table'.tasks = DOMAIN table.tasks \ {taskId[c]}
      /\ \A i \in DOMAIN table.tasks \ {taskId[c]} : table'.tasks[i] = table.tasks[i]
  BY <1>1, CancelFacts DEF Release
<1>4. Watched' = Untouched(c)
  BY <1>2, <1>3 DEF Watched, Untouched
<1>5. \A d \in Untouched(c) : table'.tasks[taskId'[d]] = table.tasks[taskId[d]]
  BY <1>2, <1>3, OwnersAreWatched DEF Untouched
<1>6. Left' = [d \in Untouched(c) |-> Left[d]]
  <2>1. \A d \in Untouched(c) : Left[d] = table.tasks[taskId[d]].left
    BY DEF Untouched, Left
  <2> QED
    BY <1>4, <1>5, <2>1 DEF Left
<1>7. State[c] \in {"served", "timedOut"} /\ State' = [State EXCEPT ![c] = "gone"]
  BY <1>1, <1>2 DEF State, StateOf
<1>8. Untouched(c) \in Abstract!Kept(c)
  BY UntouchedIsKept
<1> QED
  BY <1>6, <1>7, <1>8 DEF Abstract!End, State, Left

(* A tick length on the table is one on every watch. *)
LEMMA AdvanceIsPass ==
    ASSUME IInv, Advance
    PROVE  Abstract!Pass
<1>1. IsTable(table) /\ table' = Elapse(table)
      /\ UNCHANGED <<phase, open, taskId, fired>>
  BY DEF IInv, TypeOK, Advance
<1>2. /\ DOMAIN table'.tasks = DOMAIN table.tasks
      /\ \A i \in DOMAIN table.tasks : table'.tasks[i].owner = table.tasks[i].owner
  BY <1>1, ElapseFacts
<1>3. \A i \in DOMAIN table.tasks :
         table'.tasks[i].left =
            IF table.tasks[i].left < 0 THEN -1 ELSE table.tasks[i].left - 1
  BY <1>1 DEF Elapse, IsTable, Deadlines
<1>4. Watched' = Watched
  BY <1>1, <1>2 DEF Watched
<1>5. \A c \in Watched : Left[c] = table.tasks[taskId[c]].left
  BY DEF Left
<1>6. Left' = [c \in Watched |-> IF Left[c] < 0 THEN -1 ELSE Left[c] - 1]
  BY <1>1, <1>3, <1>4, <1>5, OwnersAreWatched DEF Left
<1>7. State' = State /\ DOMAIN Left = Watched
  BY <1>1 DEF State, StateOf, Left
<1> QED
  BY <1>1, <1>6, <1>7 DEF Abstract!Pass, State, Left

(* The tick times out the connections whose watch has run off. *)
LEMMA TickIsExpire ==
    ASSUME IInv, RunTick
    PROVE  Abstract!Expire
<1>1. IsTable(table) /\ phase \in [Conns -> Phases] /\ open \in [Conns -> BOOLEAN]
  BY DEF IInv, TypeOK
<1>2. /\ DOMAIN table'.tasks = DOMAIN table.tasks \ Expired(table)
      /\ \A i \in DOMAIN table.tasks \ Expired(table) : table'.tasks[i] = table.tasks[i]
  BY <1>1, ProcessTasksFacts DEF RunTick
<1>3. PICK aborts \in AbortOrders :
        phase' = [c \in Conns |-> IF c \in Range(aborts) THEN "ready" ELSE phase[c]]
  BY DEF RunTick
<1>4. \A c \in Range(aborts) : c \in Overdue /\ phase[c] = "reading"
  BY AbortFacts DEF IInv
<1>5. /\ open' = [c \in Conns |-> open[c] /\ c \notin Overdue]
      /\ fired' = fired \cup Overdue
      /\ taskId' = taskId
  BY DEF RunTick
<1>6. \A c \in Watched : Left[c] = table.tasks[taskId[c]].left
  BY DEF Left
<1>7. Overdue = {c \in Watched : Left[c] < 0}
  <2>1. \A c \in Watched : c \in Overdue <=> Left[c] < 0
    BY <1>6, OwnersAreWatched DEF Overdue, Expired
  <2>2. Overdue \subseteq Watched
    BY OwnersAreWatched DEF Overdue, Expired
  <2> QED
    BY <2>1, <2>2
<1>8. \A c \in Watched : c \in Overdue <=> taskId[c] \in Expired(table)
  BY <1>6, <1>7, OwnersAreWatched DEF Expired
<1>9. Watched' = Watched \ Overdue
  BY <1>2, <1>5, <1>8 DEF Watched
<1>10. \A c \in Watched \ Overdue : table'.tasks[taskId'[c]] = table.tasks[taskId[c]]
  BY <1>2, <1>5, <1>8, OwnersAreWatched
<1>11. Left' = [c \in Watched \ Overdue |-> Left[c]]
  BY <1>6, <1>9, <1>10 DEF Left
<1>12. State' = [c \in Conns |-> IF c \in Overdue THEN "timedOut" ELSE State[c]]
  <2>1. ASSUME NEW c \in Overdue
        PROVE  c \in Conns /\ phase'[c] \in {"reading", "ready"} /\ ~open'[c]
    BY <1>3, <1>5, <1>7, OwnersAreWatched
  <2>2. ASSUME NEW c \in Conns \ Overdue
        PROVE  phase'[c] = phase[c] /\ open'[c] = open[c]
    <3>1. c \notin Range(aborts)
      BY <1>4
    <3> QED
      BY <1>1, <1>3, <1>5, <3>1
  <2> QED
    BY <2>1, <2>2 DEF State, StateOf
<1>13. DOMAIN Left = Watched
  BY DEF Left
<1> QED
  BY <1>5, <1>7, <1>11, <1>12, <1>13 DEF Abstract!Expire, State, Left

-----------------------------------------------------------------------------
LEMMA InitRefines == Init => Abstract!Init
<1> SUFFICES ASSUME Init PROVE Abstract!Init
  OBVIOUS
<1>1. Watched = {} /\ fired = {}
  BY DEF Init, EmptyTable, Watched
<1>2. State = [c \in Conns |-> "absent"]
  BY DEF Init, State, StateOf
<1>3. Left = [c \in {} |-> 0]
  BY <1>1 DEF Left
<1> QED
  BY <1>1, <1>2, <1>3 DEF Abstract!Init, State, Left

(* Every step of the worker is one of the service, or none. *)
LEMMA StepRefines == IInv /\ [Next]_vars => [Abstract!Next]_(Abstract!vars)
<1> SUFFICES ASSUME IInv, [Next]_vars PROVE [Abstract!Next]_(Abstract!vars)
  OBVIOUS
<1>0. phase \in [Conns -> Phases] /\ open \in [Conns -> BOOLEAN]
  BY DEF IInv, TypeOK
<1>1. ASSUME NEW c \in Conns, Accept(c) PROVE Abstract!Accept(c)
  <2>1. /\ phase[c] = "absent" /\ phase' = [phase EXCEPT ![c] = "posted"]
        /\ open' = [open EXCEPT ![c] = TRUE]
        /\ UNCHANGED <<table, taskId, fired>>
    BY <1>1 DEF Accept
  <2>2. State[c] = "absent" /\ State' = [State EXCEPT ![c] = "accepted"]
    BY <1>0, <2>1 DEF State, StateOf
  <2>3. Left' = Left
    BY <2>1 DEF Left, Watched
  <2> QED
    BY <2>1, <2>2, <2>3 DEF Abstract!Accept, State, Left
<1>2. ASSUME NEW c \in Conns, NEW r \in PeerReads, Arrive(c, r)
      PROVE  UNCHANGED <<State, Left, fired>>
  <2>1. /\ phase[c] = "reading" /\ phase' = [phase EXCEPT ![c] = "ready"]
        /\ UNCHANGED <<table, taskId, open, fired>>
    BY <1>2 DEF Arrive
  <2>2. State' = State
    BY <1>0, <2>1 DEF State, StateOf
  <2> QED
    BY <2>1, <2>2 DEF Left, Watched
<1>3. CASE Advance
  BY <1>3, AdvanceIsPass DEF Abstract!Next
<1>4. ASSUME NEW c \in Conns, RunStart(c) PROVE Abstract!Hear(c)
  <2>1. phase[c] = "posted" /\ ReadAgain(c) /\ UNCHANGED <<open, fired>>
    BY <1>4 DEF RunStart
  <2>2. open[c]
    BY <2>1 DEF IInv, PostedIsOpen
  <2> QED
    BY <2>1, <2>2, ReadAgainIsHear
<1>5. ASSUME NEW c \in Conns, RunReadOn(c) PROVE Abstract!Hear(c)
  <2>1. phase[c] = "ready" /\ ReadAgain(c) /\ open[c] /\ UNCHANGED <<open, fired>>
    BY <1>5 DEF RunReadOn
  <2> QED
    BY <2>1, ReadAgainIsHear
<1>6. ASSUME NEW c \in Conns, RunReadEnd(c) PROVE Abstract!End(c)
  <2>1. phase[c] = "ready" /\ Release(c) /\ UNCHANGED fired
    BY <1>6 DEF RunReadEnd
  <2> QED
    BY <2>1, ReleaseIsEnd
<1>7. CASE RunTick
  BY <1>7, TickIsExpire DEF Abstract!Next
<1>8. CASE UNCHANGED vars
  <2>1. UNCHANGED <<State, Left, fired>>
    BY <1>8 DEF vars, State, StateOf, Left, Watched
  <2> QED
    BY <2>1 DEF Abstract!vars, State, Left
<1>9. ASSUME NEW c \in Conns, NEW r \in PeerReads, Arrive(c, r)
      PROVE  UNCHANGED Abstract!vars
  BY <1>2, <1>9 DEF Abstract!vars, State, Left
<1> QED
  BY <1>1, <1>3, <1>4, <1>5, <1>6, <1>7, <1>8, <1>9 DEF Next, Worker, Abstract!Next

(* A worker is the timeout service: no connection is timed out before its   *)
(* peer was silent for the timeout, whatever identifiers task_timer issues  *)
(* again, and a stale cancel costs one other connection its deadline at     *)
(* most, and only after a timeout.                                         *)
THEOREM WorkerIsIdleTimeout == Spec => IsIdleTimeout
  BY InitRefines, Inductive, StepRefines, PTL DEF Spec, IsIdleTimeout, Abstract!Spec
=============================================================================
