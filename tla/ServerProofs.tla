---------------------------- MODULE ServerProofs ----------------------------
(***************************************************************************)
(* The safety invariants of Server, for any number of workers and of       *)
(* connections: the barrier of run(), the exactness of the queue lengths,  *)
(* and the choice of the acceptor although the lengths change under it.    *)
(***************************************************************************)
EXTENDS Server, FiniteSetTheorems, TLAPS

(* The workers that reported to the barrier. *)
Ready == {w \in Workers : worker[w] \notin {"reset", "count"}}

(* The objects whose count is in the queue length of w. *)
Counted(w) == {c \in Conns : home[c] = w}

(* init_count counts the workers that have initialised themselves. *)
InitCounted == initCount = Cardinality(Ready)

(* Nothing is created before the barrier, which waits for every worker. *)
Barrier ==
    /\ main # "barrier" => initCount = N
    /\ main = "barrier" => \A c \in Conns : home[c] = None

(* An object that exists was created for a worker. *)
Housed == \A c \in Conns : conn[c] # "fresh" <=> home[c] # None

Scanning == main \in {"cond", "first", "second"}

(* While the acceptor scans, lengths only decrease, and the best worker so  *)
(* far has no more connections now than any worker it passed had at the    *)
(* start; the operand that was read first is bounded in the same way.      *)
ScanOK ==
    /\ Scanning =>
         /\ \A w \in Workers : qlen[w] <= atScan[w]
         /\ \A w \in Workers : w < idx => qlen[minIdx] <= atScan[w]
    /\ main \in {"first", "second"} => idx < N
    /\ main = "second" =>
         \/ /\ operand.of = "candidate"
            /\ qlen[idx] <= operand.value /\ operand.value <= atScan[idx]
         \/ /\ operand.of = "best"
            /\ qlen[minIdx] <= operand.value
            /\ \A w \in Workers : w < idx => operand.value <= atScan[w]

IInv ==
    /\ TypeOK
    /\ InitCounted
    /\ Barrier
    /\ Housed
    /\ QueueLengthExact
    /\ ScanOK
    /\ PickIsLeastLoaded

-----------------------------------------------------------------------------
(* Counting.                                                               *)

LEMMA WorkersFinite == IsFiniteSet(Workers) /\ Cardinality(Workers) = N /\ 0 \in Workers
  BY ServerAssumption, FS_Interval DEF Workers

LEMMA NoneIsNoWorker == None \notin Workers
  BY ServerAssumption DEF None, Workers

LEMMA CountedFinite ==
    ASSUME NEW w
    PROVE  IsFiniteSet(Counted(w)) /\ Cardinality(Counted(w)) \in Nat
<1>1. Counted(w) \in SUBSET Conns
  BY DEF Counted
<1> QED
  BY <1>1, ServerAssumption, FS_Subset, FS_CardinalityType

LEMMA ReadyFacts ==
    /\ IsFiniteSet(Ready) /\ Cardinality(Ready) \in Nat /\ Cardinality(Ready) <= N
    /\ Cardinality(Ready) = N => Ready = Workers
<1>1. Ready \in SUBSET Workers
  BY DEF Ready
<1> QED
  BY <1>1, WorkersFinite, FS_Subset, FS_CardinalityType

(* Behind the barrier every worker is initialised, so a worker that is not  *)
(* has no connection.                                                      *)
LEMMA ReadyFromInv == IInv => ReadyBeforeUse
<1> SUFFICES ASSUME IInv, NEW c \in Conns, home[c] # None
             PROVE  worker[home[c]] \notin {"reset", "count"}
  BY DEF ReadyBeforeUse
<1>1. initCount = N /\ Cardinality(Ready) = N
  BY DEF IInv, Barrier, InitCounted
<1>2. home[c] \in Workers
  BY DEF IInv, TypeOK
<1> QED
  BY <1>1, <1>2, ReadyFacts DEF Ready

-----------------------------------------------------------------------------
LEMMA InvInit == Init => IInv
<1> SUFFICES ASSUME Init PROVE IInv
  OBVIOUS
<1>1. TypeOK
  BY ServerAssumption, WorkersFinite, NoneIsNoWorker
  DEF Init, TypeOK, Workers, WorkerStates, MainStates, ConnStates, NoOperand
<1>2. InitCounted
  <2>1. Ready = {}
    BY DEF Init, Ready
  <2> QED
    BY <2>1, FS_EmptySet DEF Init, InitCounted
<1>3. QueueLengthExact
  <2>1. \A w \in Workers : Counted(w) = {}
    BY NoneIsNoWorker DEF Init, Counted
  <2> QED
    BY <2>1, FS_EmptySet DEF Init, QueueLengthExact, Counted
<1>4. Barrier /\ Housed /\ ScanOK /\ PickIsLeastLoaded
  BY DEF Init, Barrier, Housed, ScanOK, Scanning, PickIsLeastLoaded
<1> QED
  BY <1>1, <1>2, <1>3, <1>4 DEF IInv
-----------------------------------------------------------------------------
(* The three operations on the queue lengths.                              *)

(* A connection that goes takes its count with it. *)
LEMMA DestroyedStep ==
    ASSUME IInv, NEW c \in Conns, conn[c] # "fresh", Destroyed(c)
    PROVE  /\ qlen' \in [Workers -> Nat] /\ home' \in [Conns -> Workers \cup {None}]
           /\ conn' \in [Conns -> ConnStates]
           /\ QueueLengthExact' /\ Housed'
           /\ \A w \in Workers : qlen'[w] <= qlen[w]
           /\ \A d \in Conns : home'[d] # None => home'[d] = home[d]
<1>1. /\ qlen \in [Workers -> Nat] /\ home \in [Conns -> Workers \cup {None}]
      /\ conn \in [Conns -> ConnStates]
  BY DEF IInv, TypeOK
<1>2. /\ conn' = [conn EXCEPT ![c] = "fresh"]
      /\ home' = [home EXCEPT ![c] = None]
      /\ qlen' = [qlen EXCEPT ![home[c]] = @ - 1]
  BY DEF Destroyed
<1>3. home[c] \in Workers
  BY <1>1 DEF IInv, Housed
<1>4. Cardinality(Counted(home[c])) = qlen[home[c]] /\ c \in Counted(home[c])
  BY <1>3 DEF IInv, QueueLengthExact, Counted
<1>5. ASSUME NEW w \in Workers
      PROVE  Counted(w)' = IF w = home[c] THEN Counted(w) \ {c} ELSE Counted(w)
  BY <1>1, <1>2, NoneIsNoWorker DEF Counted
<1>6. Cardinality(Counted(home[c]) \ {c}) = qlen[home[c]] - 1
  BY <1>4, CountedFinite, FS_RemoveElement
<1>7. Cardinality(Counted(home[c]) \ {c}) \in Nat
  BY CountedFinite, FS_RemoveElement, FS_CardinalityType
<1>8. qlen[home[c]] - 1 \in Nat
  BY <1>6, <1>7
<1>9. qlen' \in [Workers -> Nat] /\ \A w \in Workers : qlen'[w] <= qlen[w]
  BY <1>1, <1>2, <1>3, <1>8
<1>10. QueueLengthExact'
  <2> SUFFICES ASSUME NEW w \in Workers PROVE qlen'[w] = Cardinality(Counted(w)')
    BY DEF QueueLengthExact, Counted
  <2>1. CASE w = home[c]
    BY <1>1, <1>2, <1>5, <1>6, <2>1
  <2>2. CASE w # home[c]
    BY <1>1, <1>2, <1>5, <2>2 DEF IInv, QueueLengthExact, Counted
  <2> QED
    BY <2>1, <2>2
<1>11. Housed' /\ \A d \in Conns : home'[d] # None => home'[d] = home[d]
  BY <1>1, <1>2 DEF IInv, Housed
<1> QED
  BY <1>1, <1>2, <1>9, <1>10, <1>11 DEF ConnStates

(* A connection that is created is counted. *)
LEMMA CreateStep ==
    ASSUME IInv, NEW c \in Conns, CreateConn(c)
    PROVE  /\ qlen' \in [Workers -> Nat] /\ home' \in [Conns -> Workers \cup {None}]
           /\ conn' \in [Conns -> ConnStates]
           /\ QueueLengthExact' /\ Housed'
<1>1. /\ qlen \in [Workers -> Nat] /\ home \in [Conns -> Workers \cup {None}]
      /\ conn \in [Conns -> ConnStates] /\ minIdx \in Workers
  BY DEF IInv, TypeOK
<1>2. /\ conn[c] = "fresh"
      /\ conn' = [conn EXCEPT ![c] = "pending"]
      /\ home' = [home EXCEPT ![c] = minIdx]
      /\ qlen' = [qlen EXCEPT ![minIdx] = @ + 1]
  BY DEF CreateConn
<1>3. home[c] = None
  BY <1>2 DEF IInv, Housed
<1>4. ASSUME NEW w \in Workers
      PROVE  Counted(w)' = IF w = minIdx THEN Counted(w) \cup {c} ELSE Counted(w)
  BY <1>1, <1>2, <1>3, NoneIsNoWorker DEF Counted
<1>5. c \notin Counted(minIdx)
  BY <1>1, <1>3, NoneIsNoWorker DEF Counted
<1>6. Cardinality(Counted(minIdx) \cup {c}) = qlen[minIdx] + 1
  <2>1. Cardinality(Counted(minIdx)) = qlen[minIdx]
    BY <1>1 DEF IInv, QueueLengthExact, Counted
  <2> QED
    BY <1>5, <2>1, CountedFinite, FS_AddElement
<1>7. QueueLengthExact'
  <2> SUFFICES ASSUME NEW w \in Workers PROVE qlen'[w] = Cardinality(Counted(w)')
    BY DEF QueueLengthExact, Counted
  <2>1. CASE w = minIdx
    BY <1>1, <1>2, <1>4, <1>6, <2>1
  <2>2. CASE w # minIdx
    BY <1>1, <1>2, <1>4, <2>2 DEF IInv, QueueLengthExact, Counted
  <2> QED
    BY <2>1, <2>2
<1>8. Housed'
  BY <1>1, <1>2, NoneIsNoWorker DEF IInv, Housed
<1> QED
  BY <1>1, <1>2, <1>7, <1>8 DEF ConnStates

(* The reset of a length by its worker changes nothing: it was 0. *)
LEMMA ResetStep ==
    ASSUME IInv, NEW w \in Workers, worker[w] = "reset"
    PROVE  qlen[w] = 0
<1>1. Counted(w) = {}
  BY ReadyFromInv, NoneIsNoWorker DEF ReadyBeforeUse, Counted
<1> QED
  BY <1>1, FS_EmptySet DEF IInv, QueueLengthExact, Counted

-----------------------------------------------------------------------------
LEMMA TypeStep == IInv /\ [Next]_vars => TypeOK'
<1> SUFFICES ASSUME IInv, [Next]_vars PROVE TypeOK'
  OBVIOUS
<1> USE DEF MainStates
<1>0. TypeOK /\ 0 \in Workers /\ N \in Nat \ {0}
  BY WorkersFinite, ServerAssumption DEF IInv
<1>1. ASSUME NEW w \in Workers, ResetQueueLength(w) PROVE TypeOK'
  BY <1>0, <1>1 DEF ResetQueueLength, TypeOK, WorkerStates, scan
<1>2. ASSUME NEW w \in Workers, CountInit(w) PROVE TypeOK'
  <2>1. w \notin Ready
    BY <1>2 DEF CountInit, Ready
  <2>2. initCount < N
    <3>1. Ready # Workers
      BY <2>1
    <3> QED
      BY <1>0, <3>1, ReadyFacts DEF IInv, InitCounted
  <2>3. initCount' \in 0..N
    BY <1>0, <1>2, <2>2 DEF CountInit, TypeOK
  <2> QED
    BY <1>0, <1>2, <2>3 DEF CountInit, TypeOK, WorkerStates, scan
<1>3. ASSUME NEW c \in Conns, StartConn(c) PROVE TypeOK'
  BY <1>0, <1>3 DEF StartConn, TypeOK, ConnStates, scan
<1>4. ASSUME NEW c \in Conns, FinishConn(c) PROVE TypeOK'
  <2>1. conn[c] # "fresh" /\ Destroyed(c)
    BY <1>4 DEF FinishConn
  <2>2. /\ qlen' \in [Workers -> Nat] /\ home' \in [Conns -> Workers \cup {None}]
        /\ conn' \in [Conns -> ConnStates]
    BY <2>1, DestroyedStep
  <2> QED
    BY <1>0, <1>4, <2>2 DEF FinishConn, TypeOK, scan
<1>5. ASSUME NEW c \in Conns, BlockInWrite(c) PROVE TypeOK'
  BY <1>0, <1>5 DEF BlockInWrite, TypeOK, WorkerStates, scan
<1>6. ASSUME NEW w \in Workers, ExitWorker(w) PROVE TypeOK'
  BY <1>0, <1>6 DEF ExitWorker, TypeOK, WorkerStates, scan
<1>7. CASE PassBarrier
  BY <1>0, <1>7 DEF PassBarrier, TypeOK, scan
<1>8. CASE BeginPick
  BY <1>0, <1>8 DEF BeginPick, TypeOK, NoOperand
<1>9. CASE CheckLoop
  BY <1>0, <1>9 DEF CheckLoop, TypeOK, scan
<1>10. CASE ReadFirst
  <2>1. idx \in Workers
    BY <1>0, <1>10 DEF ReadFirst, IInv, ScanOK, TypeOK, Workers
  <2>2. operand' \in [of : {"none", "candidate", "best"}, value : Nat]
    BY <1>0, <1>10, <2>1 DEF ReadFirst, TypeOK
  <2> QED
    BY <1>0, <1>10, <2>2 DEF ReadFirst, TypeOK
<1>11. CASE ReadSecond
  <2>1. idx \in Workers /\ idx + 1 \in 0..N
    BY <1>0, <1>11 DEF ReadSecond, IInv, ScanOK, TypeOK, Workers
  <2> QED
    BY <1>0, <1>11, <2>1 DEF ReadSecond, TypeOK, NoOperand
<1>12. ASSUME NEW c \in Conns, CreateConn(c) PROVE TypeOK'
  BY <1>0, <1>12, CreateStep DEF CreateConn, TypeOK, scan
<1>13. CASE EndAcceptHandler
  <2>1. /\ qlen' \in [Workers -> Nat] /\ home' \in [Conns -> Workers \cup {None}]
        /\ conn' \in [Conns -> ConnStates]
    <3>1. CASE \E c \in Conns : conn[c] = "failed"
      <4>1. PICK c \in Conns : conn[c] = "failed" /\ Destroyed(c)
        BY <1>13, <3>1 DEF EndAcceptHandler
      <4> QED
        BY <4>1, DestroyedStep
    <3>2. CASE ~\E c \in Conns : conn[c] = "failed"
      BY <1>0, <1>13, <3>2 DEF EndAcceptHandler, TypeOK
    <3> QED
      BY <3>1, <3>2
  <2> QED
    BY <1>0, <1>13, <2>1 DEF EndAcceptHandler, TypeOK, scan
<1>14. ASSUME NEW c \in Conns, NEW o \in {"posted", "failed"}, Accepted(c, o) PROVE TypeOK'
  BY <1>0, <1>14 DEF Accepted, TypeOK, ConnStates, scan
<1>15. CASE Signal
  BY <1>0, <1>15 DEF Signal, TypeOK
<1>16. CASE StopNext
  <2>1. idx' \in 0..N /\ stopped' \subseteq Workers
    <3>1. idx \in 0..N /\ stopped \subseteq Workers
      BY <1>0 DEF TypeOK
    <3>2. CASE idx < N
      <4>1. stopped' = stopped \cup {idx} /\ idx' = idx + 1
        BY <1>16, <3>2 DEF StopNext
      <4>2. idx \in Workers /\ idx + 1 \in 0..N
        BY <1>0, <3>1, <3>2 DEF Workers
      <4> QED
        BY <3>1, <4>1, <4>2
    <3>3. CASE ~(idx < N)
      BY <1>16, <3>1, <3>3 DEF StopNext
    <3> QED
      BY <3>2, <3>3
  <2> QED
    BY <1>0, <1>16, <2>1 DEF StopNext, TypeOK
<1>17. CASE Return
  BY <1>0, <1>17 DEF Return, TypeOK, scan
<1>18. CASE UNCHANGED vars
  BY <1>0, <1>18 DEF vars, scan, TypeOK
<1> QED
  BY <1>1, <1>2, <1>3, <1>4, <1>5, <1>6, <1>7, <1>8, <1>9, <1>10, <1>11, <1>12, <1>13,
     <1>14, <1>15, <1>16, <1>17, <1>18 DEF Next, Acceptor, WorkerThread
(* init_count is incremented by each worker once. *)
LEMMA InitCountedStep == IInv /\ [Next]_vars => InitCounted'
<1> SUFFICES ASSUME IInv, [Next]_vars PROVE InitCounted'
  OBVIOUS
<1>0. worker \in [Workers -> WorkerStates] /\ initCount = Cardinality(Ready)
  BY DEF IInv, TypeOK, InitCounted
<1>1. ASSUME NEW w \in Workers, CountInit(w) PROVE InitCounted'
  <2>1. Ready' = Ready \cup {w} /\ w \notin Ready
    BY <1>0, <1>1 DEF CountInit, Ready
  <2>2. Cardinality(Ready \cup {w}) = Cardinality(Ready) + 1
    BY <2>1, ReadyFacts, FS_AddElement
  <2> QED
    BY <1>0, <1>1, <2>1, <2>2 DEF CountInit, InitCounted
<1>2. ASSUME NEW w \in Workers, ResetQueueLength(w) \/ ExitWorker(w) PROVE InitCounted'
  <2>1. Ready' = Ready /\ initCount' = initCount
    BY <1>0, <1>2 DEF ResetQueueLength, ExitWorker, Ready
  <2> QED
    BY <1>0, <2>1 DEF InitCounted
<1>3. ASSUME NEW c \in Conns, BlockInWrite(c) PROVE InitCounted'
  <2>1. Ready' = Ready /\ initCount' = initCount
    BY <1>0, <1>3 DEF BlockInWrite, Serves, Ready
  <2> QED
    BY <1>0, <2>1 DEF InitCounted
<1>4. CASE UNCHANGED <<worker, initCount>>
  <2>1. Ready' = Ready
    BY <1>4 DEF Ready
  <2> QED
    BY <1>0, <1>4, <2>1 DEF InitCounted
<1> QED
  BY <1>1, <1>2, <1>3, <1>4
  DEF Next, Acceptor, WorkerThread, vars, PassBarrier, BeginPick, CheckLoop, ReadFirst,
      ReadSecond, CreateConn, EndAcceptHandler, StopNext, Return, Accepted, Signal,
      FinishConn, StartConn

(* The three conjuncts that speak of the existing objects. *)
LEMMA ObjectsStep == IInv /\ [Next]_vars => Barrier' /\ Housed' /\ QueueLengthExact'
<1> SUFFICES ASSUME IInv, [Next]_vars PROVE Barrier' /\ Housed' /\ QueueLengthExact'
  OBVIOUS
<1>0. /\ initCount \in 0..N /\ qlen \in [Workers -> Nat] /\ conn \in [Conns -> ConnStates]
      /\ N \in Nat
  BY ServerAssumption DEF IInv, TypeOK
<1>1. ASSUME NEW w \in Workers, ResetQueueLength(w)
      PROVE  Barrier' /\ Housed' /\ QueueLengthExact'
  <2>1. qlen' = qlen
    BY <1>0, <1>1, ResetStep DEF ResetQueueLength
  <2> QED
    BY <1>1, <2>1 DEF ResetQueueLength, IInv, Barrier, Housed, QueueLengthExact
<1>2. ASSUME NEW w \in Workers, CountInit(w)
      PROVE  Barrier' /\ Housed' /\ QueueLengthExact'
  <2>1. w \notin Ready /\ Ready # Workers
    BY <1>2 DEF CountInit, Ready
  <2>2. main = "barrier"
    BY <2>1, ReadyFacts DEF IInv, Barrier, InitCounted
  <2> QED
    BY <1>2, <2>2 DEF CountInit, IInv, Barrier, Housed, QueueLengthExact
<1>3. ASSUME NEW c \in Conns, conn[c] # "fresh", Destroyed(c), UNCHANGED <<main, initCount>>
      PROVE  Barrier' /\ Housed' /\ QueueLengthExact'
  <2>1. main # "barrier"
    BY <1>3 DEF IInv, Barrier, Housed
  <2> QED
    BY <1>3, <2>1, DestroyedStep DEF IInv, Barrier
<1>4. ASSUME NEW c \in Conns, CreateConn(c)
      PROVE  Barrier' /\ Housed' /\ QueueLengthExact'
  BY <1>4, CreateStep DEF CreateConn, IInv, Barrier
<1>5. ASSUME NEW c \in Conns, NEW o \in {"posted", "failed"}, Accepted(c, o)
      PROVE  Barrier' /\ Housed' /\ QueueLengthExact'
  BY <1>0, <1>5 DEF Accepted, IInv, Barrier, Housed, QueueLengthExact
<1>6. ASSUME NEW c \in Conns, StartConn(c)
      PROVE  Barrier' /\ Housed' /\ QueueLengthExact'
  BY <1>0, <1>6 DEF StartConn, IInv, Barrier, Housed, QueueLengthExact
<1>7. CASE EndAcceptHandler
  <2>1. main' = "waiting" /\ main = "ending" /\ initCount' = initCount
    BY <1>7 DEF EndAcceptHandler
  <2>2. CASE \E c \in Conns : conn[c] = "failed"
    <3>1. PICK c \in Conns : conn[c] = "failed" /\ Destroyed(c)
      BY <1>7, <2>2 DEF EndAcceptHandler
    <3> QED
      BY <2>1, <3>1, DestroyedStep DEF IInv, Barrier
  <2>3. CASE ~\E c \in Conns : conn[c] = "failed"
    BY <1>7, <2>1, <2>3 DEF EndAcceptHandler, IInv, Barrier, Housed, QueueLengthExact
  <2> QED
    BY <2>2, <2>3
<1>8. CASE UNCHANGED <<initCount, qlen, conn, home>>
           /\ (main' # "barrier" => main # "barrier" \/ initCount = N)
           /\ (main' = "barrier" => main = "barrier")
  BY <1>8 DEF IInv, Barrier, Housed, QueueLengthExact
<1>9. ASSUME NEW c \in Conns, FinishConn(c)
      PROVE  Barrier' /\ Housed' /\ QueueLengthExact'
  BY <1>3, <1>9 DEF FinishConn
<1> QED
  BY <1>1, <1>2, <1>4, <1>5, <1>6, <1>7, <1>8, <1>9
  DEF Next, Acceptor, WorkerThread, vars, scan, PassBarrier, BeginPick, CheckLoop,
      ReadFirst, ReadSecond, StopNext, Return, Signal, BlockInWrite, ExitWorker

-----------------------------------------------------------------------------
(* The scan.                                                               *)

(* While no acceptor step is taken, lengths that decrease keep the scan. *)
LEMMA DecreaseStep ==
    ASSUME IInv, TypeOK', UNCHANGED <<main, scan>>, \A w \in Workers : qlen'[w] <= qlen[w]
    PROVE  ScanOK' /\ PickIsLeastLoaded'
<1>1. /\ qlen \in [Workers -> Nat] /\ qlen' \in [Workers -> Nat] /\ minIdx \in Workers
      /\ atScan \in [Workers -> Nat] /\ idx \in 0..N /\ N \in Nat
      /\ operand \in [of : {"none", "candidate", "best"}, value : Nat]
      /\ UNCHANGED <<main, minIdx, idx, operand, atScan>>
  BY ServerAssumption DEF IInv, TypeOK, scan
<1>2. main \in {"first", "second"} => idx \in Workers
  BY <1>1 DEF IInv, ScanOK, Workers
<1>3. ASSUME NEW w \in Workers, NEW b \in Nat, qlen[w] <= b PROVE qlen'[w] <= b
  BY <1>1, <1>3
<1>4. Scanning' =>
         /\ \A w \in Workers : qlen'[w] <= atScan[w]
         /\ \A w \in Workers : w < idx => qlen'[minIdx] <= atScan[w]
  BY <1>1, <1>3 DEF IInv, ScanOK, Scanning
<1>5. main = "second" =>
         \/ /\ operand.of = "candidate"
            /\ qlen'[idx] <= operand.value /\ operand.value <= atScan[idx]
         \/ /\ operand.of = "best"
            /\ qlen'[minIdx] <= operand.value
            /\ \A w \in Workers : w < idx => operand.value <= atScan[w]
  BY <1>1, <1>2, <1>3 DEF IInv, ScanOK
<1>6. PickIsLeastLoaded'
  BY <1>1, <1>3 DEF IInv, PickIsLeastLoaded
<1> QED
  BY <1>1, <1>4, <1>5, <1>6 DEF IInv, ScanOK

LEMMA ScanStep == IInv /\ TypeOK' /\ [Next]_vars => ScanOK' /\ PickIsLeastLoaded'
<1> SUFFICES ASSUME IInv, TypeOK', [Next]_vars PROVE ScanOK' /\ PickIsLeastLoaded'
  OBVIOUS
<1> USE DEF Scanning
<1>0. /\ qlen \in [Workers -> Nat] /\ minIdx \in Workers /\ atScan \in [Workers -> Nat]
      /\ idx \in 0..N /\ N \in Nat
      /\ operand \in [of : {"none", "candidate", "best"}, value : Nat]
  BY ServerAssumption DEF IInv, TypeOK
<1>1. CASE BeginPick
  <2>1. /\ main' = "cond" /\ minIdx' = 0 /\ idx' = 1 /\ atScan' = qlen /\ qlen' = qlen
    BY <1>1 DEF BeginPick
  <2>2. \A w \in Workers : w < 1 => w = 0
    BY DEF Workers
  <2> QED
    BY <1>0, <2>1, <2>2 DEF ScanOK, PickIsLeastLoaded
<1>2. CASE CheckLoop
  <2>1. main = "cond" /\ UNCHANGED <<qlen, minIdx, idx, operand, atScan>>
    BY <1>2 DEF CheckLoop, scan
  <2>2. CASE idx < N /\ qlen[minIdx] > 0
    BY <1>2, <2>1, <2>2 DEF CheckLoop, IInv, ScanOK, PickIsLeastLoaded
  <2>3. CASE ~(idx < N /\ qlen[minIdx] > 0)
    <3>1. main' = "create"
      BY <1>2, <2>3 DEF CheckLoop
    <3>2. ASSUME NEW w \in Workers PROVE qlen[minIdx] <= atScan[w]
      <4>1. CASE qlen[minIdx] > 0
        <5>1. w < idx
          BY <1>0, <2>3, <4>1 DEF Workers
        <5> QED
          BY <2>1, <5>1 DEF IInv, ScanOK
      <4>2. CASE ~(qlen[minIdx] > 0)
        BY <1>0, <4>2
      <4> QED
        BY <4>1, <4>2
    <3> QED
      BY <2>1, <3>1, <3>2 DEF ScanOK, PickIsLeastLoaded
  <2> QED
    BY <2>2, <2>3
<1>3. CASE ReadFirst
  <2>1. /\ main = "first" /\ main' = "second"
        /\ UNCHANGED <<qlen, minIdx, idx, atScan>>
        /\ \/ operand' = [of |-> "candidate", value |-> qlen[idx]]
           \/ operand' = [of |-> "best", value |-> qlen[minIdx]]
    BY <1>3 DEF ReadFirst
  <2>2. idx < N /\ idx \in Workers
    BY <1>0, <2>1 DEF IInv, ScanOK, Workers
  <2>3. /\ \A w \in Workers : qlen[w] <= atScan[w]
        /\ \A w \in Workers : w < idx => qlen[minIdx] <= atScan[w]
    BY <2>1 DEF IInv, ScanOK
  <2>4. ScanOK'
    BY <1>0, <2>1, <2>2, <2>3 DEF ScanOK
  <2> QED
    BY <2>1, <2>4 DEF PickIsLeastLoaded
<1>4. CASE ReadSecond
  <2>1. /\ main = "second" /\ main' = "cond" /\ idx' = idx + 1
        /\ minIdx' = IF CandidateIsShorter THEN idx ELSE minIdx
        /\ UNCHANGED <<qlen, atScan>>
    BY <1>4 DEF ReadSecond
  <2>2. idx \in Workers /\ \A w \in Workers : qlen[w] <= atScan[w]
    BY <1>0, <2>1 DEF IInv, ScanOK, Workers
  <2>3. ASSUME NEW w \in Workers, w < idx + 1 PROVE qlen[minIdx'] <= atScan[w]
    <3>1. w < idx \/ w = idx
      BY <1>0, <2>3 DEF Workers
    <3>2. w < idx => qlen[minIdx] <= atScan[w]
      BY <2>1 DEF IInv, ScanOK
    <3>3. CASE /\ operand.of = "candidate"
               /\ qlen[idx] <= operand.value /\ operand.value <= atScan[idx]
      BY <1>0, <2>1, <2>2, <3>1, <3>2, <3>3 DEF CandidateIsShorter
    <3>4. CASE /\ operand.of = "best" /\ qlen[minIdx] <= operand.value
               /\ \A v \in Workers : v < idx => operand.value <= atScan[v]
      BY <1>0, <2>1, <2>2, <3>1, <3>2, <3>4 DEF CandidateIsShorter
    <3> QED
      BY <2>1, <3>3, <3>4 DEF IInv, ScanOK
  <2>4. ScanOK'
    BY <2>1, <2>2, <2>3 DEF ScanOK
  <2> QED
    BY <2>1, <2>4 DEF PickIsLeastLoaded
<1>5. CASE main' \notin {"cond", "first", "second", "create"}
  BY <1>5 DEF ScanOK, PickIsLeastLoaded
<1>6. CASE UNCHANGED <<main, scan, qlen>>
  BY <1>0, <1>6, DecreaseStep
<1>7. ASSUME NEW c \in Conns, FinishConn(c) PROVE ScanOK' /\ PickIsLeastLoaded'
  <2>1. conn[c] # "fresh" /\ Destroyed(c) /\ UNCHANGED <<main, scan>>
    BY <1>7 DEF FinishConn
  <2>2. \A w \in Workers : qlen'[w] <= qlen[w]
    BY <2>1, DestroyedStep
  <2> QED
    BY <2>1, <2>2, DecreaseStep
<1>8. ASSUME NEW w \in Workers, ResetQueueLength(w) PROVE ScanOK' /\ PickIsLeastLoaded'
  <2>1. qlen' = qlen /\ UNCHANGED <<main, scan>>
    BY <1>0, <1>8, ResetStep DEF ResetQueueLength
  <2> QED
    BY <1>6, <2>1
<1> QED
  BY <1>1, <1>2, <1>3, <1>4, <1>5, <1>6, <1>7, <1>8
  DEF Next, Acceptor, WorkerThread, vars, PassBarrier, CreateConn, EndAcceptHandler,
      StopNext, Return, Accepted, Signal, BlockInWrite, ExitWorker, StartConn, CountInit

LEMMA InvStep == IInv /\ [Next]_vars => IInv'
  BY TypeStep, InitCountedStep, ObjectsStep, ScanStep DEF IInv

-----------------------------------------------------------------------------
(* The results.                                                            *)

LEMMA Inductive == Spec => []IInv
  BY InvInit, InvStep, PTL DEF Spec

(* Every variable keeps its type: no queue length is ever decremented below *)
(* zero, where the unsigned atomic of the code would wrap around.          *)
THEOREM ServerTypes == Spec => []TypeOK
<1>1. IInv => TypeOK
  BY DEF IInv
<1> QED
  BY <1>1, Inductive, PTL

(* The queue length of a worker is the number of its Connection objects. *)
THEOREM QueueLengthsAreExact == Spec => []QueueLengthExact
<1>1. IInv => QueueLengthExact
  BY DEF IInv
<1> QED
  BY <1>1, Inductive, PTL

(* No connection is created for a worker that is not initialised. *)
THEOREM BarrierWorks == Spec => []ReadyBeforeUse
  BY ReadyFromInv, Inductive, PTL

(* The worker that is chosen has no more connections than any worker had    *)
(* when the scan began, whatever ends meanwhile and wherever it stops.     *)
THEOREM PicksAreLeastLoaded == Spec => []PickIsLeastLoaded
<1>1. IInv => PickIsLeastLoaded
  BY DEF IInv
<1> QED
  BY <1>1, Inductive, PTL
=============================================================================
