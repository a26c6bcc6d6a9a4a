--------------------------- MODULE WebSocketProofs ---------------------------
(***************************************************************************)
(* Proofs about WebSocket, for any frames of the peer and any number of    *)
(* calls.  The handlers are compositions of a few functions of the         *)
(* connection and of its output; a lemma about each says which of the      *)
(* properties it keeps, and a step of the proof then names the functions   *)
(* that its handler is made of.                                            *)
(***************************************************************************)
EXTENDS WebSocket, SequenceTheorems, TLAPS

Reading == {"MiniHeader", "Length", "Mask", "Payload"}

(* The end of a connection, as its flags and its read show it between two  *)
(* handlers.                                                               *)
EndInv(c, r) ==
    /\ c \in Connection
    /\ c.listed => r # "none" \/ c.cut
    /\ c.called => c.recvClose /\ c.reports > 0
    /\ c.recvClose => c.sentClose /\ r = "none" /\ (c.cut \/ (c.called /\ ~c.listed))
    /\ c.state \in Reading =>
          /\ r # "none" => c.open
          /\ r = "none" /\ ~c.cut => ~c.open /\ c.reports > 0
          /\ ~c.cut /\ ~c.dropped => c.reports = IF r = "none" THEN 1 ELSE 0
    /\ c.state \notin Reading =>
          /\ r = "none" /\ ~c.recvClose
          /\ c.dropped \/ c.reports = 0
          /\ c.state = "Handshake" => c.open

(* What holds of it inside a handler that will read on or end it. *)
Going(c) ==
    /\ c \in Connection
    /\ c.open
    /\ c.called => c.recvClose /\ c.reports > 0
    /\ c.recvClose => c.sentClose /\ c.called
    /\ ~c.cut /\ ~c.dropped => c.reports = IF c.called THEN 1 ELSE 0

(* No write was begun before the handler of the last one had run. *)
Apart(o) ==
    /\ ~o.again
    /\ o.flight.queued = 0 /\ o.flight.gone = 0
    /\ "old" \notin o.queued
    /\ o.flight.sending + Len(o.ready) <= 1
    /\ o.flight.sending = 0 /\ o.ready = <<>> => o.sending = {}

Ordered(o) == o \in Output /\ (~o.overlap => Apart(o))

(* What holds of the output between two handlers: every frame is given to a *)
(* write by the handler that makes it.                                     *)
OutInv(o) == Ordered(o) /\ "new" \notin o.queued

(* A data frame is being read: its header has arrived, and it was not yet   *)
(* handled.                                                                *)
Pending ==
    /\ IsData(frame)
    /\ conn.state \in {"Length", "Mask", "Payload"} \/ (conn.state = "MiniHeader" /\ read = "ok")

(* What the peer has sent and what was made of it differ by that frame; a   *)
(* connection that stopped reading within a frame is of no interest.       *)
MessageInv ==
    peer.proper /\ (read = "none" => conn.state \notin {"Length", "Mask", "Payload"}) =>
        IF Pending
        THEN IF frame.fin THEN peer.done = Joined /\ peer.now = NoMessage
                          ELSE peer.now = Joined /\ delivered = peer.done
        ELSE /\ delivered = peer.done
             /\ inbox.parts = peer.now.parts
             /\ peer.now.parts # <<>> => inbox.binary = peer.now.binary

Rest ==
    /\ read \in {"none", "waiting", "ok", "error"}
    /\ frame \in Frame
    /\ inbox \in Message /\ delivered \in Message
    /\ tasks \in Seq({"send", "close"})
    /\ calls \in Nat /\ frames \in Nat
    /\ peer \in [now : Message, done : Message, proper : BOOLEAN]

IInv == EndInv(conn, read) /\ OutInv(out) /\ Rest /\ MessageInv

-----------------------------------------------------------------------------
(* The functions of the connection. *)

LEMMA ReportedIs ==
    ASSUME NEW c \in Connection
    PROVE  /\ Reported(c) \in Connection
           /\ Reported(c).reports = IF c.reports < 2 THEN c.reports + 1 ELSE c.reports
           /\ Reported(c) = [c EXCEPT !.reports = Reported(c).reports]
BY DEF Reported, Connection

(* check_destroy() removes the connection, unless a callback cuts it off. *)
LEMMA CheckDestroyIs ==
    ASSUME NEW c \in Connection, NEW t
    PROVE  LET d == CheckDestroy(c, t) IN
           /\ d \in Connection
           /\ d.state = c.state /\ d.open = c.open /\ d.dropped = c.dropped
           /\ d.recvClose = c.recvClose /\ d.sentClose = c.sentClose /\ d.called = c.called
           /\ d.cut \/ ~d.listed
           /\ d.listed => c.listed
           /\ c.cut => d.cut
           /\ d.reports = IF c.called \/ c.reports = 2 THEN c.reports ELSE c.reports + 1
<1> DEFINE r == IF c.called THEN c ELSE Reported(c)
           d == CheckDestroy(c, t)
<1>1. c.reports \in 0..2
  BY DEF Connection
<1>2. /\ r \in Connection
      /\ r.state = c.state /\ r.open = c.open /\ r.dropped = c.dropped /\ r.cut = c.cut
      /\ r.recvClose = c.recvClose /\ r.sentClose = c.sentClose /\ r.called = c.called
      /\ r.listed = c.listed
      /\ r.reports = IF c.called \/ c.reports = 2 THEN c.reports ELSE c.reports + 1
  <2>1. CASE c.called
    BY <2>1
  <2>2. CASE ~c.called
    BY <1>1, <2>2, ReportedIs DEF Connection
  <2>3. QED
    BY <2>1, <2>2
<1>3. d = [r EXCEPT !.cut = TRUE] \/ d = [r EXCEPT !.listed = FALSE]
  BY DEF CheckDestroy
<1> HIDE DEF d, r
<1>4. d \in Connection
  BY <1>2, <1>3 DEF Connection
<1>5. /\ d.state = r.state /\ d.open = r.open /\ d.dropped = r.dropped
      /\ d.recvClose = r.recvClose /\ d.sentClose = r.sentClose /\ d.called = r.called
      /\ d.reports = r.reports
  BY <1>2, <1>3 DEF Connection
<1>6. (d.cut \/ ~d.listed) /\ (d.listed => r.listed) /\ (r.cut => d.cut)
  BY <1>2, <1>3 DEF Connection
<1>7. QED
  BY <1>2, <1>4, <1>5, <1>6 DEF d

LEMMA ClosedIs ==
    ASSUME NEW c \in Connection
    PROVE  LET d == Closed(c) IN
           /\ d \in Connection
           /\ d.state = c.state /\ d.open = c.open /\ d.dropped = c.dropped
           /\ d.recvClose = c.recvClose /\ d.listed = c.listed /\ d.cut = c.cut
           /\ d.sentClose
           /\ d.called = (c.called \/ c.recvClose)
           /\ d.reports = IF d.called = c.called \/ c.reports = 2 THEN c.reports ELSE c.reports + 1
<1> DEFINE r == IF c.recvClose /\ ~c.called THEN Reported(c) ELSE c
           b == c.called \/ c.recvClose
           d == Closed(c)
<1>1. c.reports \in 0..2 /\ c.called \in BOOLEAN /\ c.recvClose \in BOOLEAN
  BY DEF Connection
<1>2. /\ r \in Connection
      /\ r.state = c.state /\ r.open = c.open /\ r.dropped = c.dropped /\ r.cut = c.cut
      /\ r.recvClose = c.recvClose /\ r.listed = c.listed
      /\ r.reports = IF b = c.called \/ c.reports = 2 THEN c.reports ELSE c.reports + 1
  <2>1. CASE c.recvClose /\ ~c.called
    <3>1. r = Reported(c) /\ b # c.called
      BY <1>1, <2>1
    <3>2. QED
      BY <1>1, <3>1, ReportedIs DEF Connection
  <2>2. CASE ~(c.recvClose /\ ~c.called)
    BY <1>1, <2>2
  <2>3. QED
    BY <2>1, <2>2
<1>3. d = [r EXCEPT !.sentClose = TRUE, !.called = b] /\ b \in BOOLEAN
  BY <1>1 DEF Closed
<1> HIDE DEF d, r, b
<1>4. d \in Connection
  BY <1>2, <1>3 DEF Connection
<1>5. /\ d.state = r.state /\ d.open = r.open /\ d.dropped = r.dropped
      /\ d.recvClose = r.recvClose /\ d.listed = r.listed /\ d.cut = r.cut
      /\ d.reports = r.reports
  BY <1>2, <1>3 DEF Connection
<1>6. d.sentClose /\ d.called = b
  BY <1>2, <1>3 DEF Connection
<1>7. QED
  BY <1>2, <1>4, <1>5, <1>6 DEF d, b

-----------------------------------------------------------------------------
(* The functions of the output. *)

LEMMA DoWriteKeeps ==
    ASSUME NEW o, Ordered(o), NEW open, NEW room
    PROVE  OutInv(DoWrite(o, open, room))
<1> DEFINE taken == room /\ InFlight(o) = 0
           waits == open /\ ~taken
           outcome == IF open THEN "sent" ELSE "failed"
<1>1. CASE o.queued = {}
  BY <1>1 DEF DoWrite, OutInv
<1>2. CASE o.queued # {}
  <2>1. o \in Output
    BY DEF Ordered
  <2>2. Append(o.ready, outcome) \in Seq({"sent", "failed"})
        /\ Len(Append(o.ready, outcome)) = Len(o.ready) + 1
    BY <2>1 DEF Output
  <2>3. DoWrite(o, open, room) =
            [sending |-> {"old"}, queued |-> o.sending,
             flight |-> [sending |-> o.flight.queued + (IF waits THEN 1 ELSE 0),
                         queued |-> o.flight.sending, gone |-> o.flight.gone],
             ready |-> IF waits THEN o.ready ELSE Append(o.ready, outcome),
             again |-> o.again \/ "old" \in o.queued,
             overlap |-> o.overlap \/ InFlight(o) > 0 \/ o.ready # <<>>]
    BY <1>2 DEF DoWrite
  <2>4. o.flight.sending \in Nat /\ o.flight.queued \in Nat /\ o.flight.gone \in Nat
    BY <2>1 DEF Output
  <2> DEFINE w == DoWrite(o, open, room)
  <2> HIDE DEF waits, taken, outcome
  <2>5. w \in Output /\ "new" \notin w.queued
    <3>1. (o.again \/ "old" \in o.queued) \in BOOLEAN
          /\ (o.overlap \/ InFlight(o) > 0 \/ o.ready # <<>>) \in BOOLEAN
      BY <2>1 DEF Output
    <3>2. (IF waits THEN o.ready ELSE Append(o.ready, outcome)) \in Seq({"sent", "failed"})
      BY <2>1, <2>2 DEF Output
    <3>3. o.sending \in SUBSET {"old"}
      BY <2>1 DEF Output
    <3>4. o.flight.queued + (IF waits THEN 1 ELSE 0) \in Nat
      BY <2>4
    <3>5. QED
      BY <2>3, <2>4, <3>1, <3>2, <3>3, <3>4 DEF Output
  <2>6. ASSUME ~w.overlap PROVE Apart(w)
    <3>0. ~(o.overlap \/ InFlight(o) > 0 \/ o.ready # <<>>) /\ InFlight(o) \in Nat
      <4>1. w.overlap = (o.overlap \/ InFlight(o) > 0 \/ o.ready # <<>>)
        BY <2>3
      <4>2. InFlight(o) \in Nat
        BY <2>4 DEF InFlight
      <4>3. QED
        BY <2>6, <4>1, <4>2
    <3>1. ~o.overlap /\ InFlight(o) = 0 /\ o.ready = <<>>
      BY <3>0
    <3>2. o.flight.sending = 0 /\ o.flight.queued = 0 /\ o.flight.gone = 0
      BY <2>4, <3>1 DEF InFlight
    <3>3. o.sending = {} /\ ~o.again /\ "old" \notin o.queued
      BY <3>1, <3>2 DEF Ordered, Apart
    <3>4. w.flight.queued = 0 /\ w.flight.gone = 0 /\ ~w.again /\ w.queued = {}
      <4>1. w.flight.queued = o.flight.sending /\ w.flight.gone = o.flight.gone
            /\ w.queued = o.sending /\ w.again = (o.again \/ "old" \in o.queued)
        BY <2>3
      <4>2. QED
        BY <3>2, <3>3, <4>1
    <3>5. Len(o.ready) = 0
      BY <3>1
    <3>6. \/ w.flight.sending = 1 /\ w.ready = o.ready
          \/ w.flight.sending = 0 /\ w.ready = Append(o.ready, outcome)
      BY <2>3, <3>2
    <3>7. w.flight.sending + Len(w.ready) = 1 /\ ~(w.flight.sending = 0 /\ w.ready = <<>>)
      BY <2>2, <3>5, <3>6
    <3>8. QED
      BY <3>4, <3>7 DEF Apart
  <2>7. QED
    BY <2>5, <2>6 DEF OutInv, Ordered
<1>3. QED
  BY <1>1, <1>2

LEMMA PushKeeps ==
    ASSUME NEW o, OutInv(o), NEW grows
    PROVE  Ordered(Push(o, grows))
<1> DEFINE f == IF grows THEN [sending |-> o.flight.sending, queued |-> 0,
                               gone |-> o.flight.gone + o.flight.queued]
                         ELSE o.flight
<1>1. Push(o, grows) = [o EXCEPT !.queued = @ \cup {"new"}, !.flight = f]
  BY DEF Push
<1>2. o \in Output
  BY DEF OutInv, Ordered
<1>3. /\ f \in [sending : Nat, queued : Nat, gone : Nat] /\ f.sending = o.flight.sending
      /\ o.flight.queued = 0 /\ o.flight.gone = 0 => f.queued = 0 /\ f.gone = 0
  BY <1>2 DEF Output
<1> DEFINE p == Push(o, grows)
<1> HIDE DEF f
<1>4. /\ p.sending = o.sending /\ p.queued = o.queued \cup {"new"} /\ p.flight = f
      /\ p.ready = o.ready /\ p.again = o.again /\ p.overlap = o.overlap
  BY <1>1, <1>2 DEF Output
<1>5. p \in Output
  BY <1>1, <1>2, <1>3 DEF Output
<1> HIDE DEF p
<1>6. (~p.overlap => Apart(p))
  BY <1>3, <1>4 DEF OutInv, Ordered, Apart
<1>7. QED
  BY <1>5, <1>6 DEF Ordered, p

LEMMA EmitKeeps ==
    ASSUME NEW o, OutInv(o), NEW open, NEW io
    PROVE  OutInv(Emit(o, open, io))
BY PushKeeps, DoWriteKeeps DEF Emit

LEMMA CloseEmitsKeeps ==
    ASSUME NEW c, NEW o, OutInv(o), NEW io, NEW t
    PROVE  OutInv(CloseEmits(c, o, io, t))
BY EmitKeeps DEF CloseEmits

LEMMA AbortKeeps ==
    ASSUME NEW o, OutInv(o)
    PROVE  OutInv(Abort(o))
<1> DEFINE none == [sending |-> 0, queued |-> 0, gone |-> 0]
           n == InFlight(o)
           fails == [k \in 1..n |-> "failed"]
           a == o.ready \o fails
<1>1. o \in Output /\ n \in Nat
  BY DEF OutInv, Ordered, Output, InFlight
<1>2. fails \in Seq({"sent", "failed"}) /\ Len(fails) = n
  BY <1>1
<1>3. o.ready \in Seq({"sent", "failed"})
  BY <1>1 DEF Output
<1> HIDE DEF fails, n
<1>4. a \in Seq({"sent", "failed"}) /\ Len(a) = Len(o.ready) + n
  BY <1>2, <1>3, ConcatProperties
<1>5. Abort(o) = [o EXCEPT !.flight = none, !.ready = a]
  BY DEF Abort, fails, n
<1> HIDE DEF a
<1>6. Abort(o) \in Output /\ "new" \notin Abort(o).queued
  <2>1. none \in [sending : Nat, queued : Nat, gone : Nat]
    OBVIOUS
  <2> HIDE DEF none
  <2>2. Abort(o) \in Output
    BY <1>1, <1>4, <1>5, <2>1 DEF Output
  <2>3. Abort(o).queued = o.queued
    BY <1>1, <1>5 DEF Output
  <2>4. QED
    BY <2>2, <2>3 DEF OutInv
<1>7. ASSUME ~Abort(o).overlap PROVE Apart(Abort(o))
  <2>1. Apart(o)
    BY <1>1, <1>5, <1>7 DEF OutInv, Ordered, Output
  <2>2. n = o.flight.sending /\ o.flight.sending \in Nat
    BY <1>1, <2>1 DEF Apart, n, InFlight, Output
  <2>3. Len(a) <= 1
    BY <1>4, <2>1, <2>2 DEF Apart
  <2>4. ASSUME a = <<>> PROVE o.sending = {}
    <3>1. Len(a) = 0
      BY <2>4
    <3> DEFINE m == Len(o.ready)
    <3>2. m \in Nat /\ Len(a) = m + n
      BY <1>3, <1>4
    <3> HIDE DEF m
    <3>3. n = 0 /\ m = 0
      BY <1>1, <3>1, <3>2
    <3>4. o.ready = <<>>
      BY <1>3, <3>3, EmptySeq DEF m
    <3>5. QED
      BY <2>1, <2>2, <3>3, <3>4 DEF Apart
  <2>5. QED
    BY <1>1, <1>4, <1>5, <2>1, <2>3, <2>4 DEF Apart, Output
<1>8. QED
  BY <1>6, <1>7 DEF OutInv, Ordered

-----------------------------------------------------------------------------
(* Steps that several handlers have in common. *)

LEMMA EndKeeps ==
    ASSUME NEW c, Going(c), c.state \in Reading, NEW o, OutInv(o), NEW t, End(c, o, t)
    PROVE  EndInv(conn', "none") /\ read' = "none" /\ OutInv(out') /\ conn'.state = c.state
<1> DEFINE d == [c EXCEPT !.closing = TRUE, !.open = FALSE]
<1>1. /\ d \in Connection /\ ~d.open /\ d.state = c.state /\ d.dropped = c.dropped
      /\ d.recvClose = c.recvClose /\ d.sentClose = c.sentClose /\ d.called = c.called
      /\ d.cut = c.cut /\ d.reports = c.reports
  BY DEF Going, Connection
<1>2. conn' = CheckDestroy(d, t) /\ out' = Abort(o) /\ read' = "none"
  BY DEF End, Ended
<1> HIDE DEF d
<1>3. /\ conn' \in Connection
      /\ conn'.state = c.state /\ ~conn'.open /\ conn'.dropped = c.dropped
      /\ conn'.recvClose = c.recvClose /\ conn'.sentClose = c.sentClose
      /\ conn'.called = c.called
      /\ conn'.cut \/ ~conn'.listed
      /\ c.cut => conn'.cut
      /\ conn'.reports = IF c.called \/ c.reports = 2 THEN c.reports ELSE c.reports + 1
  BY <1>1, <1>2, CheckDestroyIs
<1>4. c.reports \in 0..2
  BY DEF Going, Connection
<1>5. EndInv(conn', "none")
  BY <1>3, <1>4 DEF Going, EndInv
<1>6. QED
  BY <1>2, <1>3, <1>5, AbortKeeps

(* A handler that is cut off leaves less to be shown. *)
LEMMA CutOffKeeps ==
    ASSUME NEW c \in Connection, c.state \in Reading,
           c.called => c.recvClose /\ c.reports > 0, c.recvClose => c.sentClose,
           NEW o, OutInv(o), CutOff(c, o)
    PROVE  EndInv(conn', "none") /\ read' = "none" /\ OutInv(out') /\ conn'.state = c.state
BY DEF CutOff, EndInv, Connection

LEMMA FailKeeps ==
    ASSUME NEW c, Going(c), c.state \in Reading, NEW o, OutInv(o), NEW early \in BOOLEAN, NEW t,
           Fail(c, o, early, t)
    PROVE  EndInv(conn', "none") /\ read' = "none" /\ OutInv(out') /\ conn'.state = c.state
<1>1. CASE End(c, o, t)
  BY <1>1, EndKeeps
<1>2. CASE CutOff([c EXCEPT !.closing = TRUE, !.open = ~early], IF early THEN Abort(o) ELSE o)
  <2> DEFINE d == [c EXCEPT !.closing = TRUE, !.open = ~early]
  <2>1. /\ d \in Connection /\ d.state = c.state /\ d.called = c.called /\ d.reports = c.reports
        /\ d.recvClose = c.recvClose /\ d.sentClose = c.sentClose
    BY DEF Going, Connection
  <2>2. OutInv(IF early THEN Abort(o) ELSE o)
    BY AbortKeeps
  <2>3. CutOff(d, IF early THEN Abort(o) ELSE o)
    BY <1>2
  <2> HIDE DEF d
  <2>4. QED
    BY <2>1, <2>2, <2>3, CutOffKeeps DEF Going
<1>3. QED
  BY <1>1, <1>2 DEF Fail

LEMMA DoReadKeeps ==
    ASSUME NEW c, Going(c), NEW o, OutInv(o), NEW s \in Reading, NEW t,
           DoRead(c, o, s, t)
    PROVE  /\ EndInv(conn', read') /\ OutInv(out')
           /\ read' \in {"none", "waiting"}
           /\ conn'.state = s \/ (s = "Mask" /\ conn'.state = "Payload")
<1> DEFINE d == [c EXCEPT !.state = s]
<1>1. Going(d) /\ d.state = s /\ d.recvClose = c.recvClose /\ d.sentClose = c.sentClose
  BY DEF Going, Connection, Reading
<1>2. CASE c.sentClose /\ c.recvClose
  <2>1. End(d, o, t)
    BY <1>2 DEF DoRead
  <2> HIDE DEF d
  <2>2. QED
    BY <1>1, <2>1, EndKeeps
<1>3. CASE ~(c.sentClose /\ c.recvClose) /\ s = "Mask" /\ frame.length = "huge"
  <2>1. Fail(d, o, TRUE, t)
    BY <1>3 DEF DoRead
  <2> HIDE DEF d
  <2>2. QED
    BY <1>1, <2>1, FailKeeps
<1>4. CASE ~(c.sentClose /\ c.recvClose) /\ ~(s = "Mask" /\ frame.length = "huge")
  <2> DEFINE u == IF s = "Mask" /\ ~frame.masked THEN "Payload" ELSE s
  <2>1. conn' = [d EXCEPT !.state = u] /\ out' = o /\ read' = "waiting"
    BY <1>4 DEF DoRead
  <2>2. u \in Reading /\ (u = s \/ (s = "Mask" /\ u = "Payload"))
    BY DEF Reading
  <2>3. ~d.recvClose /\ ~d.called
    BY <1>1, <1>4 DEF Going
  <2> HIDE DEF u, d
  <2>4. conn'.state = u /\ EndInv(conn', "waiting")
    BY <1>1, <2>1, <2>2, <2>3 DEF Going, EndInv, Connection, Reading
  <2>5. QED
    BY <2>1, <2>2, <2>4
<1>5. QED
  BY <1>2, <1>3, <1>4

(* A callback may close the connection. *)
LEMMA CallbackKeeps ==
    ASSUME NEW c, Going(c), NEW o, OutInv(o), NEW closes \in BOOLEAN, NEW io, NEW t
    PROVE  /\ Going(AfterCallback(c, o, closes, io, t).conn)
           /\ AfterCallback(c, o, closes, io, t).conn.state = c.state
           /\ OutInv(AfterCallback(c, o, closes, io, t).out)
<1>1. CASE closes
  <2>1. AfterCallback(c, o, closes, io, t)
            = [conn |-> Closed(c), out |-> CloseEmits(c, o, io, t)]
    BY <1>1 DEF AfterCallback
  <2>2. Going(Closed(c)) /\ Closed(c).state = c.state
    BY ClosedIs DEF Going, Connection
  <2>3. QED
    BY <2>1, <2>2, CloseEmitsKeeps
<1>2. CASE ~closes
  <2>1. AfterCallback(c, o, closes, io, t) = [conn |-> c, out |-> o]
    BY <1>2 DEF AfterCallback
  <2>2. QED
    BY <2>1
<1>3. QED
  BY <1>1, <1>2

(* A read is under way or has just completed: the connection is not ended. *)
LEMMA ReadingIsGoing ==
    ASSUME IInv, read # "none"
    PROVE  Going(conn) /\ ~conn.recvClose /\ ~conn.called /\ conn.state \in Reading
BY DEF IInv, EndInv, Going

(* What is not about a frame leaves the messages alone. *)
LEMMA MessagesStay ==
    ASSUME MessageInv, conn'.state = conn.state,
           UNCHANGED <<read, frame, inbox, frames, delivered, peer>>
    PROVE  MessageInv'
BY DEF MessageInv, Pending, IsData, Joined

LEMMA InitKeeps == Init => IInv
<1> SUFFICES ASSUME Init PROVE IInv
  OBVIOUS
<1>1. EndInv(conn, read)
  BY DEF Init, EndInv, Connection, Reading
<1>2. OutInv(out)
  BY DEF Init, OutInv, Ordered, Apart, Output
<1>3. frame \in Frame
  BY WebSocketAssumption DEF Init
<1>4. NoMessage \in Message
  BY DEF NoMessage, Message
<1>5. peer \in [now : Message, done : Message, proper : BOOLEAN]
  BY <1>4 DEF Init
<1>6. Rest
  BY <1>3, <1>4, <1>5 DEF Init, Rest
<1>7. ~Pending
  BY DEF Init, Pending
<1>8. MessageInv
  BY <1>7 DEF Init, MessageInv, NoMessage
<1>9. QED
  BY <1>1, <1>2, <1>6, <1>8 DEF IInv

-----------------------------------------------------------------------------
(* One lemma per action, or per kind of action. *)

LEMMA StartKeeps ==
    ASSUME IInv, NEW closes \in BOOLEAN, NEW io \in Chances, NEW t, Start(closes, io, t)
    PROVE  IInv'
<1> DEFINE c == [conn EXCEPT !.listed = TRUE, !.state = "MiniHeader"]
           e == Emit(out, TRUE, io)
           r == AfterCallback(c, e, closes, io, t)
<1>1. /\ conn.state = "Handshake"
      /\ CutOff(r.conn, r.out) \/ DoRead(r.conn, r.out, "MiniHeader", t)
      /\ UNCHANGED <<frame, inbox, tasks, calls, frames, delivered, peer>>
  BY DEF Start
<1>2. conn \in Connection /\ EndInv(conn, read)
  BY DEF IInv, EndInv
<1>3. Going(c) /\ c.state = "MiniHeader"
  BY <1>1, <1>2 DEF EndInv, Going, Connection, Reading
<1>4. OutInv(e)
  BY EmitKeeps DEF IInv
<1> HIDE DEF c, e
<1>5. Going(r.conn) /\ r.conn.state = "MiniHeader" /\ OutInv(r.out)
  BY <1>3, <1>4, CallbackKeeps
<1> HIDE DEF r
<1>6. /\ EndInv(conn', read') /\ OutInv(out') /\ read' \in {"none", "waiting"}
      /\ conn'.state = "MiniHeader"
  <2>1. CASE CutOff(r.conn, r.out)
    BY <1>5, <2>1, CutOffKeeps DEF Going, Reading
  <2>2. CASE DoRead(r.conn, r.out, "MiniHeader", t)
    BY <1>5, <2>2, DoReadKeeps DEF Reading
  <2>3. QED
    BY <1>1, <2>1, <2>2
<1>7. Rest'
  BY <1>1, <1>6 DEF IInv, Rest
<1>8. ~Pending /\ ~Pending'
  BY <1>1, <1>6 DEF Pending
<1>9. MessageInv'
  BY <1>1, <1>8 DEF IInv, MessageInv
<1>10. QED
  BY <1>6, <1>7, <1>9 DEF IInv

LEMMA RefuseKeeps ==
    ASSUME IInv, Refuse
    PROVE  IInv'
<1>1. EndInv(conn', read')
  BY DEF Refuse, IInv, EndInv, Connection, Reading
<1>2. conn'.state = "Refused"
  BY DEF Refuse, IInv, EndInv, Connection
<1>3. ~Pending /\ ~Pending'
  BY <1>2 DEF Refuse, Pending
<1>4. MessageInv'
  BY <1>3 DEF Refuse, IInv, MessageInv
<1>5. QED
  BY <1>1, <1>4 DEF Refuse, IInv, Rest

LEMMA CallKeeps ==
    ASSUME IInv, NEW task \in {"send", "close"}, Call(task)
    PROVE  IInv'
<1>1. tasks' \in Seq({"send", "close"}) /\ calls' \in Nat
  BY DEF Call, IInv, Rest
<1>2. Rest'
  BY <1>1 DEF Call, IInv, Rest
<1>3. MessageInv'
  BY MessagesStay DEF Call, IInv
<1>4. QED
  BY <1>2, <1>3 DEF Call, IInv

(* A handler changes the flags as close() does, or not at all. *)
LEMMA RunTaskKeeps ==
    ASSUME IInv, NEW io \in Chances, NEW t, RunTask(io, t)
    PROVE  IInv'
<1>1. Tail(tasks) \in Seq({"send", "close"})
  BY DEF RunTask, IInv, Rest
<1>2. Rest'
  BY <1>1 DEF RunTask, IInv, Rest
<1>3. OutInv(out')
  BY EmitKeeps, CloseEmitsKeeps DEF RunTask, IInv
<1>4. conn' = Closed(conn) \/ conn' = conn
  BY DEF RunTask
<1>5. EndInv(conn, read) /\ conn \in Connection
  BY DEF IInv, EndInv
<1>6. EndInv(conn', read) /\ conn'.state = conn.state
  <2>1. CASE conn' = conn
    BY <1>5, <2>1
  <2>2. CASE conn' = Closed(conn)
    <3>1. /\ conn' \in Connection
          /\ conn'.state = conn.state /\ conn'.open = conn.open /\ conn'.dropped = conn.dropped
          /\ conn'.recvClose = conn.recvClose /\ conn'.listed = conn.listed
          /\ conn'.cut = conn.cut /\ conn'.sentClose
          /\ conn'.called = (conn.called \/ conn.recvClose)
          /\ conn'.reports = IF conn'.called = conn.called \/ conn.reports = 2
                             THEN conn.reports ELSE conn.reports + 1
      BY <1>5, <2>2, ClosedIs
    <3>2. conn.reports \in 0..2 /\ conn.called \in BOOLEAN /\ conn.recvClose \in BOOLEAN
      BY <1>5 DEF Connection
    <3>3. QED
      BY <1>5, <3>1, <3>2 DEF EndInv
  <2>3. QED
    BY <1>4, <2>1, <2>2
<1>7. MessageInv'
  BY <1>6, MessagesStay DEF RunTask, IInv
<1>8. QED
  BY <1>2, <1>3, <1>6, <1>7 DEF RunTask, IInv

(* The handler of a write may drop the connection, and reads on. *)
LEMMA RunWrittenKeeps ==
    ASSUME IInv, NEW room \in BOOLEAN, NEW t, RunWritten(room, t)
    PROVE  IInv'
<1> DEFINE q == [out EXCEPT !.ready = Tail(@)]
           o == Cleared(q)
<1>1. Ordered(o) /\ "new" \notin o.queued
  <2>1. out \in Output /\ out.ready # <<>>
    BY DEF RunWritten, IInv, OutInv, Ordered
  <2>2. /\ Tail(out.ready) \in Seq({"sent", "failed"})
        /\ Len(Tail(out.ready)) = Len(out.ready) - 1 /\ Len(out.ready) > 0
    BY <2>1 DEF Output
  <2>3. /\ o.ready = Tail(out.ready) /\ o.queued = out.queued /\ o.sending = {}
        /\ o.again = out.again /\ o.overlap = out.overlap
        /\ o.flight.sending = 0 /\ o.flight.queued = out.flight.queued
        /\ o.flight.gone = out.flight.gone + out.flight.sending
        /\ o \in Output
    <3>1. /\ q.ready = Tail(out.ready) /\ q.queued = out.queued /\ q.flight = out.flight
          /\ q.again = out.again /\ q.overlap = out.overlap /\ q \in Output
      BY <2>1, <2>2 DEF Output
    <3> DEFINE f == [sending |-> 0, queued |-> q.flight.queued,
                     gone |-> q.flight.gone + q.flight.sending]
    <3>2. o = [q EXCEPT !.sending = {}, !.flight = f]
      BY DEF Cleared
    <3> HIDE DEF q, o
    <3>3. /\ f \in [sending : Nat, queued : Nat, gone : Nat] /\ f.sending = 0
          /\ f.queued = q.flight.queued /\ f.gone = q.flight.gone + q.flight.sending
      BY <3>1 DEF Output
    <3> HIDE DEF f
    <3>4. o \in Output /\ o.sending = {} /\ o.flight = f
      BY <3>1, <3>2, <3>3 DEF Output
    <3>5. o.ready = q.ready /\ o.queued = q.queued /\ o.again = q.again /\ o.overlap = q.overlap
      BY <3>1, <3>2 DEF Output
    <3>6. QED
      BY <3>1, <3>3, <3>4, <3>5
  <2>4. ASSUME ~o.overlap PROVE Apart(o)
    <3> DEFINE m == Len(out.ready)
               k == Len(Tail(out.ready))
    <3>1. Apart(out)
      BY <2>3, <2>4 DEF IInv, OutInv, Ordered
    <3>2. out.flight.sending \in Nat /\ m \in Nat /\ m > 0 /\ k = m - 1
      BY <2>1, <2>2 DEF Output
    <3>3. out.flight.sending + m <= 1
      BY <3>1 DEF Apart
    <3>4. ~out.again /\ out.flight.queued = 0 /\ out.flight.gone = 0 /\ "old" \notin out.queued
      BY <3>1 DEF Apart
    <3>5. Len(o.ready) = k
      BY <2>3
    <3> HIDE DEF m, k
    <3>6. out.flight.sending = 0 /\ Len(o.ready) = 0
      BY <3>2, <3>3, <3>5
    <3>7. o.flight.sending + Len(o.ready) <= 1 /\ o.flight.gone = 0
      BY <2>3, <3>4, <3>6
    <3>8. QED
      BY <2>3, <3>4, <3>7 DEF Apart
  <2>5. QED
    BY <2>3, <2>4 DEF IInv, OutInv, Ordered
<1>2. \/ out' = DoWrite(o, conn.open, room) /\ conn' = [conn EXCEPT !.closing = conn.sentClose]
      \/ /\ out' = o
         /\ conn' = CheckDestroy([conn EXCEPT !.closing = TRUE, !.dropped = TRUE], t)
  BY DEF RunWritten
<1> HIDE DEF o
<1>3. OutInv(out')
  BY <1>1, <1>2, DoWriteKeeps DEF OutInv
<1>4. conn \in Connection /\ EndInv(conn, read)
  BY DEF IInv, EndInv
<1>5. EndInv(conn', read) /\ conn'.state = conn.state
  <2>1. CASE conn' = [conn EXCEPT !.closing = conn.sentClose]
    BY <1>4, <2>1 DEF EndInv, Connection
  <2>2. CASE conn' = CheckDestroy([conn EXCEPT !.closing = TRUE, !.dropped = TRUE], t)
    <3> DEFINE d == [conn EXCEPT !.closing = TRUE, !.dropped = TRUE]
    <3>1. /\ d \in Connection /\ d.dropped /\ d.state = conn.state /\ d.open = conn.open
          /\ d.recvClose = conn.recvClose /\ d.sentClose = conn.sentClose
          /\ d.called = conn.called /\ d.cut = conn.cut /\ d.reports = conn.reports
          /\ d.listed = conn.listed
      BY <1>4 DEF Connection
    <3> HIDE DEF d
    <3>2. conn' = CheckDestroy(d, t)
      BY <2>2 DEF d
    <3>3. /\ conn' \in Connection
          /\ conn'.state = conn.state /\ conn'.open = conn.open /\ conn'.dropped
          /\ conn'.recvClose = conn.recvClose /\ conn'.sentClose = conn.sentClose
          /\ conn'.called = conn.called
          /\ conn'.listed => conn.listed
          /\ conn.cut => conn'.cut
          /\ conn'.cut \/ ~conn'.listed
          /\ conn'.reports = IF conn.called \/ conn.reports = 2 THEN conn.reports
                             ELSE conn.reports + 1
      BY <3>1, <3>2, CheckDestroyIs
    <3>4. conn.reports \in 0..2
      BY <1>4 DEF Connection
    <3>5. QED
      BY <1>4, <3>3, <3>4 DEF EndInv
  <2>3. QED
    BY <1>2, <2>1, <2>2
<1>6. MessageInv'
  BY <1>5, MessagesStay DEF RunWritten, IInv
<1>7. QED
  BY <1>3, <1>5, <1>6 DEF RunWritten, IInv, Rest

LEMMA CompleteKeeps ==
    ASSUME IInv, NEW place \in {"sending", "queued", "gone"}, NEW outcome \in {"sent", "failed"},
           Complete(place, outcome)
    PROVE  IInv'
<1> DEFINE f == [out.flight EXCEPT ![place] = @ - 1]
           a == Append(out.ready, outcome)
<1>1. out' = [out EXCEPT !.flight = f, !.ready = a] /\ out.flight[place] > 0
  BY DEF Complete
<1>2. out \in Output
  BY DEF IInv, OutInv, Ordered
<1>3. a \in Seq({"sent", "failed"}) /\ Len(a) = Len(out.ready) + 1 /\ a # <<>>
  BY <1>2 DEF Output
<1>4. f \in [sending : Nat, queued : Nat, gone : Nat]
  BY <1>1, <1>2 DEF Output
<1>5. f.sending = IF place = "sending" THEN out.flight.sending - 1 ELSE out.flight.sending
  BY <1>2 DEF Output
<1>6. f.queued = (IF place = "queued" THEN out.flight.queued - 1 ELSE out.flight.queued)
      /\ f.gone = (IF place = "gone" THEN out.flight.gone - 1 ELSE out.flight.gone)
  BY <1>2 DEF Output
<1> HIDE DEF f, a
<1>7. out' \in Output /\ "new" \notin out'.queued
  BY <1>1, <1>2, <1>3, <1>4 DEF IInv, OutInv, Output
<1>8. ASSUME ~out'.overlap PROVE Apart(out')
  <2>1. Apart(out)
    BY <1>1, <1>2, <1>8 DEF IInv, OutInv, Ordered, Output
  <2>2. place = "sending"
    BY <1>1, <2>1 DEF Apart
  <2>3. out'.flight = f /\ out'.ready = a /\ out'.again = out.again /\ out'.queued = out.queued
    BY <1>1, <1>2 DEF Output
  <2>4. out.flight.sending \in Nat /\ Len(out.ready) \in Nat
    BY <1>2 DEF Output
  <2>5. QED
    BY <1>3, <1>5, <1>6, <2>1, <2>2, <2>3, <2>4 DEF Apart
<1>9. MessageInv'
  BY MessagesStay DEF Complete, IInv
<1>10. QED
  BY <1>7, <1>8, <1>9 DEF Complete, IInv, OutInv, Ordered, Rest

-----------------------------------------------------------------------------
(* The reads. *)

LEMMA ArriveHeaderKeeps ==
    ASSUME IInv, NEW f \in Frames, NEW split \in BOOLEAN, ArriveHeader(f, split)
    PROVE  IInv'
<1>8. EndInv(conn', read')
  BY DEF ArriveHeader, IInv, EndInv
<1>1. f \in Frame
  BY WebSocketAssumption
<1>2. frame' \in Frame /\ frame'.op = f.op /\ frame'.fin = f.fin
  BY <1>1 DEF ArriveHeader, Frame
<1>3. peer \in [now : Message, done : Message, proper : BOOLEAN]
      /\ inbox \in Message /\ frames' \in Nat /\ frames' = frames + 1
  BY DEF ArriveHeader, IInv, Rest
<1> DEFINE whole == IF f.op # "continuation" THEN [parts |-> <<frames + 1>>, binary |-> f.op = "binary"]
                    ELSE [peer.now EXCEPT !.parts = Append(@, frames + 1)]
<1>4. whole \in Message
  <2>1. CASE f.op # "continuation"
    <3>1. <<frames + 1>> \in Seq(Nat)
      BY <1>3
    <3>2. QED
      BY <2>1, <3>1 DEF Message
  <2>2. CASE f.op = "continuation"
    <3>1. peer.now \in Message
      BY <1>3
    <3>2. Append(peer.now.parts, frames + 1) \in Seq(Nat)
      BY <1>3, <3>1 DEF Message
    <3>3. QED
      BY <2>2, <3>1, <3>2 DEF Message
  <2>3. QED
    BY <2>1, <2>2
<1>5. CASE ~IsData(f)
  <2>1. peer' = [peer EXCEPT !.proper = @ /\ ~split]
    BY <1>5 DEF ArriveHeader, PeerSends
  <2>2. peer' \in [now : Message, done : Message, proper : BOOLEAN]
        /\ peer'.now = peer.now /\ peer'.done = peer.done /\ (peer'.proper => peer.proper)
    BY <1>3, <2>1
  <2>3. ~Pending /\ ~Pending'
    BY <1>2, <1>5 DEF ArriveHeader, Pending, IsData
  <2>4. MessageInv'
    BY <2>2, <2>3 DEF ArriveHeader, IInv, MessageInv
  <2>5. QED
    BY <1>2, <1>3, <2>2, <2>4, <1>8 DEF ArriveHeader, IInv, Rest
<1>6. CASE IsData(f)
  <2> DEFINE follows == (f.op # "continuation") <=> peer.now.parts = <<>>
             p == [now    |-> IF f.fin THEN NoMessage ELSE whole,
                   done   |-> IF f.fin THEN whole ELSE peer.done,
                   proper |-> peer.proper /\ follows]
  <2>1. peer' = [p EXCEPT !.proper = @ /\ ~split]
    BY <1>6 DEF ArriveHeader, PeerSends
  <2>2. NoMessage \in Message
    BY DEF NoMessage, Message
  <2>3. p \in [now : Message, done : Message, proper : BOOLEAN]
    BY <1>3, <1>4, <2>2
  <2> HIDE DEF p
  <2>4. /\ peer' \in [now : Message, done : Message, proper : BOOLEAN]
        /\ peer'.now = p.now /\ peer'.done = p.done /\ (peer'.proper => p.proper)
    BY <2>1, <2>3
  <2> USE DEF p
  <2>5. peer'.now = (IF f.fin THEN NoMessage ELSE whole)
        /\ peer'.done = (IF f.fin THEN whole ELSE peer.done)
        /\ (peer'.proper => peer.proper /\ follows)
    BY <2>4
  <2> HIDE DEF p, whole
  <2>6. ~Pending /\ Pending'
    BY <1>2, <1>6 DEF ArriveHeader, Pending, IsData
  <2>7. ASSUME peer.proper, follows
        PROVE  whole = Joined'
    <3>1. inbox.parts = peer.now.parts /\ (peer.now.parts # <<>> => inbox.binary = peer.now.binary)
      BY <2>6, <2>7 DEF ArriveHeader, IInv, MessageInv
    <3>2. Joined' = [parts  |-> Append(inbox.parts, frames + 1),
                     binary |-> IF f.op = "continuation" THEN inbox.binary ELSE f.op = "binary"]
      BY <1>2, <1>3 DEF ArriveHeader, Joined
    <3>3. CASE f.op # "continuation"
      <4>1. inbox.parts = <<>>
        BY <2>7, <3>1, <3>3
      <4>2. Append(<<>>, frames + 1) = <<frames + 1>>
        BY <1>3
      <4>3. QED
        BY <3>2, <3>3, <4>1, <4>2 DEF whole
    <3>4. CASE f.op = "continuation"
      <4>1. peer.now = [parts |-> peer.now.parts, binary |-> peer.now.binary]
        BY <1>3 DEF Message
      <4>2. inbox.binary = peer.now.binary
        BY <2>7, <3>1, <3>4
      <4>3. whole = [parts |-> Append(peer.now.parts, frames + 1), binary |-> peer.now.binary]
        BY <3>4, <4>1 DEF whole
      <4>4. QED
        BY <3>1, <3>2, <3>4, <4>2, <4>3
    <3>5. QED
      BY <3>3, <3>4
  <2>8. peer.proper => delivered' = peer.done
    BY <2>6 DEF ArriveHeader, IInv, MessageInv
  <2>9. MessageInv'
    BY <1>2, <2>5, <2>6, <2>7, <2>8 DEF MessageInv
  <2>10. QED
    BY <1>2, <1>3, <2>4, <2>9, <1>8 DEF ArriveHeader, IInv, Rest
<1>7. QED
  BY <1>5, <1>6

LEMMA ArriveRestKeeps ==
    ASSUME IInv, ArriveRest
    PROVE  IInv'
<1>1. conn.state \in Reading
  BY ReadingIsGoing DEF ArriveRest
<1>2. Pending' <=> Pending
  BY <1>1 DEF ArriveRest, Pending, IsData, Reading
<1>3. MessageInv'
  BY <1>2 DEF ArriveRest, IInv, MessageInv, Joined
<1>4. QED
  BY <1>3 DEF ArriveRest, IInv, EndInv, Rest

LEMMA ArriveErrorKeeps ==
    ASSUME IInv, ArriveError
    PROVE  IInv'
<1>1. Pending' <=> Pending
  BY DEF ArriveError, Pending, IsData
<1>2. MessageInv'
  BY <1>1 DEF ArriveError, IInv, MessageInv, Joined
<1>3. QED
  BY <1>2 DEF ArriveError, IInv, EndInv, Rest

LEMMA RunReadErrorKeeps ==
    ASSUME IInv, NEW t, RunReadError(t)
    PROVE  IInv'
<1>1. Going(conn) /\ conn.state \in Reading /\ OutInv(out)
  BY ReadingIsGoing DEF RunReadError, IInv
<1>2. /\ Fail(conn, out, conn.state \in {"MiniHeader", "Length"}, t) /\ read = "error"
      /\ UNCHANGED <<frame, inbox, tasks, calls, frames, delivered, peer>>
  BY DEF RunReadError
<1> DEFINE early == conn.state \in {"MiniHeader", "Length"}
<1>3. EndInv(conn', "none") /\ read' = "none" /\ OutInv(out') /\ conn'.state = conn.state
  <2>1. early \in BOOLEAN /\ Fail(conn, out, early, t)
    BY <1>2
  <2> HIDE DEF early
  <2>2. QED
    BY <1>1, <2>1, FailKeeps
<1>4. conn'.state = "MiniHeader" => ~Pending /\ ~Pending'
  BY <1>2, <1>3 DEF Pending
<1>5. MessageInv'
  BY <1>1, <1>2, <1>3, <1>4 DEF IInv, MessageInv, Reading
<1>6. QED
  BY <1>2, <1>3, <1>5 DEF IInv, Rest

(* The next part of a frame is read: the frame is pending before and after. *)
LEMMA RunReadHeaderKeeps ==
    ASSUME IInv, NEW t, RunReadHeader(t)
    PROVE  IInv'
<1>1. Going(conn) /\ OutInv(out) /\ conn.state \in {"MiniHeader", "Length", "Mask"}
  BY ReadingIsGoing DEF RunReadHeader, IInv, Reading
<1> DEFINE s == StateAfter(conn.state)
<1>2. s \in {"Length", "Mask", "Payload"}
  <2>1. CASE conn.state = "MiniHeader"
    BY <2>1 DEF StateAfter
  <2>2. CASE conn.state = "Length"
    BY <2>2 DEF StateAfter
  <2>3. CASE conn.state = "Mask"
    BY <2>3 DEF StateAfter
  <2>4. QED
    BY <1>1, <2>1, <2>2, <2>3
<1>3. DoRead(conn, out, s, t) /\ read = "ok"
      /\ UNCHANGED <<frame, inbox, tasks, calls, frames, delivered, peer>>
  BY DEF RunReadHeader
<1> HIDE DEF s
<1>4. /\ EndInv(conn', read') /\ OutInv(out') /\ read' \in {"none", "waiting"}
      /\ conn'.state \in {"Length", "Mask", "Payload"}
  BY <1>1, <1>2, <1>3, DoReadKeeps DEF Reading
<1>5. Pending' <=> Pending
  BY <1>1, <1>3, <1>4 DEF Pending, IsData
<1>6. MessageInv'
  BY <1>3, <1>5 DEF IInv, MessageInv, Joined
<1>7. Rest'
  BY <1>3, <1>4 DEF IInv, Rest
<1>8. QED
  BY <1>4, <1>6, <1>7 DEF IInv

(* The frame that was pending joins the message, or completes it. *)
LEMMA RunDataKeeps ==
    ASSUME IInv, NEW closes \in BOOLEAN, NEW io \in Chances, NEW t, RunData(closes, io, t)
    PROVE  IInv'
<1>1. Going(conn) /\ OutInv(out) /\ conn.state = "Payload" /\ read = "ok" /\ Pending
  BY ReadingIsGoing DEF RunData, IInv, Pending
<1> DEFINE r == AfterCallback(conn, out, closes, io, t)
<1>2. /\ UNCHANGED <<frame, tasks, calls, frames, peer>>
      /\ delivered' = IF frame.fin THEN Joined ELSE delivered
      /\ \/ CutOff(r.conn, r.out) /\ inbox' = Joined
         \/ /\ DoRead(r.conn, r.out, "MiniHeader", t)
            /\ inbox' = IF frame.fin THEN [Joined EXCEPT !.parts = <<>>] ELSE Joined
  BY DEF RunData
<1>3. Going(r.conn) /\ r.conn.state = "Payload" /\ OutInv(r.out)
  BY <1>1, CallbackKeeps
<1> HIDE DEF r
<1>4. Joined \in Message
  <2>1. inbox \in Message /\ frames \in Nat
    BY DEF IInv, Rest
  <2>2. Append(inbox.parts, frames) \in Seq(Nat) /\ inbox.binary \in BOOLEAN
    BY <2>1 DEF Message
  <2>3. (IF frame.op = "continuation" THEN inbox.binary ELSE frame.op = "binary") \in BOOLEAN
    BY <2>2
  <2>4. QED
    BY <2>2, <2>3 DEF Joined, Message
<1>5. [Joined EXCEPT !.parts = <<>>] \in Message
      /\ [Joined EXCEPT !.parts = <<>>].parts = <<>>
  <2>1. <<>> \in Seq(Nat)
    OBVIOUS
  <2>2. [Joined EXCEPT !.parts = <<>>] = [parts |-> <<>>, binary |-> Joined.binary]
    BY <1>4 DEF Message
  <2>3. Joined.binary \in BOOLEAN
    BY <1>4 DEF Message
  <2>4. QED
    BY <2>1, <2>2, <2>3 DEF Message
<1>6. inbox' \in Message /\ delivered' \in Message
  BY <1>2, <1>4, <1>5 DEF IInv, Rest
<1>7. CASE CutOff(r.conn, r.out)
  <2>1. EndInv(conn', read') /\ read' = "none" /\ OutInv(out') /\ conn'.state = "Payload"
    BY <1>3, <1>7, CutOffKeeps DEF Going, Reading
  <2>2. MessageInv'
    BY <2>1 DEF MessageInv
  <2>3. Rest'
    BY <1>2, <1>6, <2>1 DEF IInv, Rest
  <2>4. QED
    BY <2>1, <2>2, <2>3 DEF IInv
<1>8. CASE /\ DoRead(r.conn, r.out, "MiniHeader", t)
           /\ inbox' = IF frame.fin THEN [Joined EXCEPT !.parts = <<>>] ELSE Joined
  <2>1. /\ EndInv(conn', read') /\ OutInv(out') /\ read' \in {"none", "waiting"}
        /\ conn'.state = "MiniHeader"
    BY <1>3, <1>8, DoReadKeeps DEF Reading
  <2>2. ~Pending'
    BY <2>1 DEF Pending
  <2>3. MessageInv'
    <3>1. CASE frame.fin
      <4>1. peer.proper => peer.done = Joined /\ peer.now.parts = <<>>
        BY <1>1, <3>1 DEF IInv, MessageInv, NoMessage
      <4>2. delivered' = Joined /\ inbox'.parts = <<>>
        BY <1>2, <1>5, <1>8, <3>1
      <4>3. QED
        BY <1>2, <2>2, <4>1, <4>2 DEF MessageInv
    <3>2. CASE ~frame.fin
      <4>1. peer.proper => peer.now = Joined /\ delivered = peer.done
        BY <1>1, <3>2 DEF IInv, MessageInv
      <4>2. delivered' = delivered /\ inbox' = Joined
        BY <1>2, <1>8, <3>2
      <4>3. QED
        BY <1>2, <2>2, <4>1, <4>2 DEF MessageInv
    <3>3. QED
      BY <3>1, <3>2
  <2>4. Rest'
    BY <1>2, <1>6, <2>1 DEF IInv, Rest
  <2>5. QED
    BY <2>1, <2>3, <2>4 DEF IInv
<1>9. QED
  BY <1>2, <1>7, <1>8

LEMMA RunPingPongKeeps ==
    ASSUME IInv, RunPingPong
    PROVE  IInv'
<1>1. /\ Going(conn) /\ OutInv(out)
      /\ DoRead(conn, out, "MiniHeader", "none") /\ read = "ok"
      /\ UNCHANGED <<frame, inbox, calls, frames, delivered, peer>>
  BY ReadingIsGoing DEF RunPingPong, IInv
<1>2. /\ EndInv(conn', read') /\ OutInv(out') /\ read' \in {"none", "waiting"}
      /\ conn'.state = "MiniHeader"
  BY <1>1, DoReadKeeps DEF Reading
<1>3. ~Pending /\ ~Pending'
  BY <1>2 DEF RunPingPong, Pending, IsData
<1>4. MessageInv'
  BY <1>1, <1>3 DEF IInv, MessageInv
<1>5. tasks' \in Seq({"send", "close"})
  BY DEF RunPingPong, IInv, Rest
<1>6. Rest'
  BY <1>1, <1>2, <1>5 DEF IInv, Rest
<1>7. QED
  BY <1>2, <1>4, <1>6 DEF IInv

(* The peer's close frame: answered now, or the answer itself. *)
LEMMA RunCloseKeeps ==
    ASSUME IInv, NEW io \in Chances, NEW t, RunClose(io, t)
    PROVE  IInv'
<1> DEFINE c == [conn EXCEPT !.recvClose = TRUE]
           d == IF c.called THEN c ELSE Reported(c)
           e == [d EXCEPT !.called = TRUE]
           f == [d EXCEPT !.closing = TRUE]
<1>1. /\ Going(conn) /\ ~conn.called /\ conn.state = "Payload" /\ read = "ok"
      /\ OutInv(out)
      /\ UNCHANGED <<frame, inbox, tasks, calls, frames, delivered, peer>>
  BY ReadingIsGoing DEF RunClose, IInv
<1>2. /\ c \in Connection /\ c.open /\ c.recvClose /\ ~c.called /\ c.state = "Payload"
      /\ c.sentClose = conn.sentClose /\ c.reports \in 0..2
      /\ ~c.cut /\ ~c.dropped => c.reports = 0
  BY <1>1 DEF Going, Connection
<1>3. \/ DoRead(Closed(c), CloseEmits(c, out, io, t), "MiniHeader", t)
      \/ conn.sentClose /\ CutOff(f, out)
      \/ conn.sentClose /\ End(e, out, t)
  BY DEF RunClose
<1> HIDE DEF c
<1>4. /\ d \in Connection /\ d.reports = (IF c.reports < 2 THEN c.reports + 1 ELSE c.reports)
      /\ d = [c EXCEPT !.reports = d.reports]
  BY <1>2, ReportedIs
<1> HIDE DEF d
<1>5. /\ EndInv(conn', read') /\ OutInv(out') /\ read' \in {"none", "waiting"}
      /\ conn'.state \in {"MiniHeader", "Payload"}
      /\ read' # "none" => conn'.state = "MiniHeader"
  <2>1. CASE DoRead(Closed(c), CloseEmits(c, out, io, t), "MiniHeader", t)
    <3> DEFINE g == Closed(c)
    <3>1. /\ g \in Connection /\ g.open /\ g.recvClose /\ g.sentClose /\ g.called
          /\ g.dropped = c.dropped /\ g.cut = c.cut
          /\ g.reports = IF c.reports = 2 THEN c.reports ELSE c.reports + 1
      BY <1>2, ClosedIs
    <3> HIDE DEF g
    <3>10. Going(g)
      BY <1>2, <3>1 DEF Going
    <3>2. OutInv(CloseEmits(c, out, io, t))
      BY <1>1, CloseEmitsKeeps
    <3>3. QED
      BY <2>1, <3>10, <3>2, DoReadKeeps DEF Reading, g
  <2>2. CASE conn.sentClose /\ CutOff(f, out)
    <3>1. /\ f \in Connection /\ f.state = "Payload" /\ ~f.called /\ f.sentClose
      BY <1>2, <1>4, <2>2 DEF Connection
    <3> HIDE DEF f
    <3>2. QED
      BY <1>1, <2>2, <3>1, CutOffKeeps DEF Reading
  <2>3. CASE conn.sentClose /\ End(e, out, t)
    <3>1. /\ d.state = "Payload" /\ d.open /\ d.recvClose /\ d.sentClose
          /\ d.dropped = c.dropped /\ d.cut = c.cut
      BY <1>2, <1>4, <2>3 DEF Connection
    <3>10. /\ e \in Connection /\ e.state = "Payload" /\ e.open /\ e.recvClose /\ e.sentClose
          /\ e.called /\ e.dropped = c.dropped /\ e.cut = c.cut /\ e.reports = d.reports
      BY <1>4, <3>1 DEF Connection
    <3> HIDE DEF e
    <3>11. Going(e)
      BY <1>2, <1>4, <3>10 DEF Going
    <3>2. QED
      BY <1>1, <2>3, <3>10, <3>11, EndKeeps DEF Reading
  <2>4. QED
    BY <1>3, <2>1, <2>2, <2>3
<1>6. ~Pending /\ ~Pending'
  BY <1>1 DEF RunClose, Pending, IsData
<1>7. MessageInv'
  BY <1>1, <1>6 DEF IInv, MessageInv
<1>8. Rest'
  BY <1>1, <1>5 DEF IInv, Rest
<1>9. QED
  BY <1>5, <1>7, <1>8 DEF IInv

-----------------------------------------------------------------------------
LEMMA NextKeeps == IInv /\ [Next]_vars => IInv'
<1> SUFFICES ASSUME IInv, [Next]_vars PROVE IInv'
  OBVIOUS
<1>1. CASE Refuse
  BY <1>1, RefuseKeeps
<1>2. ASSUME NEW closes \in BOOLEAN, NEW io \in Chances, NEW t, Start(closes, io, t)
      PROVE  IInv'
  BY <1>2, StartKeeps
<1>3. ASSUME NEW t, RunReadError(t) PROVE IInv'
  BY <1>3, RunReadErrorKeeps
<1>4. ASSUME NEW t, RunReadHeader(t) PROVE IInv'
  BY <1>4, RunReadHeaderKeeps
<1>5. CASE RunPingPong
  BY <1>5, RunPingPongKeeps
<1>6. ASSUME NEW io \in Chances, NEW t, RunTask(io, t) PROVE IInv'
  BY <1>6, RunTaskKeeps
<1>7. ASSUME NEW io \in Chances, NEW t, RunWritten(io.room, t) PROVE IInv'
  BY <1>7, RunWrittenKeeps DEF Chances
<1>8. ASSUME NEW io \in Chances, NEW t, RunClose(io, t) PROVE IInv'
  BY <1>8, RunCloseKeeps
<1>9. ASSUME NEW closes \in BOOLEAN, NEW io \in Chances, NEW t, RunData(closes, io, t)
      PROVE  IInv'
  BY <1>9, RunDataKeeps
<1>10. CASE Send \/ CallClose
  BY <1>10, CallKeeps DEF Send, CallClose
<1>11. ASSUME NEW f \in Frames, NEW split \in BOOLEAN, ArriveHeader(f, split)
       PROVE  IInv'
  BY <1>11, ArriveHeaderKeeps
<1>12. CASE ArriveRest
  BY <1>12, ArriveRestKeeps
<1>13. CASE ArriveError
  BY <1>13, ArriveErrorKeeps
<1>14. ASSUME NEW place \in {"sending", "queued", "gone"}, NEW outcome \in {"sent", "failed"},
              Complete(place, outcome)
       PROVE  IInv'
  BY <1>14, CompleteKeeps
<1>15. CASE UNCHANGED vars
  <2>1. conn' = conn /\ out' = out
        /\ UNCHANGED <<read, frame, inbox, tasks, calls, frames, delivered, peer>>
    BY <1>15 DEF vars
  <2>2. MessageInv'
    BY <2>1, MessagesStay DEF IInv
  <2>3. QED
    BY <2>1, <2>2 DEF IInv, Rest
<1>16. QED
  BY <1>1, <1>2, <1>3, <1>4, <1>5, <1>6, <1>7, <1>8, <1>9, <1>10, <1>11, <1>12, <1>13,
     <1>14, <1>15 DEF Next, Worker

LEMMA Invariance == Spec => []IInv
BY InitKeeps, NextKeeps, PTL DEF Spec

(* The connection's variables keep their types, whatever frames come.      *)
THEOREM SocketIsTyped == Spec => []TypeOK
<1>1. IInv => TypeOK
  BY DEF IInv, EndInv, OutInv, Ordered, Rest, TypeOK
<1>2. QED
  BY <1>1, Invariance, PTL

(* do_write and its swap: frames of which each is handed over after the     *)
(* handler of the one before has run are sent once, and from strings that  *)
(* stay in place; what breaks this is nothing but a write begun too early. *)
THEOREM FramesAreIntactApart == Spec => []FramesApartAreIntact
<1>1. IInv => FramesApartAreIntact
  BY DEF IInv, OutInv, Ordered, Apart, FramesApartAreIntact
<1>2. QED
  BY <1>1, Invariance, PTL

(* App::websockets_ and the reads: a connection of the list can notice its  *)
(* peer's end, and one that reads no more is closed and reported, but for  *)
(* those whose callbacks threw; and the end is reported once, at the end,  *)
(* but for those that the handler of a write has dropped.                  *)
THEOREM NoneIsOrphaned == Spec => []NoOrphan
<1>1. IInv => NoOrphan
  BY DEF IInv, EndInv, NoOrphan, Started, Connection, Reading
<1>2. QED
  BY <1>1, Invariance, PTL

(* The close handshake, begun by either side: after the peer's close frame  *)
(* the connection was answered and reads no more, and unless a callback    *)
(* threw it was reported and removed.                                      *)
THEOREM CloseEnds == Spec => []CloseIsFinal
<1>1. IInv => CloseIsFinal
  BY DEF IInv, EndInv, CloseIsFinal
<1>2. QED
  BY <1>1, Invariance, PTL

(* message_handler_ gets what the peer sent: whole, in order, with its type. *)
THEOREM MessagesArrive == Spec => []MessagesAreWhole
<1>1. IInv => MessagesAreWhole
  BY DEF IInv, MessageInv, Pending, MessagesAreWhole
<1>2. QED
  BY <1>1, Invariance, PTL
=============================================================================
