------------------------------ MODULE WebSocket ------------------------------
(***************************************************************************)
(* One WebSocket connection after its upgrade (crow/websocket.h): the      *)
(* handshake, the messages and the close that the application asks for     *)
(* from any thread, the reads of the peer's frames, the writes, and the    *)
(* close handshake.                                                        *)
(*                                                                         *)
(* All handlers of the connection run on one worker thread, one at a time. *)
(* Between two of them calls are posted, bytes arrive and bytes leave.     *)
(* Nothing in websocket.h catches what a callback of the application       *)
(* throws: the handler is cut off there, and the worker goes on.           *)
(* A payload is the number of its frame.                                   *)
(***************************************************************************)
EXTENDS Naturals, Sequences

CONSTANTS Frames,     \* the frames that the peer may send
          MaxEvents   \* bound: calls of the application and frames, together

(* As read from the stream: the opcode, the FIN bit, whether there is a     *)
(* masking key, and whether the length has bytes of its own ("long") and   *)
(* exceeds max_payload_bytes_ ("huge").                                    *)
Frame == [op : {"continuation", "text", "binary", "close", "ping", "pong"},
          fin : BOOLEAN, masked : BOOLEAN, length : {"short", "long", "huge"}]

ASSUME WebSocketAssumption ==
    Frames \subseteq Frame /\ Frames # {} /\ MaxEvents \in Nat

VARIABLES
    conn,      \* the flags of the Connection, see Init
    read,      \* "none" outstanding, "waiting", or its handler is ready: "ok", "error"
    frame,     \* the frame being read
    inbox,     \* message_ and is_binary_, as numbers of frames
    out,       \* the two buffers and the writes
    tasks,     \* handlers posted by send_*(), close() and send_pong()
    calls,     \* calls of send_*() and close() by the application
    frames,    \* frames that began to arrive
    delivered, \* history: what message_handler_ was last called with
    peer       \* history: the messages as the peer sent them

vars == <<conn, read, frame, inbox, out, tasks, calls, frames, delivered, peer>>

NoMessage == [parts |-> <<>>, binary |-> FALSE]

(* What the socket and the memory do under a handler: there is room to send *)
(* at once, and a buffer that grows moves its strings.                     *)
Chances == [room : BOOLEAN, grows : BOOLEAN]

Init ==
    /\ conn = [state |-> "Handshake",  \* state_, with two values for create()
               sentClose |-> FALSE,    \* has_sent_close_
               recvClose |-> FALSE,    \* has_recv_close_
               closing   |-> FALSE,    \* close_connection_
               called    |-> FALSE,    \* is_close_handler_called_
               listed    |-> FALSE,    \* in App::websockets_
               open      |-> TRUE,     \* adaptor_.is_open()
               reports   |-> 0,        \* history: calls of close_handler_, up to 2
               dropped   |-> FALSE,    \* history: by the handler of a write
               cut       |-> FALSE]    \* history: a callback cut its handler off
    /\ read = "none"
    /\ frame = CHOOSE f \in Frames : TRUE
    /\ inbox = NoMessage
    /\ out = [sending |-> {},          \* sending_buffers_
              queued  |-> {},          \* write_buffers_
              flight  |-> [sending |-> 0, queued |-> 0, gone |-> 0],
              ready   |-> <<>>,        \* the handlers of writes that are over
              again   |-> FALSE,       \* history: a frame was written again
              overlap |-> FALSE]       \* history: a write was begun too early
    /\ tasks = <<>>
    /\ calls = 0
    /\ frames = 0
    /\ delivered = NoMessage
    /\ peer = [now |-> NoMessage, done |-> NoMessage, proper |-> TRUE]
-----------------------------------------------------------------------------
(* The writes.  A buffer is the set of the kinds of frames in it: "new"     *)
(* ones, and "old" ones that a write already had.  A write refers to the   *)
(* strings of a buffer and does not own them: "flight" counts the writes   *)
(* under way by the buffer their strings are in, or that are "gone".  What *)
(* is sent of strings that are gone is not defined.                        *)

InFlight(o) == o.flight.sending + o.flight.queued + o.flight.gone

(* The buffer may grow, and strings in it that are being written move. *)
Push(o, grows) ==
    LET f == o.flight IN
    [o EXCEPT !.queued = @ \cup {"new"},
              !.flight = IF grows THEN [sending |-> f.sending, queued |-> 0, gone |-> f.gone + f.queued]
                                  ELSE f]

(* Mutant of Cleared: the frames that were sent are kept. *)
Uncleared(o) == o

(* sending_buffers_.clear() *)
Cleared(o) ==
    LET f == o.flight IN
    [o EXCEPT !.sending = {},
              !.flight = [sending |-> 0, queued |-> f.queued, gone |-> f.gone + f.sending]]

(* Mutant of DoWrite: the frames are moved, and the buffer not yet cleared. *)
DoWriteAppending(o, open, room) ==
    IF o.queued = {} THEN o
    ELSE [o EXCEPT !.sending = @ \cup o.queued, !.queued = {},
                   !.ready = Append(@, "sent")]

(* do_write(): the buffers are swapped, whatever is being written.  The     *)
(* write fails on a closed socket, and is taken at once if the socket has   *)
(* room and no other write waits for it.                                   *)
DoWrite(o, open, room) ==
    IF o.queued = {} THEN o
    ELSE LET taken == room /\ InFlight(o) = 0
             waits == open /\ ~taken
         IN  [sending |-> {"old"},
              queued  |-> o.sending,
              flight  |-> [sending |-> o.flight.queued + (IF waits THEN 1 ELSE 0),
                           queued  |-> o.flight.sending,
                           gone    |-> o.flight.gone],
              ready   |-> IF waits THEN o.ready
                          ELSE Append(o.ready, IF open THEN "sent" ELSE "failed"),
              again   |-> o.again \/ "old" \in o.queued,
              overlap |-> o.overlap \/ InFlight(o) > 0 \/ o.ready # <<>>]

(* The end of start(), of send_data_impl() and of close(). *)
Emit(o, open, io) == DoWrite(Push(o, io.grows), open, io.room)

(* The socket is closed under the writes. *)
Abort(o) ==
    [o EXCEPT !.flight = [sending |-> 0, queued |-> 0, gone |-> 0],
              !.ready = @ \o [k \in 1..InFlight(o) |-> "failed"]]

(* The socket has taken a write, or its peer is gone.  Each write goes out  *)
(* in parts, so that a later one may be over first.                        *)
Complete(place, outcome) ==
    /\ out.flight[place] > 0
    /\ out' = [out EXCEPT !.flight[place] = @ - 1, !.ready = Append(@, outcome)]
    /\ UNCHANGED <<conn, read, frame, inbox, tasks, calls, frames, delivered, peer>>
-----------------------------------------------------------------------------
(* The calls that handlers have in common.  "throws" names the callback of  *)
(* the application that throws if it is called, or is "none".              *)

Reported(c) == [c EXCEPT !.reports = IF @ < 2 THEN @ + 1 ELSE @]

(* check_destroy(): close_handler_ is called, and nothing is noted. *)
CheckDestroy(c, throws) ==
    IF ~c.called /\ throws = "close"
    THEN [Reported(c) EXCEPT !.cut = TRUE]
    ELSE [(IF c.called THEN c ELSE Reported(c)) EXCEPT !.listed = FALSE]

(* Mutant of Ended: the connection stays in the list. *)
EndedListed(c, throws) == Reported([c EXCEPT !.closing = TRUE, !.open = FALSE])

(* The flags after shutdown and check_destroy(). *)
Ended(c, throws) == CheckDestroy([c EXCEPT !.closing = TRUE, !.open = FALSE], throws)

(* The handler ends the connection. *)
End(c, o, throws) ==
    /\ conn' = Ended(c, throws)
    /\ out' = Abort(o)
    /\ read' = "none"

(* A callback throws: the handler ends, and nothing is read any more. *)
CutOff(c, o) ==
    /\ conn' = [c EXCEPT !.cut = TRUE]
    /\ out' = o
    /\ read' = "none"

(* The end after an error, with a call of error_handler_: "early" if the    *)
(* socket is closed before it.                                             *)
Fail(c, o, early, throws) ==
    \/ /\ throws = "error"
       /\ CutOff([c EXCEPT !.closing = TRUE, !.open = ~early], IF early THEN Abort(o) ELSE o)
    \/ /\ throws # "error"
       /\ End(c, o, throws)

(* close(): close_handler_ may throw before the frame is pushed.  asio      *)
(* keeps that exception until the end of the handler that calls close().    *)
Closed(c) ==
    [(IF c.recvClose /\ ~c.called THEN Reported(c) ELSE c)
        EXCEPT !.sentClose = TRUE, !.called = c.called \/ c.recvClose]

CloseEmits(c, o, io, throws) ==
    IF c.recvClose /\ ~c.called /\ throws = "close" THEN o ELSE Emit(o, c.open, io)

(* What a callback of the application does: nothing, or close(), which is   *)
(* dispatched and so runs at once on the worker thread.                    *)
AfterCallback(c, o, closes, io, throws) ==
    IF closes THEN [conn |-> Closed(c), out |-> CloseEmits(c, o, io, throws)]
              ELSE [conn |-> c, out |-> o]

(* Mutant of DoRead: the end of the close handshake is not noticed. *)
DoReadOn(c, o, s, throws) ==
    IF s = "Mask" /\ frame.length = "huge"
    THEN Fail([c EXCEPT !.state = s], o, TRUE, throws)
    ELSE /\ conn' = [c EXCEPT !.state = IF s = "Mask" /\ ~frame.masked THEN "Payload" ELSE s]
         /\ out' = o
         /\ read' = "waiting"

(* do_read() in state s. *)
DoRead(c, o, s, throws) ==
    LET d == [c EXCEPT !.state = s] IN
    IF c.sentClose /\ c.recvClose THEN End(d, o, throws)
    ELSE IF s = "Mask" /\ frame.length = "huge" THEN Fail(d, o, TRUE, throws)
    ELSE /\ conn' = [d EXCEPT !.state = IF s = "Mask" /\ ~frame.masked THEN "Payload" ELSE s]
         /\ out' = o
         /\ read' = "waiting"
-----------------------------------------------------------------------------
(* create() *)

(* No upgrade to "websocket", or a response from accept_handler_, or it     *)
(* throws.                                                                 *)
Refuse ==
    /\ conn.state = "Handshake"
    /\ conn' = [conn EXCEPT !.state = "Refused", !.open = FALSE]
    /\ UNCHANGED <<read, frame, inbox, out, tasks, calls, frames, delivered, peer>>

(* add_websocket() and start(): what open_handler_ throws is caught by     *)
(* Router::handle_upgrade(), which knows nothing of the list.              *)
Start(closes, io, throws) ==
    /\ conn.state = "Handshake"
    /\ LET c == [conn EXCEPT !.listed = TRUE, !.state = "MiniHeader"]
           r == AfterCallback(c, Emit(out, TRUE, io), closes, io, throws)
       IN  \/ throws = "open" /\ CutOff(r.conn, r.out)
           \/ throws # "open" /\ DoRead(r.conn, r.out, "MiniHeader", throws)
    /\ UNCHANGED <<frame, inbox, tasks, calls, frames, delivered, peer>>
-----------------------------------------------------------------------------
Started == conn.state \notin {"Handshake", "Refused"}

(* The list, the handlers to come and a posted close() hold the connection; *)
(* a posted send only watches it.                                          *)
Alive ==
    \/ conn.listed \/ read # "none" \/ InFlight(out) > 0 \/ out.ready # <<>>
    \/ \E k \in DOMAIN tasks : tasks[k] = "close"

(* The calls of the application: from a thread of its own, or from a       *)
(* callback, send_*() posts; so does close() from another thread.          *)
Call(task) ==
    /\ Started /\ Alive
    /\ calls + frames < MaxEvents
    /\ calls' = calls + 1
    /\ tasks' = Append(tasks, task)
    /\ UNCHANGED <<conn, read, frame, inbox, out, frames, delivered, peer>>

Send == Call("send")
CallClose == Call("close")

RunTask(io, throws) ==
    /\ tasks # <<>>
    /\ tasks' = Tail(tasks)
    /\ \/ /\ Head(tasks) = "close"
          /\ conn' = Closed(conn)
          /\ out' = CloseEmits(conn, out, io, throws)
       \/ /\ Head(tasks) = "send" /\ Alive
          /\ out' = Emit(out, conn.open, io)
          /\ UNCHANGED conn
       \/ /\ Head(tasks) = "send" /\ ~Alive
          /\ UNCHANGED <<conn, out>>
    /\ UNCHANGED <<read, frame, inbox, calls, frames, delivered, peer>>

(* The handler of a write that is over. *)
RunWritten(room, throws) ==
    /\ out.ready # <<>>
    /\ LET o == Cleared([out EXCEPT !.ready = Tail(@)]) IN
       IF Head(out.ready) = "sent" /\ ~conn.closing
       THEN /\ out' = DoWrite(o, conn.open, room)
            /\ conn' = [conn EXCEPT !.closing = conn.sentClose]
       ELSE /\ out' = o
            /\ conn' = CheckDestroy([conn EXCEPT !.closing = TRUE, !.dropped = TRUE], throws)
    /\ UNCHANGED <<read, frame, inbox, tasks, calls, frames, delivered, peer>>
-----------------------------------------------------------------------------
(* The reads. *)

IsData(f) == f.op \in {"continuation", "text", "binary"}

(* The peer's own view of the messages it sends, frame n being f: the first *)
(* frame gives the type, and control frames may come in between.  It       *)
(* follows the protocol while no message begins inside another one and     *)
(* none is continued that was not begun.                                   *)
PeerSends(f, n) ==
    LET first == f.op # "continuation"
        whole == IF first THEN [parts |-> <<n>>, binary |-> f.op = "binary"]
                 ELSE [peer.now EXCEPT !.parts = Append(@, n)]
    IN  IF ~IsData(f) THEN peer
        ELSE [now    |-> IF f.fin THEN NoMessage ELSE whole,
              done   |-> IF f.fin THEN whole ELSE peer.done,
              proper |-> peer.proper /\ (first <=> peer.now.parts = <<>>)]

(* The header of a frame arrives.  async_read_some may bring only the first *)
(* of its two bytes: then the frame seems empty and unmasked, and its other *)
(* bytes will be taken for the next frame.                                 *)
ArriveHeader(f, split) ==
    /\ read = "waiting" /\ conn.state = "MiniHeader"
    /\ calls + frames < MaxEvents
    /\ read' = "ok"
    /\ frames' = frames + 1
    /\ frame' = IF split THEN [f EXCEPT !.masked = FALSE, !.length = "short"] ELSE f
    /\ peer' = [PeerSends(f, frames + 1) EXCEPT !.proper = @ /\ ~split]
    /\ UNCHANGED <<conn, inbox, out, tasks, calls, delivered>>

(* So do the length, the masking key, or the (rest of the) payload. *)
ArriveRest ==
    /\ read = "waiting" /\ conn.state # "MiniHeader"
    /\ read' = "ok"
    /\ UNCHANGED <<conn, frame, inbox, out, tasks, calls, frames, delivered, peer>>

(* End of file or reset. *)
ArriveError ==
    /\ read = "waiting"
    /\ read' = "error"
    /\ UNCHANGED <<conn, frame, inbox, out, tasks, calls, frames, delivered, peer>>

(* The socket is closed before error_handler_ is called, but not for the    *)
(* masking key and the payload.                                            *)
RunReadError(throws) ==
    /\ read = "error"
    /\ Fail(conn, out, conn.state \in {"MiniHeader", "Length"}, throws)
    /\ UNCHANGED <<frame, inbox, tasks, calls, frames, delivered, peer>>

(* The state after a part of the header was read. *)
StateAfter(s) ==
    CASE s = "MiniHeader" /\ frame.length # "short" -> "Length"
      [] s = "MiniHeader" /\ frame.length = "short" -> "Mask"
      [] s = "Length" -> "Mask"
      [] s = "Mask" -> "Payload"

RunReadHeader(throws) ==
    /\ read = "ok" /\ conn.state # "Payload"
    /\ DoRead(conn, out, StateAfter(conn.state), throws)
    /\ UNCHANGED <<frame, inbox, tasks, calls, frames, delivered, peer>>

(* Mutant of Joined: a continuation is taken for text. *)
JoinedAsText == [parts |-> Append(inbox.parts, frames), binary |-> frame.op = "binary"]

(* message_ += fragment_, and is_binary_ *)
Joined ==
    [parts  |-> Append(inbox.parts, frames),
     binary |-> IF frame.op = "continuation" THEN inbox.binary ELSE frame.op = "binary"]

(* handle_fragment() of a data frame: message_handler_ gets a whole message. *)
RunData(closes, io, throws) ==
    /\ read = "ok" /\ conn.state = "Payload" /\ IsData(frame)
    /\ closes \/ throws = "message" => frame.fin
    /\ delivered' = IF frame.fin THEN Joined ELSE delivered
    /\ LET r == AfterCallback(conn, out, closes, io, throws) IN
       \/ /\ throws = "message"
          /\ inbox' = Joined
          /\ CutOff(r.conn, r.out)
       \/ /\ throws # "message"
          /\ inbox' = IF frame.fin THEN [Joined EXCEPT !.parts = <<>>] ELSE Joined
          /\ DoRead(r.conn, r.out, "MiniHeader", throws)
    /\ UNCHANGED <<frame, tasks, calls, frames, peer>>

(* Of a ping, which is answered by a posted pong, or a pong. *)
RunPingPong ==
    /\ read = "ok" /\ conn.state = "Payload" /\ frame.op \in {"ping", "pong"}
    /\ tasks' = IF frame.op = "ping" THEN Append(tasks, "send") ELSE tasks
    /\ DoRead(conn, out, "MiniHeader", "none")
    /\ UNCHANGED <<frame, inbox, calls, frames, delivered, peer>>

(* Of a close frame: it is answered, and do_read() then finds that the      *)
(* handshake is over; or it is the answer.                                 *)
RunClose(io, throws) ==
    /\ read = "ok" /\ conn.state = "Payload" /\ frame.op = "close"
    /\ LET c == [conn EXCEPT !.recvClose = TRUE]
           d == IF c.called THEN c ELSE Reported(c)
       IN  \/ /\ ~conn.sentClose
              /\ DoRead(Closed(c), CloseEmits(c, out, io, throws), "MiniHeader", throws)
           \/ /\ conn.sentClose /\ ~c.called /\ throws = "close"
              /\ CutOff([d EXCEPT !.closing = TRUE], out)
           \/ /\ conn.sentClose /\ (c.called \/ throws # "close")
              /\ End([d EXCEPT !.called = TRUE], out, throws)
    /\ UNCHANGED <<frame, inbox, tasks, calls, frames, delivered, peer>>
-----------------------------------------------------------------------------
Worker ==
    \/ RunPingPong
    \/ \E io \in Chances, closes \in BOOLEAN, throws \in {"none", "message"} :
          RunData(closes, io, throws)
    \/ \E io \in Chances, throws \in {"none", "close"} :
          RunTask(io, throws) \/ RunWritten(io.room, throws) \/ RunClose(io, throws)
    \/ \E throws \in {"none", "error", "close"} :
          RunReadError(throws) \/ RunReadHeader(throws)

Next ==
    \/ Refuse
    \/ \E closes \in BOOLEAN, io \in Chances, throws \in {"none", "open"} :
          Start(closes, io, throws)
    \/ Worker
    \/ Send \/ CallClose
    \/ \E f \in Frames, split \in BOOLEAN : ArriveHeader(f, split)
    \/ ArriveRest \/ ArriveError
    \/ \E place \in {"sending", "queued", "gone"}, outcome \in {"sent", "failed"} :
          Complete(place, outcome)

Spec == Init /\ [][Next]_vars
-----------------------------------------------------------------------------
Connection ==
    [state : {"Handshake", "Refused", "MiniHeader", "Length", "Mask", "Payload"},
     sentClose : BOOLEAN, recvClose : BOOLEAN, closing : BOOLEAN, called : BOOLEAN,
     listed : BOOLEAN, open : BOOLEAN,
     reports : 0..2, dropped : BOOLEAN, cut : BOOLEAN]

Output ==
    [sending : SUBSET {"old"}, queued : SUBSET {"new", "old"},
     flight : [sending : Nat, queued : Nat, gone : Nat],
     ready : Seq({"sent", "failed"}), again : BOOLEAN, overlap : BOOLEAN]

Message == [parts : Seq(Nat), binary : BOOLEAN]

TypeOK ==
    /\ conn \in Connection
    /\ read \in {"none", "waiting", "ok", "error"}
    /\ frame \in Frame
    /\ inbox \in Message /\ delivered \in Message
    /\ out \in Output
    /\ tasks \in Seq({"send", "close"})
    /\ calls \in Nat /\ frames \in Nat
    /\ peer \in [now : Message, done : Message, proper : BOOLEAN]

(* No connection is orphaned: one that App::websockets_ holds has a read    *)
(* under way that will notice the end of the peer, and one without a read  *)
(* has closed its socket and reported its end to close_handler_, once and  *)
(* at its end.  Two things break this: a callback that throws cuts off the *)
(* handler that would read on or clean up, and the handler of a write that *)
(* drops the connection reports without leaving a note of it.              *)
NoOrphan ==
    /\ conn.listed /\ read = "none" => conn.cut
    /\ Started /\ ~conn.cut =>
          /\ read = "none" => ~conn.open /\ conn.reports > 0
          /\ ~conn.dropped => conn.reports = IF read = "none" THEN 1 ELSE 0

(* Whoever closes first, the peer's close frame ends the connection: no     *)
(* further frame will be read, the close is answered, and unless a callback *)
(* threw, the application was told in an orderly way and the list is left. *)
CloseIsFinal ==
    conn.recvClose =>
        /\ conn.sentClose /\ read = "none"
        /\ ~conn.cut => conn.called /\ ~conn.listed

(* A peer that follows the protocol has its messages delivered whole, in    *)
(* order and with their type, whatever control frames come in between, as  *)
(* long as no header is read in two pieces.                                *)
MessagesAreWhole ==
    peer.proper /\ conn.state = "MiniHeader" /\ read # "ok" => delivered = peer.done

(* The swap of do_write() is right only for frames that come one at a time: *)
(* while no write was begun before the handler of the last one had run,    *)
(* each frame goes out once, and from strings that stay in place.          *)
FramesApartAreIntact ==
    ~out.overlap => ~out.again /\ out.flight.queued = 0 /\ out.flight.gone = 0

(* websocket.h, of do_write: "Send the buffers' data through the socket":   *)
(* each frame once.                                                        *)
EachFrameOnce == ~out.again
=============================================================================
