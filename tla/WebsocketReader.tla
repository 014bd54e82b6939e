-------------------------- MODULE WebsocketReader --------------------------
(***************************************************************************)
(* The reading side of a websocket (src/xfinal/websocket.hpp), from        *)
(* move_socket to its removal from websocket_event_map.                    *)
(*                                                                         *)
(* The io thread runs one handler at a time.  A frame is read in up to     *)
(* four reads: the two bytes of its head, its length, its mask key, its    *)
(* payload.  Each read is under the read timer, whose expiry closes the    *)
(* websocket.  A final frame runs the application's "message" event, which *)
(* may write the message back or close.  Application threads may close or  *)
(* shut down the websocket at any time; close is taken apart, since it     *)
(* runs on several threads without a lock.                                 *)
(*                                                                         *)
(* A payload byte is the number it has in what the peer sent, with the     *)
(* mask that is on it; masking and unmasking are the same exclusive or.    *)
(***************************************************************************)
EXTENDS FrameWriter

CONSTANTS
    Users,      \* application threads that close the websocket
    PeerOps,    \* the opcodes of the peer's frames
    Lengths,    \* the payload lengths of the peer's frames
    WordSize,   \* the number of values of std::uint64_t and of std::size_t
    MaxBuffer,  \* the longest vector that std::vector::resize can make
    FrameSize,  \* frame_data_size_
    MaxFrames   \* bound: the frames the peer sends

Io == "io"

ASSUME ReaderAssumption ==
    /\ Io \notin Users
    /\ WordSize \in Nat \ {0}
    /\ Lengths \subseteq 0 .. WordSize - 1
    /\ MaxBuffer \in Nat
    /\ FrameSize \in 1 .. Len16 - 1
    /\ MaxFrames \in Nat

VARIABLES
    sockOpen,   \* the asio socket is open
    open,       \* socket_is_open_
    registered, \* websocket_event_map has the websocket
    known,      \* its url has events: the application knows it
    timer,      \* wait_read_timer_ is armed
    expired,    \* an expiry handler of it is queued
    reads,      \* the asynchronous reads
    info,       \* frame_info_
    buffers,    \* buffers_
    pos,        \* data_current_pos_
    message,    \* message_
    opcode,     \* message_opcode
    out,        \* the frames this "message" event handed to the hub
    ioPc,       \* the part of move_socket or of a handler the io thread is in;
                \* "ended" with the whole program
    pc,         \* where each thread is in close or null_close
    notify,     \* it is in close, which triggers the "close" event
    wire,       \* the frame the peer is sending; once it is read, forgotten
    frames,     \* the number of frames it has sent
    sent,       \* history: the number of payload bytes it has sent
    whole,      \* history: the bytes of the message it is sending, or sent last
    wholeOp,    \* history: the opcode of that message
    inMessage,  \* history: it has sent a part of a message and not its end
    told,       \* history: the "close" event was triggered
    silenced    \* history: shutdown was called

flagVars == <<sockOpen, open, registered, known>>
threadVars == <<ioPc, pc, notify>>
timerVars == <<timer, expired>>
dataVars == <<buffers, pos, message>>
sentVars == <<frames, sent, whole, wholeOp, inMessage>>
peerVars == <<wire, sentVars>>
closeHistory == <<told, silenced>>
vars == <<flagVars, threadVars, timerVars, reads, info, dataVars, opcode, out,
          peerVars, closeHistory>>

Threads == Users \cup {Io}
Kinds == {"head", "length", "key", "data"}
ReadStates == {"none", "sent", "ok", "error"}
IoPcs == {"move", "openEvent", "messageEvent", "start", "idle", "ended"}
Pcs == {"idle", "test", "socket", "clearOpen", "timers", "remove"}

Continuation == 0   Text == 1   Binary == 2
CloseOp == 8        Ping == 9   Pong == 10
DataOps == {Continuation, Text, Binary}
Opcodes == DataOps \cup {CloseOp, Ping, Pong}
ASSUME PeerOpsAssumption == PeerOps \subseteq Opcodes
Keys == {0, 1}

Bytes == [number : Nat, mask : Keys]
Plain(n) == [number |-> n, mask |-> 0]
Xor(byte, key) == [byte EXCEPT !.mask = (@ + key) % 2]

\* What std::memset leaves in frame_info_.
NoInfo == [fin |-> FALSE, op |-> Continuation, masked |-> FALSE, len |-> 0, key |-> 0]
Infos == [fin : BOOLEAN, op : Opcodes, masked : BOOLEAN, len : Nat, key : Keys]

\* A frame of the peer; `split` if the two bytes of its head come one by one.
Frame(fin, op, masked, len, key, split) ==
    [fin |-> fin, op |-> op, masked |-> masked, len |-> len, key |-> key, split |-> split]
Wires == [fin : BOOLEAN, op : Opcodes, masked : BOOLEAN, len : Nat, key : Keys, split : BOOLEAN]
NoFrame == Frame(TRUE, Text, TRUE, 0, 0, FALSE)
ZeroByte == Plain(0)

\* websockets::start_webscoket has made and registered the websocket.
Init ==
    /\ sockOpen = TRUE
    /\ open = FALSE
    /\ registered = TRUE
    /\ known = FALSE
    /\ timer = FALSE
    /\ expired = FALSE
    /\ reads = [k \in Kinds |-> "none"]
    /\ info = NoInfo
    /\ buffers = <<>>
    /\ pos = 0
    /\ message = <<>>
    /\ opcode = 0
    /\ out = <<>>
    /\ ioPc = "move"
    /\ pc = [t \in Threads |-> "idle"]
    /\ notify = [t \in Threads |-> FALSE]
    /\ wire = NoFrame
    /\ frames = 0
    /\ sent = 0
    /\ whole = <<>>
    /\ wholeOp = Text
    /\ inMessage = FALSE
    /\ told = FALSE
    /\ silenced = FALSE

-----------------------------------------------------------------------------
(* asio and the peer.                                                      *)

ReadTurns(k, from, to) == reads[k] = from /\ reads' = [reads EXCEPT ![k] = to]

ReadUnchanged == UNCHANGED <<flagVars, threadVars, timerVars, info, message, pos, opcode,
                             out, closeHistory>>

\* The peer's next frame: its messages are fragmented as the protocol says,
\* control frames may come in between.  The rest of a frame that frame_parser
\* does not go on with is never looked at.
PeerFrame(fin, op, masked, len, key, split) ==
    /\ frames < MaxFrames
    /\ sockOpen
    /\ ReadTurns("head", "sent", "ok")
    /\ op \in DataOps => ((op = Continuation) <=> inMessage)
    /\ op \notin DataOps \/ ~masked \/ split => fin /\ len = 0
    /\ len = 0 => key = 0
    /\ wire' = Frame(fin, op, masked, len, key, split)
    /\ frames' = frames + 1
    /\ inMessage' = IF op \in DataOps THEN ~fin ELSE inMessage
    /\ whole' = IF op \in {Text, Binary} THEN <<>> ELSE whole
    /\ wholeOp' = IF op \in {Text, Binary} THEN op ELSE wholeOp
    /\ UNCHANGED <<sent, buffers>>
    /\ ReadUnchanged

\* More of that frame: its length or its key.
PeerMore(k) ==
    /\ k \in {"length", "key"}
    /\ sockOpen
    /\ ReadTurns(k, "sent", "ok")
    /\ UNCHANGED <<peerVars, buffers>>
    /\ ReadUnchanged

\* Its payload, masked: asio writes it to the buffer from pos on.
PeerData ==
    LET plain == [i \in 1 .. wire.len |-> Plain(sent + i)]
    IN /\ sockOpen
       /\ pos + wire.len <= Len(buffers)
       /\ ReadTurns("data", "sent", "ok")
       /\ buffers' = [i \in DOMAIN buffers |->
                         IF i \in pos + 1 .. pos + wire.len THEN Xor(plain[i - pos], wire.key)
                         ELSE buffers[i]]
       /\ sent' = sent + wire.len
       /\ whole' = whole \o plain
       /\ UNCHANGED <<wire, frames, wholeOp, inMessage>>
       /\ ReadUnchanged

\* The program ends with an exception that nobody catches, or by a signal:
\* nothing of the websocket is left.
Terminates ==
    /\ ioPc' = "ended"
    /\ sockOpen' = FALSE /\ open' = FALSE /\ registered' = FALSE /\ known' = FALSE
    /\ timer' = FALSE /\ expired' = FALSE
    /\ reads' = [k \in Kinds |-> "none"]
    /\ pc' = [t \in Threads |-> "idle"]
    /\ UNCHANGED <<notify, info, dataVars, opcode, out, peerVars, closeHistory>>

\* Bytes of a payload that the buffer has no room for: asio writes past its
\* end, which is undefined.  The program ends, or nothing is seen of it (then
\* the read stays: its 2^64 bytes and more never come).
PeerOverruns ==
    /\ sockOpen
    /\ reads["data"] = "sent"
    /\ pos + wire.len > Len(buffers)
    /\ Terminates

\* A read ends without its data: the socket was closed, or the peer went away.
ReadError(k) ==
    /\ ReadTurns(k, "sent", "error")
    /\ UNCHANGED <<peerVars, buffers>>
    /\ ReadUnchanged

\* The timer expires: its handler is queued.
Expire ==
    /\ timer
    /\ timer' = FALSE
    /\ expired' = TRUE
    /\ UNCHANGED <<flagVars, threadVars, reads, info, dataVars, opcode, out, peerVars,
                   closeHistory>>

-----------------------------------------------------------------------------
(* The handlers of the io thread.                                          *)

IoGoto(from, to) == ioPc = from /\ ioPc' = to

\* The io thread is inside no handler.
IoIdle == ioPc = "idle" /\ pc[Io] = "idle"

\* It is in the handler of read k, which ended well: cancel_read_time().
Handler(k) ==
    /\ IoIdle
    /\ reads[k] = "ok"
    /\ UNCHANGED <<flagVars, expired, out, peerVars, closeHistory>>

\* Mutant: cancel_read_time() follows the start of the next read.
ReadThenCancel(done, k) ==
    /\ timer' = FALSE
    /\ reads' = [reads EXCEPT ![done] = "none", ![k] = "sent"]

\* start_read_timeout() and an asynchronous read of kind k, after read `done`.
Read(done, k) ==
    /\ timer' = TRUE
    /\ reads' = [reads EXCEPT ![done] = "none", ![k] = "sent"]

NoRead(done) ==
    /\ timer' = FALSE
    /\ reads' = [reads EXCEPT ![done] = "none"]

\* Thread t calls close(), or null_close().
Enter(t, step, event) ==
    /\ pc[t] = "idle"
    /\ pc' = [pc EXCEPT ![t] = step]
    /\ notify' = [notify EXCEPT ![t] = event]
CallClose(t) == Enter(t, "test", TRUE)
CallNullClose(t) == Enter(t, "socket", FALSE)

\* move_socket, and websocket_event_map::trigger for "open": the url has
\* events, or the websocket is closed.
MoveSocket(url) ==
    /\ pc[Io] = "idle"
    /\ open' = TRUE
    /\ known' = url
    /\ IF url
       THEN IoGoto("move", "openEvent") /\ UNCHANGED <<pc, notify>>
       ELSE IoGoto("move", "start") /\ CallNullClose(Io)
    /\ UNCHANGED <<sockOpen, registered, timerVars, reads, info, dataVars, opcode, out,
                   peerVars, closeHistory>>

\* The application's "open" or "message" event returns; the latter may have
\* written the message back.
EventReturns(echo) ==
    /\ IoGoto(ioPc, "start")
    /\ ioPc \in {"openEvent", "messageEvent"}
    /\ echo => ioPc = "messageEvent"
    /\ out' = IF echo THEN Cut(message, Text, FrameSize) ELSE <<>>
    /\ UNCHANGED <<flagVars, pc, notify, timerVars, reads, info, dataVars, opcode, peerVars,
                   closeHistory>>

\* The event calls close() or shutdown(), and then returns.
EventCloses(event) ==
    /\ IoGoto(ioPc, "start")
    /\ ioPc \in {"openEvent", "messageEvent"}
    /\ IF event THEN CallClose(Io) ELSE CallNullClose(Io)
    /\ silenced' = (silenced \/ ~event)
    /\ out' = <<>>
    /\ UNCHANGED <<flagVars, timerVars, reads, info, dataVars, opcode, peerVars, told>>

\* Mutant: start_read without start_read_timeout.
StartReadUntimed ==
    /\ pc[Io] = "idle"
    /\ IoGoto("start", "idle")
    /\ info' = NoInfo
    /\ ReadTurns("head", "none", "sent")
    /\ out' = <<>>
    /\ wire' = NoFrame
    /\ UNCHANGED <<flagVars, pc, notify, timer, expired, dataVars, opcode, sentVars,
                   closeHistory>>

StartRead ==
    /\ pc[Io] = "idle"
    /\ IoGoto("start", "idle")
    /\ info' = NoInfo
    /\ Read("head", "head")
    /\ out' = <<>>
    /\ wire' = NoFrame
    /\ UNCHANGED <<flagVars, pc, notify, expired, dataVars, opcode, sentVars,
                   closeHistory>>

\* Any read that fails closes.
ReadFailed(k) ==
    /\ IoIdle
    /\ ReadTurns(k, "error", "none")
    /\ CallClose(Io)
    /\ UNCHANGED <<flagVars, ioPc, timerVars, info, dataVars, opcode, out, peerVars, closeHistory>>

\* frame_parser, up to where it looks at the opcode.  Of a head that comes
\* one byte at a time the second byte is the 0 of memset.
HeadHandler ==
    /\ Handler("head")
    /\ info' = [NoInfo EXCEPT !.fin = wire.fin, !.op = wire.op,
                              !.masked = wire.masked /\ ~wire.split]
    /\ opcode' = IF wire.op # 0 THEN wire.op ELSE opcode
    /\ UNCHANGED <<ioPc, dataVars>>

\* A close frame, or a frame without a mask.
HeadCloses ==
    /\ HeadHandler
    /\ \/ wire.op = CloseOp
       \/ wire.op \in DataOps /\ (wire.split \/ ~wire.masked)
    /\ NoRead("head")
    /\ CallClose(Io)

\* Ping and pong: write("") hands nothing to the hub.
HeadControl ==
    /\ HeadHandler
    /\ wire.op \in {Ping, Pong}
    /\ NoRead("head")
    /\ UNCHANGED <<pc, notify>>

\* Mutant: a continuation frame, too, sets the opcode of the message.
HeadDataAnyOp ==
    /\ Handler("head")
    /\ wire.op \in DataOps /\ wire.masked /\ ~wire.split
    /\ opcode' = wire.op
    /\ info' = [NoInfo EXCEPT !.fin = wire.fin, !.op = wire.op, !.masked = TRUE,
                              !.len = IF wire.len < Len7 THEN wire.len ELSE 0]
    /\ Read("head", IF wire.len < Len7 THEN "key" ELSE "length")
    /\ UNCHANGED <<threadVars, dataVars>>

\* A data frame: the length is in its head, or comes next.
HeadData ==
    /\ Handler("head")
    /\ wire.op \in DataOps /\ wire.masked /\ ~wire.split
    /\ opcode' = IF wire.op # 0 THEN wire.op ELSE opcode
    /\ info' = [NoInfo EXCEPT !.fin = wire.fin, !.op = wire.op, !.masked = TRUE,
                              !.len = IF wire.len < Len7 THEN wire.len ELSE 0]
    /\ Read("head", IF wire.len < Len7 THEN "key" ELSE "length")
    /\ UNCHANGED <<threadVars, dataVars>>

\* handle_payload_length, of two or of eight bytes.
LengthHandler ==
    /\ Handler("length")
    /\ info' = [info EXCEPT !.len = wire.len]
    /\ Read("length", "key")
    /\ UNCHANGED <<threadVars, dataVars, opcode>>

\* std::vector::resize
Resize(b, n) == [i \in 1 .. n |-> IF i <= Len(b) THEN b[i] ELSE ZeroByte]

\* Mutant: data_current_pos_ is not reset.
DeliverKeepsPos(text) ==
    IF info.fin
    THEN /\ IoGoto("idle", "messageEvent")
         /\ message' = text
         /\ buffers' = <<>>
         /\ pos' = pos
    ELSE IoGoto("idle", "start") /\ UNCHANGED message

\* What follows a frame: its message is complete, or the next frame is read.
Deliver(text) ==
    IF info.fin
    THEN /\ IoGoto("idle", "messageEvent")
         /\ message' = text
         /\ buffers' = <<>>
         /\ pos' = 0
    ELSE IoGoto("idle", "start") /\ UNCHANGED message

\* read_data of a frame without payload.
KeyEmpty ==
    /\ Handler("key")
    /\ info' = [info EXCEPT !.key = wire.key]
    /\ info.len = 0
    /\ Deliver(<<>>)
    /\ ~info.fin => UNCHANGED <<buffers, pos>>
    /\ NoRead("key")
    /\ UNCHANGED <<pc, notify, opcode>>

\* expand_buffer's total_size, in 64 bits: the length is the peer's, and the
\* sum may wrap to less than there is.
TotalSize ==
    LET left == Len(buffers) - pos
    IN IF info.len > left THEN (Len(buffers) + (info.len - left)) % WordSize
       ELSE Len(buffers)

\* read_data: expand_buffer and read the payload.
KeyData ==
    /\ Handler("key")
    /\ info' = [info EXCEPT !.key = wire.key]
    /\ info.len > 0
    /\ TotalSize <= MaxBuffer
    /\ buffers' = Resize(buffers, TotalSize)
    /\ Read("key", "data")
    /\ UNCHANGED <<threadVars, pos, message, opcode>>

\* resize throws std::length_error or std::bad_alloc: nothing catches it on
\* the pool's thread (ioservice_pool::run), and std::terminate is called.
KeyThrows ==
    /\ IoIdle
    /\ reads["key"] = "ok"
    /\ info.len > 0
    /\ TotalSize > MaxBuffer
    /\ Terminates

\* set_current_pos and decode_data.
DataHandler ==
    LET end == pos + info.len
        decoded == [i \in DOMAIN buffers |->
                       IF i \in pos + 1 .. end THEN Xor(buffers[i], info.key) ELSE buffers[i]]
    IN /\ Handler("data")
       /\ Deliver(SubSeq(decoded, 1, end))
       /\ ~info.fin => buffers' = decoded /\ pos' = end
       /\ NoRead("data")
       /\ UNCHANGED <<pc, notify, info, opcode>>

\* The handler of the read timer.
ExpiryHandler ==
    /\ IoIdle
    /\ expired
    /\ expired' = FALSE
    /\ CallClose(Io)
    /\ UNCHANGED <<flagVars, ioPc, timer, reads, info, dataVars, opcode, out, peerVars,
                   closeHistory>>

\* A handler of the write path closes (WebsocketHub); on a websocket that is
\* closed already it changes nothing.
WriteFails ==
    /\ IoIdle
    /\ known /\ open
    /\ CallClose(Io)
    /\ UNCHANGED <<flagVars, ioPc, timerVars, reads, info, dataVars, opcode, out, peerVars,
                   closeHistory>>

-----------------------------------------------------------------------------
(* close and null_close, on any thread.                                    *)

\* An application thread calls close() or shutdown().
UserCloses(u, event) ==
    /\ known
    /\ IF event THEN CallClose(u) ELSE CallNullClose(u)
    /\ silenced' = (silenced \/ ~event)
    /\ UNCHANGED <<flagVars, ioPc, timerVars, reads, info, dataVars, opcode, out, peerVars, told>>

CloseStep(t, from, to) ==
    /\ pc[t] = from
    /\ pc' = [pc EXCEPT ![t] = to]
    /\ UNCHANGED <<known, ioPc, notify, expired, reads, info, dataVars, opcode, out, peerVars,
                   silenced>>

CloseTest(t) ==
    /\ CloseStep(t, "test", IF open THEN "socket" ELSE "idle")
    /\ UNCHANGED <<sockOpen, open, registered, timer, told>>

CloseSocket(t) ==
    /\ CloseStep(t, "socket", "clearOpen")
    /\ sockOpen' = FALSE
    /\ UNCHANGED <<open, registered, timer, told>>

ClearOpen(t) ==
    /\ CloseStep(t, "clearOpen", "timers")
    /\ open' = FALSE
    /\ UNCHANGED <<sockOpen, registered, timer, told>>

CancelTimers(t) ==
    /\ CloseStep(t, "timers", "remove")
    /\ timer' = FALSE
    /\ UNCHANGED <<sockOpen, open, registered, told>>

\* Mutant: null_close leaves the websocket in the map.
UnregisterIfClose(t) ==
    /\ CloseStep(t, "remove", "idle")
    /\ told' = (told \/ notify[t])
    /\ registered' = (registered /\ ~notify[t])
    /\ UNCHANGED <<sockOpen, open, timer>>

\* The "close" event, and websocket_event_map::remove.
Unregister(t) ==
    /\ CloseStep(t, "remove", "idle")
    /\ told' = (told \/ notify[t])
    /\ registered' = FALSE
    /\ UNCHANGED <<sockOpen, open, timer>>

Closing(t) == CloseTest(t) \/ CloseSocket(t) \/ ClearOpen(t) \/ CancelTimers(t) \/ Unregister(t)

-----------------------------------------------------------------------------
IoHandler ==
    \/ \E url \in BOOLEAN : MoveSocket(url)
    \/ \E echo \in BOOLEAN : EventReturns(echo)
    \/ \E event \in BOOLEAN : EventCloses(event)
    \/ StartRead
    \/ \E k \in Kinds : ReadFailed(k)
    \/ HeadCloses \/ HeadControl \/ HeadData
    \/ LengthHandler
    \/ KeyEmpty \/ KeyData \/ KeyThrows
    \/ DataHandler
    \/ ExpiryHandler

Peer ==
    \/ \E fin, masked, split \in BOOLEAN, op \in PeerOps, len \in Lengths, key \in Keys :
           PeerFrame(fin, op, masked, len, key, split)
    \/ \E k \in Kinds : PeerMore(k)
    \/ PeerData \/ PeerOverruns

Next ==
    \/ Peer
    \/ \E k \in Kinds : ReadError(k)
    \/ Expire
    \/ IoHandler
    \/ WriteFails
    \/ \E u \in Users, event \in BOOLEAN : UserCloses(u, event)
    \/ \E t \in Threads : Closing(t)

(* Threads go on, the timer expires, asio ends the reads of a closed       *)
(* socket.  Peer and application need not do anything.                     *)
Fairness ==
    /\ WF_vars(IoHandler)
    /\ WF_vars(Expire)
    /\ \A k \in Kinds : WF_vars(~sockOpen /\ ReadError(k))
    /\ \A t \in Threads : WF_vars(Closing(t))

Spec == Init /\ [][Next]_vars /\ Fairness

-----------------------------------------------------------------------------
(* Properties.                                                             *)

\* expand_buffer's sum has wrapped: the buffer is shorter than what is in it.
Wrapped ==
    /\ pos + info.len >= WordSize
    /\ Len(buffers) = (pos + info.len) % WordSize

Types ==
    /\ {sockOpen, open, registered, known, timer, expired, inMessage, told, silenced}
           \subseteq BOOLEAN
    /\ reads \in [Kinds -> ReadStates]
    /\ info \in Infos
    /\ wire \in Wires
    /\ buffers \in Seq(Bytes) /\ message \in Seq(Bytes) /\ whole \in Seq(Bytes)
    /\ pos \in Nat
    /\ opcode \in Opcodes /\ wholeOp \in {Text, Binary}
    /\ ioPc \in IoPcs
    /\ pc \in [Threads -> Pcs]
    /\ notify \in [Threads -> BOOLEAN]
    /\ frames \in 0 .. MaxFrames /\ sent \in Nat

\* Every variable has its type, and data_current_pos_ is inside the buffer
\* unless expand_buffer's sum wrapped.  Of `out` FramesCarryMessage says more.
TypeOK == Types /\ (pos <= Len(buffers) \/ Wrapped)

\* The handlers of a websocket share its buffers and frame_info_ without a
\* lock: at most one asynchronous read is started or has its handler queued,
\* and none while a handler has still to start the next (websocket::start_read
\* and the reads of frame_parser, handle_payload_length and read_data).
OneReader ==
    /\ \A j, k \in Kinds : reads[j] # "none" /\ reads[k] # "none" => j = k
    /\ ioPc # "idle" => \A k \in Kinds : reads[k] = "none"

\* asio writes a payload into the part of buffers_ that expand_buffer made
\* room for, also when it continues a message, unless the length is such that
\* the sum of the two wraps in 64 bits (websocket::read_data, expand_buffer).
BufferFits ==
    reads["data"] # "none" /\ pos + info.len < WordSize => pos + info.len <= Len(buffers)

\* No read is outstanding without a time limit: while it is, the read timer
\* is armed, or its expiry is queued, or the socket is being closed
\* (websocket::start_read_timeout, cancel_read_time, close).
ReadTimed ==
    (\E k \in Kinds : reads[k] = "sent") =>
        timer \/ expired \/ ~sockOpen \/ pc[Io] \in {"test", "socket"}

\* The "message" event sees the bytes of the whole message, unmasked, in
\* order and none of another, and the opcode of its first frame
\* (websocket::decode_data).  A message that ends with an empty frame after
\* others is left out: read_data throws away what was gathered.
MessageWhole ==
    ioPc = "messageEvent" /\ info.len > 0 => message = whole /\ opcode = wholeOp

\* It handled a ping or a pong: frame_parser starts no further read.
Deaf == info.op \in {Ping, Pong} /\ ioPc = "idle"

\* An open websocket whose peer falls silent is closed by the read timer,
\* unless a control frame has made it deaf (websocket::start_read_timeout).
IdleCloses == open ~> (~open \/ Deaf)

\* The user's manual: a websocket that times out is closed (README.md:646).
TimeoutCloses == open ~> ~open

\* A websocket that was closed, by whichever threads, is let go: no read, no
\* timer and no entry of the map keep it alive, and the application has heard
\* of it unless it called shutdown() itself, its url has no events, or the
\* program has ended (websocket::close, null_close, websocket_event_map::remove).
ClosedReleased ==
    (ioPc # "move" /\ ~open) ~>
        /\ \A k \in Kinds : reads[k] = "none"
        /\ ~timer /\ ~expired /\ ~registered
        /\ told \/ silenced \/ ~known \/ ioPc = "ended"
=============================================================================
