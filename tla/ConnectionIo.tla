---------------------------- MODULE ConnectionIo -----------------------------
(* One client connection: the state machine of its handle, the read buffer   *)
(* from which packets are built, and the queue of write buffers from which   *)
(* replies are flushed (src/network/connection_handle.cpp,                   *)
(* network_io_wrapper.cpp, include/network/network_io_utils.h,               *)
(* protocol_interpreter.h).                                                  *)
(*                                                                           *)
(* A byte is the place it has in its stream: byte p of what the client       *)
(* sends, byte <<k, i>> of the reply to packet k.  A dialogue says which     *)
(* packets the client sends and how long the replies are.                    *)
EXTENDS Integers, FiniteSets
LOCAL INSTANCE SequencesExt
LOCAL INSTANCE FiniteSetsExt

CONSTANTS
    Dialogues,      \* what a client may send: records [bodies, replies, blocks, timeouts]
    BufferCapacity, \* SOCKET_BUFFER_CAPACITY
    HeaderSize,     \* GetPacketHeaderSize
    PacketLimit     \* PACKET_LEN_LIMIT

VARIABLES
    dialogue,       \* the dialogue of this connection
    sent,           \* number of bytes that the client has sent
    hungUp,         \* the client has closed its end
    machine,        \* [state, next]: StateMachine's state, and the symbol in Accept
    waitsFor,       \* the flags of network_event_: "read", "read_timeout", "write", "none"
    in,             \* ReadBuffer of the wrapper: [bytes, size, offset]
    taken,          \* number of bytes that were read from the socket
    packet,         \* curr_input_packet_
    served,         \* the bodies that commands were given, in order
    out,            \* WriteQueue: [buffers, offset, flush]
    flushHead,      \* local of FlushAllWrites: a buffer's index, 0 for nullptr
    wire            \* the bytes that were written to the socket, in order

ioVars == <<dialogue, sent, hungUp, machine, waitsFor, in, taken, packet, served, out, flushHead, wire>>

NullPos == -1
Chars(n) == 0 .. n - 1

-----------------------------------------------------------------------------
(* What the client sends. *)

Packets == 1 .. Len(dialogue.bodies)

\* The place in the stream where packet k begins.
StartOf(k) == FoldLeft(LAMBDA n, b : n + HeaderSize + b, 0, SubSeq(dialogue.bodies, 1, k - 1))

StreamLength == StartOf(Len(dialogue.bodies) + 1)

BodyOf(k) == [i \in 1 .. dialogue.bodies[k] |-> StartOf(k) + HeaderSize + i - 1]

\* The length field of a header that begins at byte p.  Bytes that are no header read as a
\* length above the limit.
LengthAt(p) ==
    LET ks == {k \in Packets : StartOf(k) = p}
    IN IF ks = {} THEN PacketLimit + 1 ELSE dialogue.bodies[CHOOSE k \in ks : TRUE]

-----------------------------------------------------------------------------
(* Buffer and ReadBuffer. *)

EmptyBuffer == [bytes |-> [i \in Chars(BufferCapacity) |-> NullPos], size |-> 0, offset |-> 0]

HasMore(b, n) == b.offset + n <= b.size
Full(b) == b.size = BufferCapacity
BytesAvailable(b) == b.size - b.offset

BufferReset(b) == [b EXCEPT !.size = 0, !.offset = 0]

MoveContentToHead(b) ==
    LET unprocessed == BytesAvailable(b)
    IN [bytes |-> [i \in DOMAIN b.bytes |-> IF i < unprocessed THEN b.bytes[b.offset + i] ELSE b.bytes[i]],
        size |-> unprocessed, offset |-> 0]

\* read(2) of n bytes of the stream that begin at byte p.
FillFromSocket(b, p, n) ==
    [b EXCEPT !.bytes = [i \in DOMAIN @ |-> IF i \in b.size .. b.size + n - 1 THEN p + i - b.size ELSE @[i]],
              !.size = @ + n]

\* The bytes of ReadIntoView; the cursor moves past them.
View(b, n) == [i \in 1 .. n |-> b.bytes[b.offset + i - 1]]
Advance(b, n) == [b EXCEPT !.offset = @ + n]

-----------------------------------------------------------------------------
(* WriteBuffer and WriteQueue. *)

EmptyWriteBuffer == [bytes |-> <<>>, offset |-> 0]
EmptyQueue == [buffers |-> <<EmptyWriteBuffer>>, offset |-> 0, flush |-> FALSE]

\* BufferWriteRaw with breakup: fill the last buffer, then as many new ones as it takes.
Appended(q, src) ==
    LET tail == Last(q.buffers)
        room == BufferCapacity - Len(tail.bytes)
        fits == SubSeq(src, 1, Min({room, Len(src)}))
        rest == SubSeq(src, Len(fits) + 1, Len(src))
        more == (Len(rest) + BufferCapacity - 1) \div BufferCapacity
        chunk(j) == SubSeq(rest, (j - 1) * BufferCapacity + 1, Min({j * BufferCapacity, Len(rest)}))
    IN [q EXCEPT !.buffers =
           Append(Front(@), [tail EXCEPT !.bytes = @ \o fits])
               \o [j \in 1 .. more |-> [bytes |-> chunk(j), offset |-> 0]]]

ForceFlush(q) == [q EXCEPT !.flush = TRUE]
ShouldFlush(q) == q.flush \/ Len(q.buffers) > 1
FlushHead(q) == IF Len(q.buffers) > q.offset THEN q.offset + 1 ELSE 0
Unwritten(b) == SubSeq(b.bytes, b.offset + 1, Len(b.bytes))

-----------------------------------------------------------------------------
(* InputPacket.  The place of a packet's header stands for what the header says. *)

NoPacket == [parsed |-> FALSE, header |-> NullPos, len |-> 0, extended |-> FALSE, bytes |-> <<>>]

\* TryReadPacketHeader on a header that is complete in the buffer b.
HeaderRead(b) ==
    LET header == b.bytes[b.offset]
        len == LengthAt(header)
    IN [parsed |-> TRUE, header |-> header, len |-> len, extended |-> len > BufferCapacity, bytes |-> <<>>]

-----------------------------------------------------------------------------
(* The transition graph: the next state and what is invoked in it. *)

Goes(s, h) == [state |-> s, invoke |-> h]

Delta == [
    READ |-> [WAKEUP |-> Goes("READ", "TryRead"), PROCEED |-> Goes("PROCESS", "Process"),
              NEED_READ |-> Goes("READ", "WaitRead"), NEED_READ_TIMEOUT |-> Goes("READ", "WaitReadTimeout"),
              NEED_WRITE |-> Goes("READ", "WaitWrite"), TERMINATE |-> Goes("CLOSING", "TryClose")],
    PROCESS |-> [WAKEUP |-> Goes("PROCESS", "GetResult"), PROCEED |-> Goes("WRITE", "TryWrite"),
                 NEED_READ |-> Goes("READ", "TryRead"), NEED_READ_TIMEOUT |-> Goes("READ", "WaitReadTimeout"),
                 NEED_RESULT |-> Goes("PROCESS", "WaitTerrier"), TERMINATE |-> Goes("CLOSING", "TryClose")],
    WRITE |-> [WAKEUP |-> Goes("WRITE", "TryWrite"), NEED_READ |-> Goes("WRITE", "WaitRead"),
               NEED_WRITE |-> Goes("WRITE", "WaitWrite"), PROCEED |-> Goes("PROCESS", "Process"),
               TERMINATE |-> Goes("CLOSING", "TryClose")],
    CLOSING |-> [WAKEUP |-> Goes("CLOSING", "TryClose"), NEED_READ |-> Goes("WRITE", "WaitRead"),
                 NEED_WRITE |-> Goes("WRITE", "WaitWrite"), TERMINATE |-> Goes("CLOSING", "TryClose")]]

Running == machine.next # "NONE"
Defined == machine.next \in DOMAIN Delta[machine.state]

\* Accept is about to invoke h.
Invokes(h) == Running /\ Defined /\ Delta[machine.state][machine.next].invoke = h

\* The handler that was invoked returns symbol t.
Returns(t) == machine' = [state |-> Delta[machine.state][machine.next].state, next |-> t]

-----------------------------------------------------------------------------
IOInit ==
    /\ dialogue \in Dialogues
    /\ sent = 0 /\ hungUp = FALSE /\ taken = 0
    /\ machine = [state |-> "READ", next |-> "NONE"] /\ waitsFor = "read"
    /\ in = EmptyBuffer /\ out = EmptyQueue /\ flushHead = 0
    /\ packet = NoPacket /\ served = <<>> /\ wire = <<>>

\* The client sends some bytes, or leaves.
ClientSends ==
    /\ ~hungUp
    /\ \E n \in 1 .. StreamLength - sent : sent' = sent + n
    /\ UNCHANGED <<dialogue, hungUp, machine, waitsFor, in, taken, packet, served, out, flushHead, wire>>

ClientHangsUp ==
    /\ ~hungUp /\ hungUp' = TRUE
    /\ UNCHANGED <<dialogue, sent, machine, waitsFor, in, taken, packet, served, out, flushHead, wire>>

\* libevent calls HandleEvent: the socket is readable or writable, or the timeout elapsed.
SocketReady ==
    \/ waitsFor \in {"read", "read_timeout"} /\ (sent > taken \/ hungUp)
    \/ waitsFor = "write"

HandleEvent ==
    /\ ~Running /\ SocketReady
    /\ machine' = [machine EXCEPT !.next = "WAKEUP"]
    /\ UNCHANGED <<dialogue, sent, hungUp, waitsFor, in, taken, packet, served, out, flushHead, wire>>

HandleTimeout ==
    /\ ~Running /\ waitsFor = "read_timeout" /\ dialogue.timeouts
    /\ machine' = [machine EXCEPT !.next = "TERMINATE"]
    /\ UNCHANGED <<dialogue, sent, hungUp, waitsFor, in, taken, packet, served, out, flushHead, wire>>

\* AND_WAIT_ON_READ, AND_WAIT_ON_READ_TIMEOUT and AND_WAIT_ON_WRITE.
Wait(h, flags) ==
    /\ Invokes(h) /\ waitsFor' = flags /\ Returns("NONE")
    /\ UNCHANGED <<dialogue, sent, hungUp, in, taken, packet, served, out, flushHead, wire>>

WaitForSocket ==
    \/ Wait("WaitRead", "read") \/ Wait("WaitReadTimeout", "read_timeout") \/ Wait("WaitWrite", "write")

\* A faulty variant: a full buffer is not made room in.
TryReadInPlace ==
    /\ Invokes("TryRead")
    /\ LET emptied == IF HasMore(in, 1) THEN in ELSE BufferReset(in)
           roomy == emptied
           n == Min({BufferCapacity - roomy.size, sent - taken})
       IN /\ in' = FillFromSocket(roomy, taken, n)
          /\ taken' = taken + n
          /\ \/ n > 0 /\ Returns("PROCEED")
             \/ n = 0 /\ ~Full(roomy) /\ hungUp /\ Returns("TERMINATE")
             \/ n = 0 /\ (Full(roomy) \/ ~hungUp) /\ Returns("NEED_READ")
    /\ UNCHANGED <<dialogue, sent, hungUp, waitsFor, packet, served, out, flushHead, wire>>

\* FillReadBuffer: make room, then read until the buffer is full or nothing is left.
TryRead ==
    /\ Invokes("TryRead")
    /\ LET emptied == IF HasMore(in, 1) THEN in ELSE BufferReset(in)
           roomy == IF HasMore(emptied, 1) /\ Full(emptied) THEN MoveContentToHead(emptied) ELSE emptied
           n == Min({BufferCapacity - roomy.size, sent - taken})
       IN /\ in' = FillFromSocket(roomy, taken, n)
          /\ taken' = taken + n
          /\ \/ n > 0 /\ Returns("PROCEED")
             \/ n = 0 /\ ~Full(roomy) /\ hungUp /\ Returns("TERMINATE")
             \/ n = 0 /\ (Full(roomy) \/ ~hungUp) /\ Returns("NEED_READ")
    /\ UNCHANGED <<dialogue, sent, hungUp, waitsFor, packet, served, out, flushHead, wire>>

\* Process, first half: TryBuildPacket.  A header that is too large throws.
Built ==
    IF packet.parsed \/ ~HasMore(in, HeaderSize) THEN [in |-> in, packet |-> packet]
    ELSE [in |-> Advance(in, HeaderSize), packet |-> HeaderRead(in)]

SizeNeeded(p) == IF p.extended THEN p.len - Len(p.bytes) ELSE p.len

\* The bytes of the packet that are in the wrapper's buffer are copied if it was extended.
Collected(b, p) ==
    LET n == Min({SizeNeeded(p), BytesAvailable(b)})
    IN IF p.extended THEN [in |-> Advance(b, n), packet |-> [p EXCEPT !.bytes = @ \o View(b, n)]]
       ELSE [in |-> b, packet |-> p]

Complete(b, p) == SizeNeeded(p) <= BytesAvailable(b)

\* A packet that is not complete yet waits for more.
ProcessWaits ==
    /\ Invokes("Process")
    /\ LET h == Built IN
       /\ ~(h.packet.parsed /\ Complete(h.in, h.packet)) /\ h.packet.len <= PacketLimit
       /\ in' = Collected(h.in, h.packet).in /\ packet' = Collected(h.in, h.packet).packet
    /\ Returns("NEED_READ_TIMEOUT")
    /\ UNCHANGED <<dialogue, sent, hungUp, waitsFor, taken, served, out, flushHead, wire>>

\* TryReadPacketHeader throws before it marks the header as parsed.
ProcessThrows ==
    /\ Invokes("Process")
    /\ LET h == Built IN
       /\ h.packet.parsed /\ h.packet.len > PacketLimit
       /\ in' = h.in /\ packet' = [packet EXCEPT !.len = h.packet.len]
    /\ Returns("TERMINATE")
    /\ UNCHANGED <<dialogue, sent, hungUp, waitsFor, taken, served, out, flushHead, wire>>

\* A command gets the body and writes its reply, or, without one, ends the connection (a
\* Terminate packet, or a body that Exec cannot read).
ProcessCommand ==
    /\ Invokes("Process")
    /\ LET h == Built
           c == Collected(h.in, h.packet)
           k == Len(served) + 1
       IN /\ h.packet.parsed /\ h.packet.len <= PacketLimit /\ Complete(h.in, h.packet)
          /\ served' = Append(served, IF c.packet.extended THEN c.packet.bytes ELSE View(c.in, c.packet.len))
          /\ in' = IF c.packet.extended THEN c.in ELSE Advance(c.in, c.packet.len)
          /\ packet' = NoPacket
          /\ IF dialogue.replies[k] = 0
             THEN out' = ForceFlush(out) /\ Returns("TERMINATE")
             ELSE /\ out' = Appended(ForceFlush(out), [i \in 1 .. dialogue.replies[k] |-> <<k, i>>])
                  /\ Returns("PROCEED")
    /\ UNCHANGED <<dialogue, sent, hungUp, waitsFor, taken, flushHead, wire>>

-----------------------------------------------------------------------------
(* TryWrite and FlushAllWrites.  While flushHead is set the loop is running. *)

Flushing == flushHead # 0

TryWrite ==
    /\ Invokes("TryWrite") /\ ~Flushing
    /\ \/ ~ShouldFlush(out) /\ Returns("PROCEED") /\ UNCHANGED <<out, flushHead>>
       \/ ShouldFlush(out) /\ FlushHead(out) # 0 /\ flushHead' = FlushHead(out) /\ UNCHANGED <<machine, out>>
       \/ ShouldFlush(out) /\ FlushHead(out) = 0 /\ out' = EmptyQueue /\ Returns("PROCEED") /\ UNCHANGED flushHead
    /\ UNCHANGED <<dialogue, sent, hungUp, waitsFor, in, taken, packet, served, wire>>

\* FlushWriteBuffer empties the buffer; the loop reads the head, then marks it as flushed.
FlushBuffer ==
    /\ Flushing
    /\ wire' = wire \o Unwritten(out.buffers[flushHead])
    /\ LET done == [out EXCEPT !.buffers[flushHead] = EmptyWriteBuffer, !.offset = @ + 1]
       IN IF FlushHead(out) # 0 THEN flushHead' = FlushHead(out) /\ out' = done /\ UNCHANGED machine
          ELSE flushHead' = 0 /\ out' = EmptyQueue /\ Returns("PROCEED")
    /\ UNCHANGED <<dialogue, sent, hungUp, waitsFor, in, taken, packet, served>>

\* A faulty variant: a buffer that was written in part is written again.
FlushBlocksAnew ==
    /\ Flushing /\ dialogue.blocks
    /\ LET rest == Unwritten(out.buffers[flushHead]) IN
       \E n \in 0 .. Len(rest) - 1 :
          /\ wire' = wire \o SubSeq(rest, 1, n)
          /\ out' = [out EXCEPT !.buffers[flushHead].offset = @]
    /\ flushHead' = 0 /\ Returns("NEED_WRITE")
    /\ UNCHANGED <<dialogue, sent, hungUp, waitsFor, in, taken, packet, served>>

\* The socket takes some of the bytes and then would block: EAGAIN.
FlushBlocks ==
    /\ Flushing /\ dialogue.blocks
    /\ LET rest == Unwritten(out.buffers[flushHead]) IN
       \E n \in 0 .. Len(rest) - 1 :
          /\ wire' = wire \o SubSeq(rest, 1, n)
          /\ out' = [out EXCEPT !.buffers[flushHead].offset = @ + n]
    /\ flushHead' = 0 /\ Returns("NEED_WRITE")
    /\ UNCHANGED <<dialogue, sent, hungUp, waitsFor, in, taken, packet, served>>

\* The client has gone: EPIPE.
FlushFails ==
    /\ Flushing /\ hungUp /\ Unwritten(out.buffers[flushHead]) # <<>>
    /\ flushHead' = 0 /\ Returns("TERMINATE")
    /\ UNCHANGED <<dialogue, sent, hungUp, waitsFor, in, taken, packet, served, out, wire>>

\* A faulty variant: the close returns PROCEED.
TryCloseProceeds ==
    /\ Invokes("TryClose")
    /\ waitsFor' = "none" /\ Returns("PROCEED")
    /\ UNCHANGED <<dialogue, sent, hungUp, in, taken, packet, served, out, flushHead, wire>>

\* TryCloseConnection: the socket is closed and the events are unregistered.
TryClose ==
    /\ Invokes("TryClose")
    /\ waitsFor' = "none" /\ Returns("NONE")
    /\ UNCHANGED <<dialogue, sent, hungUp, in, taken, packet, served, out, flushHead, wire>>

AcceptStep ==
    \/ WaitForSocket \/ TryRead \/ ProcessWaits \/ ProcessThrows \/ ProcessCommand
    \/ TryWrite \/ FlushBuffer \/ FlushBlocks \/ FlushFails \/ TryClose

IONext == ClientSends \/ ClientHangsUp \/ HandleEvent \/ HandleTimeout \/ AcceptStep

-----------------------------------------------------------------------------
Closed == machine = [state |-> "CLOSING", next |-> "NONE"]

\* All the bytes of the replies to the packets that were served.
Replies == FlattenSeq([k \in DOMAIN served |-> [i \in 1 .. dialogue.replies[k] |-> <<k, i>>]])

\* Delta never throws "undefined transition", and the state machine is never woken for a
\* result, which no command asks for (connection_handle.cpp:94, GetResult).
TransitionsDefined ==
    Running => Defined /\ Delta[machine.state][machine.next].invoke \notin {"GetResult", "WaitTerrier"}

\* However the stream is cut into reads, a header is read where a packet begins, and every
\* command is given the body of its packet, byte for byte (TryBuildPacket).
PacketsFramed ==
    /\ \A k \in DOMAIN served : k \in Packets /\ served[k] = BodyOf(k)
    /\ packet.parsed => Len(served) + 1 \in Packets /\ packet.header = StartOf(Len(served) + 1)

\* The client receives the replies in order and without a gap (FlushAllWrites).
RepliesInOrder == IsPrefix(wire, Replies)

\* The server does not wait for the next packet while it holds a reply back: then client and
\* server would wait for each other (ForceFlush, ShouldFlush).
NoMutualWait == ~Running /\ waitsFor \in {"read", "read_timeout"} /\ ~hungUp => wire = Replies

\* A client that has begun to send and stays has all its packets served and answered, unless
\* the connection is closed.
DialogueEnds ==
    (sent > 0) ~> (hungUp \/ Closed \/ (Len(served) = Len(dialogue.bodies) /\ wire = Replies))

\* Requests reach their commands whole, through transitions that are defined.
RequestsFramed == TransitionsDefined /\ PacketsFramed

\* Replies reach the client in order, all of them before the server waits for the client.
RepliesDelivered == RepliesInOrder /\ NoMutualWait
=============================================================================
