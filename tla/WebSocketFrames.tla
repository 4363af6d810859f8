--------------------------- MODULE WebSocketFrames ---------------------------
(***************************************************************************)
(* The frames under RpcLink: ws::build and ws::Parser of                   *)
(* src/src/miniserver/utils/websocket.h, and how WsRpc::read_message feeds *)
(* the parser with whatever the socket has (wsrpc.cpp:80).                 *)
(*                                                                         *)
(* Bytes are numbers.  The peer, a browser, is external: it builds frames  *)
(* in the same form, cuts a message into fragments or not, and masks each  *)
(* frame with a key or not.  The parser is made without need_fragmented    *)
(* (wsrpc.hpp:71): it puts fragments together.  Which type of message the  *)
(* caller of read_message waits for is the protocol of RpcLink; here it    *)
(* takes text and binary.                                                  *)
(***************************************************************************)
EXTENDS Naturals, Sequences, Bitwise

CONSTANTS Payload,   \* the payloads that the first frame sent may have, the second, ...
          Types,     \* the types of their messages
          Masks,     \* the keys of frames: <<>> for none
          Chunk      \* how many bytes a read may give, if it does not give all

Opcode == [continuation |-> 0, text |-> 1, binary |-> 2, connClose |-> 8, ping |-> 9, pong |-> 10]
Control == {"connClose", "ping", "pong"}
FramesFit ==
  /\ Types \subseteq DOMAIN Opcode \ {"continuation"}
  /\ \A n \in DOMAIN Payload : \A b \in Payload[n] : b \in Seq(0..255)
  /\ \A k \in Masks : k \in Seq(0..255) /\ Len(k) \in {0, 4}
  /\ Chunk \subseteq Nat \ {0}

VARIABLES
  wire,    \* bytes that were sent and not read
  buff,    \* bytes that were put back into the stream
  parser,  \* the parser: fields named as in the class
  ping,    \* whether this read_message may still send a ping
  ended,   \* read_message has returned nothing: the session ends
  pongs,   \* payloads of the pongs sent
  sent,    \* history: the messages sent,
  got,     \* and those the parser gave,
  open,    \* what the peer has sent of a message in fragments,
  mixed,   \* whether it sent a control frame between fragments
  frames   \* frames sent, for the bound
session_vars == <<buff, parser, ping, ended, pongs, got>>
vars == <<wire, session_vars, sent, open, mixed, frames>>
-----------------------------------------------------------------------------
(***************************************************************************)
(* ws::build.  A frame that closes carries its code alone: the reason is   *)
(* copied behind the end of what is sent.                                  *)
(***************************************************************************)
Length(n, mm) ==
  CASE n < 126 -> <<mm + n>>
    [] n \in 126..65535 -> <<mm + 126, n \div 256, n % 256>>
    [] OTHER -> <<mm + 127>> \o [i \in 1..8 |-> (n \div (256 ^ (8 - i))) % 256]

\* a payload under a key, from the at-th byte of the key on; a key of zeros is none
Masked(b, key, at) ==
  IF \A i \in DOMAIN key : key[i] = 0 THEN b
  ELSE [i \in DOMAIN b |-> b[i] ^^ key[((at + i - 1) % 4) + 1]]

Bytes(m) == IF m.type = "connClose" THEN <<m.code \div 256, m.code % 256>> ELSE m.payload

build(m, fin, key) ==
  <<(IF fin THEN 128 ELSE 0) + Opcode[m.type]>>
    \o Length(Len(Bytes(m)), IF key = <<>> THEN 0 ELSE 128) \o key \o Masked(Bytes(m), key, 0)
-----------------------------------------------------------------------------
(***************************************************************************)
(* The peer.                                                               *)
(***************************************************************************)
None == [type |-> "none", payload |-> <<>>, code |-> 0]
Message(t, b) == IF t = "connClose" THEN [type |-> t, payload |-> <<>>, code |-> 1000]
                 ELSE [type |-> t, payload |-> b, code |-> 0]

SendFrame(m, fin, key) ==
  /\ ~ended /\ frames < Len(Payload) /\ frames' = frames + 1
  /\ wire' = wire \o build(m, fin, key)
  /\ UNCHANGED session_vars

\* control frames are short
Fits(t, b) == t \in Control => Len(b) < 126

SendMessage(t, b, key) ==
  /\ open = None /\ Fits(t, b)
  /\ SendFrame(Message(t, b), TRUE, key)
  /\ sent' = Append(sent, Message(t, b)) /\ UNCHANGED <<open, mixed>>

\* a control frame may come between fragments
SendBetween(t, b, key) ==
  /\ open # None /\ t \in Control /\ Fits(t, b)
  /\ SendFrame(Message(t, b), TRUE, key)
  /\ sent' = Append(sent, Message(t, b)) /\ mixed' = TRUE /\ UNCHANGED open

SendFirst(t, b, key) ==
  /\ open = None /\ t \notin Control
  /\ SendFrame(Message(t, b), FALSE, key)
  /\ open' = Message(t, b) /\ UNCHANGED <<sent, mixed>>

SendNext(b, fin, key) ==
  /\ open # None
  /\ SendFrame([open EXCEPT !.type = "continuation", !.payload = b], fin, key)
  /\ LET whole == [open EXCEPT !.payload = @ \o b]
     IN /\ open' = IF fin THEN None ELSE whole
        /\ sent' = IF fin THEN Append(sent, whole) ELSE sent
  /\ UNCHANGED mixed
-----------------------------------------------------------------------------
(***************************************************************************)
(* The parser.  push_data takes bytes until a message is complete; what it *)
(* leaves is what get_unused_data gives.                                   *)
(***************************************************************************)
Fresh == [state |-> "first_byte", state_len |-> 0, payload_len |-> 0, mask_cntr |-> 0,
          fin |-> FALSE, masked |-> FALSE, type |-> 0, masking |-> <<0, 0, 0, 0>>,
          final_type |-> "unknown", message |-> <<>>]

\* broken variant: the length of the frame before stays
reset_state_Keeps(p) ==
  [p EXCEPT !.state = "first_byte", !.masking = <<0, 0, 0, 0>>, !.fin = FALSE,
            !.masked = FALSE, !.state_len = 0]
\* type, mask_cntr and final_type stay
reset_state(p) ==
  [p EXCEPT !.state = "first_byte", !.masking = <<0, 0, 0, 0>>, !.fin = FALSE,
            !.masked = FALSE, !.payload_len = 0, !.state_len = 0]
reset(p) == [reset_state(p) EXCEPT !.message = <<>>]

FinalType(p) ==
  IF p.type = Opcode["continuation"] THEN p.final_type
  ELSE IF \E t \in DOMAIN Opcode : Opcode[t] = p.type
       THEN CHOOSE t \in DOMAIN Opcode : Opcode[t] = p.type
       ELSE "unknown"

\* a fragment that is not the last leaves the parser ready for the next
finalize(p) ==
  LET q == [p EXCEPT !.state = "complete", !.final_type = FinalType(p)]
  IN IF q.fin THEN q ELSE reset_state(q)

FirstByte(p, c) ==
  [p EXCEPT !.state = "second_byte", !.fin = c >= 128, !.type = c % 16]

\* a frame without mask has its payload right behind a short length
SecondByte(p, c) ==
  LET q == [p EXCEPT !.masked = c >= 128]
      n == c % 128
  IN CASE n = 127 -> [q EXCEPT !.state = "payload_len", !.state_len = 8]
       [] n = 126 -> [q EXCEPT !.state = "payload_len", !.state_len = 2]
       [] n < 126 /\ q.masked ->
            [q EXCEPT !.state = "masking", !.state_len = 4, !.payload_len = n]
       [] n \in 1..125 /\ ~q.masked -> [q EXCEPT !.state = "payload", !.state_len = n]
       [] OTHER -> finalize(q)

PayloadLen(p, c) ==
  LET q == [p EXCEPT !.payload_len = 256 * @ + c, !.state_len = @ - 1]
  IN CASE q.state_len > 0 -> q
       [] q.state_len = 0 /\ q.masked -> [q EXCEPT !.state = "masking", !.state_len = 4]
       [] q.state_len = 0 /\ ~q.masked /\ q.payload_len > 0 ->
            [q EXCEPT !.state = "payload", !.state_len = q.payload_len]
       [] OTHER -> finalize(q)

Masking(p, c) ==
  LET q == [p EXCEPT !.masking[5 - p.state_len] = c, !.state_len = @ - 1]
  IN CASE q.state_len > 0 -> q
       [] q.state_len = 0 /\ q.payload_len > 0 ->
            [q EXCEPT !.state = "payload", !.state_len = q.payload_len, !.mask_cntr = 0]
       [] OTHER -> finalize(q)

\* as many bytes of the payload as there are
PayloadBytes(p, b) ==
  LET q == [p EXCEPT !.message = @ \o Masked(b, p.masking, p.mask_cntr),
                     !.mask_cntr = (@ + Len(b)) % 4, !.state_len = @ - Len(b)]
  IN IF q.state_len = 0 THEN finalize(q) ELSE q

\* the parser, and the data it has left unused
RECURSIVE push_data(_, _)
push_data(p, data) ==
  LET n == IF p.state = "payload" /\ p.state_len < Len(data) THEN p.state_len ELSE Len(data)
      c == Head(data)
  IN IF data = <<>> \/ p.state = "complete" THEN [parser |-> p, unused |-> data]
     ELSE IF p.state = "payload"
     THEN push_data(PayloadBytes(p, SubSeq(data, 1, n)), SubSeq(data, n + 1, Len(data)))
     ELSE push_data(CASE p.state = "first_byte" -> FirstByte(p, c)
                      [] p.state = "second_byte" -> SecondByte(p, c)
                      [] p.state = "payload_len" -> PayloadLen(p, c)
                      [] p.state = "masking" -> Masking(p, c), Tail(data))

\* (a code is valid for a close only)
get_message(p) ==
  IF p.final_type = "connClose"
  THEN [type |-> "connClose", payload |-> SubSeq(p.message, 3, Len(p.message)),
        code |-> IF Len(p.message) < 2 THEN 0 ELSE 256 * p.message[1] + p.message[2]]
  ELSE [type |-> p.final_type, payload |-> p.message, code |-> 0]
-----------------------------------------------------------------------------
(***************************************************************************)
(* read_message: it reads and parses until a message is complete, puts     *)
(* back what is left, and returns the message, answers it or ends.         *)
(***************************************************************************)
\* what a read of the stream may give: all that was put back, or some of the wire
Readable ==
  IF buff # <<>> THEN {buff}
  ELSE {SubSeq(wire, 1, n) : n \in {n \in Chunk \cup {Len(wire)} : n <= Len(wire)}} \ {<<>>}

ReadSome ==
  /\ ~ended
  /\ \E data \in Readable :
       LET pushed == push_data(parser, data)
           done == pushed.parser.state = "complete"
           msg == get_message(pushed.parser)
       IN /\ wire' = IF buff = <<>> THEN SubSeq(wire, Len(data) + 1, Len(wire)) ELSE wire
          /\ buff' = IF done THEN pushed.unused ELSE <<>>
          /\ parser' = IF done THEN reset(pushed.parser) ELSE pushed.parser
          /\ got' = IF done THEN Append(got, msg) ELSE got
          /\ ping' = (done \/ ping)
          /\ pongs' = IF done /\ msg.type = "ping" THEN Append(pongs, msg.payload) ELSE pongs
          /\ ended' = (done /\ msg.type \notin {"text", "binary", "ping", "pong"})
  /\ UNCHANGED <<sent, open, mixed, frames>>

\* nothing comes for thirty seconds: the first time within a message a ping goes out
Timeout ==
  /\ ~ended /\ buff = <<>> /\ wire = <<>>
  /\ ping' = FALSE /\ ended' = ~ping
  /\ UNCHANGED <<wire, buff, parser, pongs, got, sent, open, mixed, frames>>

\* the connection is closed or broken
Eof ==
  /\ ~ended /\ buff = <<>> /\ wire = <<>> /\ ended' = TRUE
  /\ UNCHANGED <<wire, buff, parser, ping, pongs, got, sent, open, mixed, frames>>

Init ==
  /\ wire = <<>> /\ buff = <<>> /\ parser = Fresh /\ ping = TRUE /\ ended = FALSE /\ pongs = <<>>
  /\ sent = <<>> /\ got = <<>> /\ open = None /\ mixed = FALSE /\ frames = 0

\* the next connection has a stream and a parser of its own
Connect ==
  /\ ended /\ ended' = FALSE /\ wire' = <<>> /\ buff' = <<>> /\ parser' = Fresh /\ ping' = TRUE
  /\ pongs' = <<>> /\ sent' = <<>> /\ got' = <<>> /\ open' = None /\ mixed' = FALSE /\ frames' = 0

Next ==
  \/ \E b \in UNION {Payload[n] : n \in {frames + 1} \cap DOMAIN Payload}, k \in Masks :
       \/ \E t \in Types : SendMessage(t, b, k) \/ SendBetween(t, b, k) \/ SendFirst(t, b, k)
       \/ \E fin \in BOOLEAN : SendNext(b, fin, k)
  \/ ReadSome \/ Timeout \/ Eof \/ Connect

Spec == Init /\ [][Next]_vars
-----------------------------------------------------------------------------
(***************************************************************************)
(* AsSent: however the bytes are cut by reads and the messages by frames,  *)
(* read_message gets the messages that were sent, in order and whole       *)
(* (websocket.h:84), and when a session has parsed all bytes none is kept  *)
(* back.  This needs a peer that sends no ping, pong or close between the  *)
(* fragments of a message: the parser gives the fragments that came before *)
(* as part of such a frame.  Every ping is answered with its own payload.  *)
(***************************************************************************)
AsSent ==
  ~mixed =>
    /\ got = SubSeq(sent, 1, Len(got))
    /\ wire = <<>> /\ buff = <<>> /\ ~ended => Len(got) = Len(sent)
    /\ pongs = [i \in 1..Len(SelectSeq(got, LAMBDA m : m.type = "ping")) |->
                  SelectSeq(got, LAMBDA m : m.type = "ping")[i].payload]
=============================================================================
