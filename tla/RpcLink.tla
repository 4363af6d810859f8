------------------------------ MODULE RpcLink ------------------------------
(***************************************************************************)
(* The remote procedure calls between a browser tab and the server:        *)
(* WsRpcClient (src/src/web/src/core/wsrpc.ts) and one WsRpc session per   *)
(* connection (src/src/miniserver/wsrpc.cpp, WebInterface::websocket).     *)
(* A message is a text frame that says how many binary frames follow.      *)
(* Calls made while there is no connection wait in #tosend; closing a      *)
(* connection rejects every unanswered call; the client tries again after  *)
(* five seconds, for ever.  An old session may still be working through    *)
(* its requests when the next one starts, so two connections exist at once *)
(* (Conn); the client never has a third before the first is over.          *)
(*                                                                         *)
(* Frames are never lost or reordered inside a connection (TCP); a broken  *)
(* connection loses the rest.  The content of calls and answers is left    *)
(* out: a frame carries the call it belongs to, 0 for a notification.      *)
(***************************************************************************)
EXTENDS Naturals, Sequences

CONSTANTS MaxCalls,   \* bound: calls the tab makes
          MaxBuffer,  \* bound: no notification is sent beyond this many frames
          CallAtt,    \* how many attachments a call may have
          ReplyAtt    \* how many attachments an answer may have

ASSUME BoundAssumption == /\ MaxCalls \in Nat /\ MaxBuffer \in Nat
                          /\ CallAtt \subseteq Nat /\ ReplyAtt \subseteq Nat

Conn == {0, 1}
Call == 1..MaxCalls
Frame == [type : {"text", "binary"}, id : Call \cup {0}, count : Nat]
\* count: how many binary frames follow (a binary frame does not say it, and
\* nobody reads it there)
Text(id, n) == [type |-> "text", id |-> id, count |-> n]
Binary(id, n) == [type |-> "binary", id |-> id, count |-> n]
Message(id, n) == [i \in 1..n + 1 |-> IF i = 1 THEN Text(id, n) ELSE Binary(id, n + 1 - i)]

NoMessage == [id |-> 0, left |-> 0, stale |-> FALSE]

VARIABLES
  conn,      \* the connection the client uses, or last used
  ws,        \* its readyState, "closed" while the timer runs
  idcnt, tosend, responseMap,    \* #idcnt, #tosend, #response_map
  cur,       \* #cur_message and #awaiting_attachment_count; stale is a history
             \* flag: the message began on a connection that is closed
  outcome,   \* how each call ended: "none" so far, "done", "rejected"
  up, down,  \* frames on the way, per connection
  alive,     \* can still carry frames, per connection
  sess,      \* the server's session, per connection
  serverUp, executed
client == <<conn, ws, idcnt, tosend, responseMap, cur, outcome>>
server == <<sess, serverUp, executed>>
vars == <<client, server, up, down, alive>>

Session == [st : {"none", "read", "collect", "reply"}, id : Call \cup {0},
            left : Nat, out : Seq(Frame)]
NoSession == [st |-> "none", id |-> 0, left |-> 0, out |-> <<>>]
Reading == [NoSession EXCEPT !.st = "read"]

Init ==
  /\ conn = 0 /\ ws = "connecting" /\ idcnt = 0 /\ tosend = <<>>
  /\ responseMap = {} /\ cur = NoMessage
  /\ outcome = [c \in Call |-> "none"]
  /\ up = [c \in Conn |-> <<>>] /\ down = [c \in Conn |-> <<>>]
  /\ alive = [c \in Conn |-> FALSE] /\ sess = [c \in Conn |-> NoSession]
  /\ serverUp = TRUE /\ executed = <<>>
-----------------------------------------------------------------------------
(***************************************************************************)
(* The client.                                                             *)
(***************************************************************************)
\* flush: what is queued goes out if the socket is open
Flush(frames) ==
  IF ws' = "open"
  THEN /\ tosend' = <<>>
       /\ up' = [up EXCEPT ![conn] = @ \o (IF alive'[conn] THEN frames ELSE <<>>)]
  ELSE tosend' = frames /\ up' = up

\* broken variant: a call overtakes the queue
CallServer_Overtakes(n) ==
  /\ idcnt < MaxCalls
  /\ idcnt' = idcnt + 1 /\ responseMap' = responseMap \cup {idcnt'}
  /\ UNCHANGED <<ws, alive>>
  /\ Flush(Message(idcnt', n) \o tosend)
  /\ UNCHANGED <<conn, cur, outcome, down, server>>

CallServer(n) ==
  /\ idcnt < MaxCalls
  /\ idcnt' = idcnt + 1 /\ responseMap' = responseMap \cup {idcnt'}
  /\ UNCHANGED <<ws, alive>>
  /\ Flush(tosend \o Message(idcnt', n))
  /\ UNCHANGED <<conn, cur, outcome, down, server>>

\* onopen; the server registers the session and first sends it its state
Connected ==
  /\ ws = "connecting" /\ serverUp
  /\ ws' = "open"
  /\ alive' = [alive EXCEPT ![conn] = TRUE]
  /\ sess' = [sess EXCEPT ![conn] = Reading]
  /\ down' = [down EXCEPT ![conn] = <<Text(0, 0)>>]
  /\ Flush(tosend)
  /\ UNCHANGED <<conn, idcnt, responseMap, cur, outcome, serverUp, executed>>

\* broken variant: the map is dropped without rejecting anybody
RejectAll_Forgets ==
  /\ responseMap' = responseMap
  /\ outcome' = [c \in Call |-> IF c \in responseMap THEN "rejected" ELSE outcome[c]]
\* reject_all
RejectAll ==
  /\ responseMap' = {}
  /\ outcome' = [c \in Call |-> IF c \in responseMap THEN "rejected" ELSE outcome[c]]

\* onclose of an attempt that failed or of a connection that ended; what is
\* queued and what is half received stays
OnClose ==
  /\ \/ ws = "connecting"
     \/ ws = "open" /\ ~alive[conn] /\ down[conn] = <<>>
     \/ ws = "closing"
  /\ ws' = "closed"
  /\ RejectAll
  /\ cur' = [cur EXCEPT !.stale = cur.left > 0]
  /\ alive' = [alive EXCEPT ![conn] = FALSE]
  /\ down' = [down EXCEPT ![conn] = <<>>]
  /\ UNCHANGED <<conn, idcnt, tosend, up, server>>

\* the timer of onclose
Reconnect ==
  /\ ws = "closed" /\ sess[1 - conn].st = "none"
  /\ ws' = "connecting" /\ conn' = 1 - conn
  /\ up' = [up EXCEPT ![conn'] = <<>>]
  /\ UNCHANGED <<idcnt, tosend, responseMap, cur, outcome, down, alive, server>>

\* finish_current_message
Finish(m) ==
  /\ cur' = NoMessage
  /\ IF m.id \in responseMap
     THEN /\ responseMap' = responseMap \ {m.id}
          /\ outcome' = [outcome EXCEPT ![m.id] = "done"]
     ELSE UNCHANGED <<responseMap, outcome>>

Keep(m) == cur' = m /\ UNCHANGED <<responseMap, outcome>>
Taken == down' = [down EXCEPT ![conn] = Tail(@)]

\* process_message, a text frame or a binary frame
ReceiveText ==
  /\ ws = "open" /\ down[conn] # <<>> /\ Head(down[conn]).type = "text"
  /\ cur.left = 0
  /\ LET f == Head(down[conn])
         m == [id |-> f.id, left |-> f.count, stale |-> FALSE]
     IN IF f.count = 0 THEN Finish(m) ELSE Keep(m)
  /\ Taken
  /\ UNCHANGED <<conn, ws, idcnt, tosend, up, alive, server>>

ReceiveBinary ==
  /\ ws = "open" /\ down[conn] # <<>> /\ Head(down[conn]).type = "binary"
  /\ cur.left > 0
  /\ LET m == [cur EXCEPT !.left = @ - 1]
     IN IF m.left = 0 THEN Finish(m) ELSE Keep(m)
  /\ Taken
  /\ UNCHANGED <<conn, ws, idcnt, tosend, up, alive, server>>

\* a text frame where an attachment was due, or the reverse: close()
ReceiveOutOfPlace ==
  /\ ws = "open" /\ down[conn] # <<>>
  /\ (Head(down[conn]).type = "text") = (cur.left > 0)
  /\ ws' = "closing"
  /\ Taken
  /\ alive' = [alive EXCEPT ![conn] = FALSE]
  /\ UNCHANGED <<conn, idcnt, tosend, responseMap, cur, outcome, up, server>>
-----------------------------------------------------------------------------
(***************************************************************************)
(* The server: run_service and process_request read a request with its     *)
(* attachments, run its handler and send the answer, frame by frame, under *)
(* the session's mutex; publish sends notifications between two messages.  *)
(***************************************************************************)
ReadRequest(c) ==
  /\ sess[c].st = "read" /\ up[c] # <<>>
  /\ LET f == Head(up[c])
     IN sess' = [sess EXCEPT ![c] = [@ EXCEPT !.st = "collect", !.id = f.id,
                                              !.left = f.count]]
  /\ up' = [up EXCEPT ![c] = Tail(@)]
  /\ UNCHANGED <<client, serverUp, executed, down, alive>>

ReadAttachment(c) ==
  /\ sess[c].st = "collect" /\ sess[c].left > 0 /\ up[c] # <<>>
  /\ sess' = [sess EXCEPT ![c].left = @ - 1]
  /\ up' = [up EXCEPT ![c] = Tail(@)]
  /\ UNCHANGED <<client, serverUp, executed, down, alive>>

Execute(c, n) ==
  /\ sess[c].st = "collect" /\ sess[c].left = 0
  /\ executed' = Append(executed, sess[c].id)
  /\ sess' = [sess EXCEPT ![c] = [@ EXCEPT !.st = "reply", !.out = Message(sess[c].id, n)]]
  /\ UNCHANGED <<client, serverUp, up, down, alive>>

\* send_response: a failed write drops the rest of the message
SendFrame(c) ==
  /\ sess[c].st = "reply"
  /\ down' = IF alive[c] THEN [down EXCEPT ![c] = Append(@, Head(sess[c].out))] ELSE down
  /\ sess' = [sess EXCEPT ![c] = IF Len(@.out) > 1 /\ alive[c]
                                 THEN [@ EXCEPT !.out = Tail(sess[c].out)] ELSE Reading]
  /\ UNCHANGED <<client, serverUp, executed, up, alive>>

\* broken variant: the mutex is released after each frame
MidMessage_Unlocked(c) == FALSE
\* whether the session's mutex is held between the frames of an answer
MidMessage(c) == sess[c].st = "reply" /\ Head(sess[c].out).type = "binary"
\* WsPublisher::publish
Notify(c) ==
  /\ sess[c].st # "none" /\ alive[c] /\ ~MidMessage(c)
  /\ Len(down[c]) < MaxBuffer
  /\ down' = [down EXCEPT ![c] = Append(@, Text(0, 0))]
  /\ UNCHANGED <<client, server, up, alive>>

\* read_message sees the end of the connection
EndSession(c) ==
  /\ sess[c].st \in {"read", "collect"} /\ ~alive[c] /\ up[c] = <<>>
  /\ sess[c].st = "collect" => sess[c].left > 0
  /\ sess' = [sess EXCEPT ![c] = NoSession]
  /\ UNCHANGED <<client, serverUp, executed, up, down, alive>>
-----------------------------------------------------------------------------
(***************************************************************************)
(* Faults.                                                                 *)
(***************************************************************************)
\* the connection breaks: each side still gets a part of what was sent
Break ==
  /\ alive[conn]
  /\ alive' = [alive EXCEPT ![conn] = FALSE]
  /\ \E i \in 0..Len(up[conn]), j \in 0..Len(down[conn]) :
       /\ up' = [up EXCEPT ![conn] = SubSeq(@, 1, i)]
       /\ down' = [down EXCEPT ![conn] = SubSeq(@, 1, j)]
  /\ UNCHANGED <<client, server>>

\* the server is killed with all its sessions, and started again on its port
ServerDies ==
  /\ serverUp
  /\ serverUp' = FALSE
  /\ alive' = [c \in Conn |-> FALSE] /\ up' = [c \in Conn |-> <<>>]
  /\ sess' = [c \in Conn |-> NoSession]
  /\ UNCHANGED <<client, executed, down>>

ServerStarts == ~serverUp /\ serverUp' = TRUE /\ UNCHANGED <<client, sess, executed, up, down, alive>>

ClientStep == Connected \/ OnClose \/ Reconnect \/ ReceiveText \/ ReceiveBinary
              \/ ReceiveOutOfPlace
ServerStep(c) == \/ ReadRequest(c) \/ ReadAttachment(c)
                 \/ \E n \in ReplyAtt : Execute(c, n)
                 \/ SendFrame(c) \/ EndSession(c)

Next == \/ \E n \in CallAtt : CallServer(n)
        \/ ClientStep
        \/ \E c \in Conn : ServerStep(c) \/ Notify(c)
        \/ Break \/ ServerDies \/ ServerStarts

Spec == Init /\ [][Next]_vars

\* the browser's event loop and the session threads keep running
FairSpec == /\ Spec /\ WF_vars(ClientStep)
            /\ \A c \in Conn : WF_vars(ServerStep(c))
-----------------------------------------------------------------------------
(***************************************************************************)
(* What the callers of WsRpcClient rely on.                                *)
(***************************************************************************)
(***************************************************************************)
(* InPlace: on one connection the client never meets a text frame where an *)
(* attachment is due, or the reverse; only a message left over from a      *)
(* closed connection makes it close the new one (onclose does not forget   *)
(* it).  Notifications come from other threads, so this rests on the       *)
(* session's mutex.                                                        *)
(***************************************************************************)
InPlace ==
  ws = "open" /\ down[conn] # <<>> =>
    ((Head(down[conn]).type = "text") = (cur.left > 0) => cur.stale)

(***************************************************************************)
(* InOrder: the server runs no call twice, whatever is queued, broken off  *)
(* and sent again, and runs calls in the order the editor made them,       *)
(* unless the earlier of the two was reported as rejected: its session may *)
(* outlive the connection and run it beside the next session.              *)
(***************************************************************************)
InOrder ==
  \A i, j \in DOMAIN executed : i < j =>
    /\ executed[i] # executed[j]
    /\ executed[i] > executed[j] => outcome[executed[j]] = "rejected"

(***************************************************************************)
(* EveryCallEnds: a call is answered or rejected in the end, also when the *)
(* server never comes back and when the link breaks again and again.       *)
(***************************************************************************)
EveryCallEnds == \A c \in Call : c \in responseMap ~> c \notin responseMap
-----------------------------------------------------------------------------
(***************************************************************************)
(* The inductive invariant behind the theorems of RpcLink_proofs.          *)
(***************************************************************************)
Done == {executed[i] : i \in DOMAIN executed}

TypeOK ==
  /\ conn \in Conn /\ ws \in {"closed", "connecting", "open", "closing"}
  /\ idcnt \in 0..MaxCalls /\ tosend \in Seq(Frame)
  /\ cur \in [id : Call \cup {0}, left : Nat, stale : BOOLEAN]
  /\ outcome \in [Call -> {"none", "done", "rejected"}]
  /\ responseMap = {x \in 1..idcnt : outcome[x] = "none"}
  /\ up \in [Conn -> Seq(Frame)] /\ down \in [Conn -> Seq(Frame)]
  /\ alive \in [Conn -> BOOLEAN] /\ sess \in [Conn -> Session]
  /\ serverUp \in BOOLEAN /\ executed \in Seq(Call)

\* Only the connection in use is alive, and a session that is over has read
\* all it was sent.
Links ==
  /\ ws = "open" => tosend = <<>>
  /\ ws = "connecting" => sess[conn].st = "none"
  /\ \A c \in Conn : alive[c] => c = conn /\ ws = "open" /\ sess[c].st # "none"
  /\ \A c \in Conn : sess[c].st = "none" => up[c] = <<>>

\* A frame fits where k attachments are due; a flow is frames that fit, and
\* leaves some attachments due.
Fits(f, k) == IF k = 0 THEN f.type = "text" ELSE f.type = "binary" /\ f.count = k - 1
Flows(k, s) == \A i \in 1..Len(s) : Fits(s[i], IF i = 1 THEN k ELSE s[i - 1].count)
Leaves(k, s) == IF s = <<>> THEN k ELSE s[Len(s)].count

\* Attachments the session waits for, and those it has yet to send, and those
\* the client waits for.
Due(c) == IF sess[c].st = "collect" THEN sess[c].left ELSE 0
Owes(c) == IF MidMessage(c) THEN Head(sess[c].out).count + 1 ELSE 0
Expected == IF cur.stale THEN 0 ELSE cur.left

Requests ==
  /\ Flows(0, tosend) /\ Leaves(0, tosend) = 0
  /\ \A c \in Conn : Flows(Due(c), up[c]) /\ (alive[c] => Leaves(Due(c), up[c]) = 0)
Answers ==
  /\ \A c \in Conn : sess[c].st = "reply" =>
       sess[c].out # <<>> /\ Flows(Owes(c), sess[c].out) /\ Leaves(Owes(c), sess[c].out) = 0
  /\ ws = "open" => Flows(Expected, down[conn]) /\ (alive[conn] => Leaves(Expected, down[conn]) = Owes(conn))
  /\ cur.stale => cur.left > 0
  /\ ws \in {"closed", "connecting"} /\ cur.left > 0 => cur.stale

\* The calls of some frames, and those a session has yet to run.
Asks(s) == {s[i].id : i \in {j \in 1..Len(s) : s[j].type = "text"}}
Waiting(c) == (IF sess[c].st = "collect" THEN {sess[c].id} ELSE {}) \cup Asks(up[c])
Rising(s) == \A i, j \in 1..Len(s) :
  i < j /\ s[i].type = "text" /\ s[j].type = "text" => s[i].id < s[j].id
Below(A, B) == \A a \in A, b \in B : a < b

\* Calls wait in the order they were made: on the connection before, on this
\* one, in the queue; and those run already are before the latter two.
InLine ==
  /\ Rising(tosend) /\ Asks(tosend) \subseteq 1..idcnt
  /\ \A c \in Conn : /\ Rising(up[c]) /\ Waiting(c) \subseteq 1..idcnt
                     /\ sess[c].st = "collect" => Below({sess[c].id}, Asks(up[c]))
                     /\ Below(Waiting(c), Asks(tosend))
                     /\ Waiting(c) \cap Done = {}
  /\ Below(Waiting(1 - conn), Waiting(conn))
  /\ Below(Done, Waiting(conn)) /\ Below(Done, Asks(tosend))

\* What ended: only a call that was run is answered, and a call that waits on
\* a connection given up was rejected.
Ended ==
  /\ Done \subseteq 1..idcnt /\ cur.id \in Done \cup {0}
  /\ \A c \in Conn : \A i \in 1..Len(down[c]) : down[c][i].id \in Done \cup {0}
  /\ \A c \in Conn : \A i \in 1..Len(sess[c].out) : sess[c].out[i].id \in Done \cup {0}
  /\ \A x \in Call : /\ outcome[x] = "done" => x \in Done
                     /\ x > idcnt => outcome[x] = "none"
  /\ \A x \in Waiting(1 - conn) : outcome[x] = "rejected"
  /\ ws = "closed" => \A x \in Waiting(conn) : outcome[x] = "rejected"

IInv == TypeOK /\ Links /\ Requests /\ Answers /\ InLine /\ Ended /\ InOrder
=============================================================================
