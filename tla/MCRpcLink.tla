------------------------------ MODULE MCRpcLink ------------------------------
(***************************************************************************)
(* A tab's calls over its connections, and the frames that one connection  *)
(* reads, each in behaviours of its own.                                   *)
(***************************************************************************)
EXTENDS RpcLink

CONSTANTS Payload, Types, Masks, Chunk

VARIABLES task,  \* "calls" or "frames"
          wire, buff, parser, ping, ended, pongs, sent, got, open, mixed, frames

Frames == INSTANCE WebSocketFrames
frame_vars == <<wire, buff, parser, ping, ended, pongs, sent, got, open, mixed, frames>>

\* payloads on both sides of the limit of short lengths
Long(n) == [i \in 1..n |-> i % 4]
Payloads == <<{<<7, 255>>}, {<<>>, Long(126)}, {<<7>>}>>
Keys == {<<>>, <<1, 0, 3, 2>>}

ASSUME FramesAssumption == Frames!FramesFit

LinkInit == Init /\ Frames!Init /\ task \in {"calls", "frames"}
LinkNext ==
  \/ task = "calls" /\ Next /\ UNCHANGED <<task, frame_vars>>
  \/ task = "frames" /\ Frames!Next /\ UNCHANGED <<task, vars>>
\* the fairness of RpcLink, for the behaviours that make calls
LinkSpec == /\ LinkInit /\ [][LinkNext]_<<task, vars, frame_vars>>
            /\ WF_vars(task = "calls" /\ ClientStep)
            /\ \A c \in Conn : WF_vars(task = "calls" /\ ServerStep(c))

\* See WebSocketFrames.  Messages arrive as they were sent, however they were cut.
AsSent == Frames!AsSent
=============================================================================
