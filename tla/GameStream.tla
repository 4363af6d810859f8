---------------------------- MODULE GameStream ----------------------------
(***************************************************************************)
(* The commands that the server sends to the games that run: control,      *)
(* command, broadcast and the timer of interface.cpp.  A command is a line *)
(* and a blank line, each broadcast by itself; so is the timer's ping, a   *)
(* comment, and its end.  preview.teleport and the like hold the server's  *)
(* mutex while they send; preview.stop and the timer do not.  A broadcast  *)
(* holds _stream_mx, so it is one action.                                  *)
(*                                                                         *)
(* The game that reads the stream is not in the repository: Reads is what  *)
(* the stream's type (text/event-stream) says of it.                       *)
(***************************************************************************)
EXTENDS Naturals, Sequences

CONSTANTS Caller,       \* sessions that send commands under the mutex
          Game, NoOne,
          MaxCommands   \* bound: commands in all

ASSUME StreamAssumption ==
  /\ Caller \cap {"preview.stop", "timer", NoOne} = {} /\ MaxCommands \in Nat

VARIABLES streams,   \* the games connected
          dead,      \* those that have ended, which a write will tell
          game,      \* what each has made of what it was sent
          mx,        \* the session that holds WebInterface::_mx
          sends,     \* per sender: the command between its two broadcasts
          commands,  \* history: the commands, in the order of their lines,
          joined,    \* those each game came after,
          pinged,    \* and those with a line in the middle of a ping
          begun
stream_vars == <<streams, dead, game, mx, sends, commands, joined, pinged, begun>>

Stopper == "preview.stop"
Timer == "timer"
Sender == Caller \union {Stopper, Timer}
NotSending == [at |-> "idle", command |-> <<FALSE, 0>>]

\* The game reads: a line that begins with a colon is a comment to its end; the others
\* are data, and an empty line makes one event of those that came since the last event.
\* Of an event there are the numbers of its lines.
NewGame == [comment |-> FALSE, lines |-> <<>>, ended |-> 0, events |-> {}]
EndOfLine(r) ==
  IF r.comment THEN [r EXCEPT !.comment = FALSE]
  ELSE IF r.ended = Len(r.lines) THEN r
  ELSE [r EXCEPT !.ended = Len(r.lines), !.events = @ \union {r.ended + 1..Len(r.lines)}]
Reads(r, piece) ==
  CASE piece.is = "comment" -> [r EXCEPT !.comment = TRUE]
    [] piece.is = "blank"   -> EndOfLine(r)
    [] piece.is = "blanks"  -> EndOfLine(EndOfLine(r))
    [] piece.is = "data"    -> IF r.comment THEN EndOfLine(r) ELSE [r EXCEPT !.lines = Append(@, piece.command)]

StreamInit ==
  /\ streams = {} /\ dead = {} /\ game = [g \in Game |-> NewGame] /\ mx = NoOne
  /\ sends = [s \in Sender |-> NotSending] /\ commands = <<>> /\ joined = [g \in Game |-> 0]
  /\ pinged = {} /\ begun = 0

\* broadcast: a stream that cannot be written to is dropped.
Broadcast(piece) ==
  /\ streams' = streams \ dead
  /\ game' = [g \in Game |-> IF g \in streams \ dead THEN Reads(game[g], piece) ELSE NewGame]
  /\ joined' = [g \in Game |-> IF g \in dead THEN 0 ELSE joined[g]] /\ UNCHANGED dead

\* slip: the mutex is not taken
Send_Unlocked(s) ==
  /\ sends[s].at = "idle" /\ begun < MaxCommands /\ begun' = begun + 1
  /\ sends' = [sends EXCEPT ![s] = [at |-> "line", command |-> <<s = Stopper, begun + 1>>]]
  /\ UNCHANGED <<mx, streams, dead, game, commands, joined, pinged>>
\* A method of the preview that sends a command begins.  A command is whether
\* preview.stop sends it, and a number.
Send(s) ==
  /\ sends[s].at = "idle" /\ begun < MaxCommands /\ begun' = begun + 1
  /\ IF s = Stopper THEN UNCHANGED mx ELSE mx = NoOne /\ mx' = s
  /\ sends' = [sends EXCEPT ![s] = [at |-> "line", command |-> <<s = Stopper, begun + 1>>]]
  /\ UNCHANGED <<streams, dead, game, commands, joined, pinged>>
Pinged(s) == pinged' = IF sends[Timer].at = "ping" THEN pinged \union {sends[s].command} ELSE pinged
\* control: the line, then the blank one
SendLine(s) ==
  /\ sends[s].at = "line" /\ Broadcast([is |-> "data", command |-> sends[s].command])
  /\ commands' = Append(commands, sends[s].command)
  /\ Pinged(s) /\ sends' = [sends EXCEPT ![s].at = "end"] /\ UNCHANGED <<mx, begun>>
SendBlank(s) ==
  /\ sends[s].at = "end" /\ Broadcast([is |-> "blank"]) /\ Pinged(s)
  /\ sends' = [sends EXCEPT ![s] = NotSending] /\ mx' = IF mx = s THEN NoOne ELSE mx
  /\ UNCHANGED <<commands, begun>>

\* on_timer_tick: ":ping" without an end of line, then two of them
Ping ==
  /\ sends[Timer].at = "idle"
  /\ Broadcast([is |-> "comment"]) /\ sends' = [sends EXCEPT ![Timer].at = "ping"]
  /\ UNCHANGED <<mx, commands, pinged, begun>>
PingEnd ==
  /\ sends[Timer].at = "ping" /\ Broadcast([is |-> "blanks"]) /\ sends' = [sends EXCEPT ![Timer] = NotSending]
  /\ UNCHANGED <<mx, commands, pinged, begun>>

\* command: a game connects; and ends.
Command(g) ==
  /\ g \notin streams /\ g \notin dead /\ streams' = streams \union {g}
  /\ joined' = [joined EXCEPT ![g] = Len(commands)]
  /\ UNCHANGED <<dead, game, mx, sends, commands, pinged, begun>>
GameEnds(g) ==
  /\ g \in streams \ dead /\ dead' = dead \union {g}
  /\ UNCHANGED <<streams, game, mx, sends, commands, joined, pinged, begun>>

StreamNext ==
  \/ \E s \in Caller \union {Stopper} : Send(s) \/ SendLine(s) \/ SendBlank(s)
  \/ Ping \/ PingEnd
  \/ \E g \in Game : Command(g) \/ GameEnds(g)
StreamSpec == StreamInit /\ [][StreamNext]_stream_vars

-----------------------------------------------------------------------------
\* When nothing is being sent, every game has got every command sent since it
\* came, once, in order, each as an event of its own: however sessions, the
\* timer and preview.stop mixed their broadcasts and whoever else went away.
\* Except that a ping may swallow the line or the blank line that comes in its
\* middle, and preview.stop may make one event of its own and another command.
NothingLost(g) ==
  \A p \in joined[g] + 1..Len(commands) :
    commands[p] \in pinged \/ \E i \in 1..game[g].ended : game[g].lines[i] = commands[p]
\* the line i of a game is the command p
IsSent(g, i, p) == p \in joined[g] + 1..Len(commands) /\ game[g].lines[i] = commands[p]
InTheirOrder(g) ==
  \A i \in DOMAIN game[g].lines :
    /\ \E p \in DOMAIN commands : IsSent(g, i, p)
    /\ \A j \in 1..i - 1 : \A p, q \in DOMAIN commands : IsSent(g, j, p) /\ IsSent(g, i, q) => p < q
Excused(c) == c[1] \/ c \in pinged
EachByItself(g) ==
  \A e \in game[g].events : \A i, j \in e :
    i # j => \E k \in e : Excused(game[g].lines[k])
CommandsWhole ==
  (\A s \in Sender : sends[s].at = "idle") =>
     \A g \in streams \ dead : NothingLost(g) /\ InTheirOrder(g) /\ EachByItself(g)
=============================================================================
