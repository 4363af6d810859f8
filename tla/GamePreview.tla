---------------------------- MODULE GamePreview ----------------------------
(***************************************************************************)
(* The game that the server runs for a preview: preview.start,             *)
(* preview.stop and config.put of interface.cpp, the control of            *)
(* skeldal_exe.cpp and the process handle of utils/process.hpp.            *)
(*                                                                         *)
(* A tab's connection serves one call at a time.  preview.start and        *)
(* config.put hold the server's mutex from end to end, waits included;     *)
(* preview.stop does not take it.  One action per access to the handle     *)
(* (Process::_handle), a plain integer that the calls share.  A game is a  *)
(* child process and its number is its pid; pids are not reused.           *)
(***************************************************************************)
EXTENDS Naturals, FiniteSets

CONSTANTS Tab, NoTab,
          Stopper,   \* the tabs where the stop button is pressed
          Configurer,\* the tabs where the game client's dialog is confirmed
          MaxGames   \* bound: games started in all

ASSUME GamesAssumption == /\ Stopper \subseteq Tab /\ Configurer \subseteq Tab
                          /\ MaxGames \in Nat /\ NoTab \notin Tab

Game == 1..MaxGames
NoGame == 0            \* null_handle

VARIABLES
  configured,  \* _game_control is set
  project,     \* the current project's archive exists
  mx,          \* the tab whose call holds WebInterface::_mx
  handle,      \* _instance._proc._handle
  game,        \* per pid: unborn, running, dying (SIGTERM sent), zombie, reaped
  op,          \* the call a tab's connection serves
  at,          \* where that call is
  mine,        \* the local copy of the handle it works with
  raced        \* history: a stop was served together with a start or config.put;
               \* nothing keeps them apart, and then a game may be forgotten
vars == <<configured, project, mx, handle, game, op, at, mine, raced>>

Init ==
  /\ configured \in BOOLEAN  \* load_config
  /\ project \in BOOLEAN /\ mx = NoTab /\ handle = NoGame
  /\ game = [g \in Game |-> "unborn"]
  /\ op = [t \in Tab |-> "none"] /\ at = [t \in Tab |-> "idle"]
  /\ mine = [t \in Tab |-> NoGame] /\ raced = FALSE

Goto(t, l) == at' = [at EXCEPT ![t] = l]
Keep(t, g) == mine' = [mine EXCEPT ![t] = g]

\* The call ends: an answer, or an exception that the link turns into one.
Return(t) ==
  /\ Goto(t, "idle") /\ Keep(t, NoGame) /\ op' = [op EXCEPT ![t] = "none"]
  /\ mx' = IF mx = t THEN NoTab ELSE mx

\* close_handle once waitpid has something to say: the zombie is reaped, and a
\* child that another call has reaped is an error that ends the wait as well.
Gone(g) == game[g] \in {"zombie", "reaped"}
Reap(g) == game' = [game EXCEPT ![g] = "reaped"]

-----------------------------------------------------------------------------
\* The calls arrive.  preview.stop is refused while nothing is configured, and
\* otherwise broadcasts STOP; a game may heed it (GameEnds) or not.

CallLocked(t, o) ==
  /\ at[t] = "idle" /\ Goto(t, "lock") /\ op' = [op EXCEPT ![t] = o]
  /\ UNCHANGED <<configured, project, raced, mx, handle, game, mine>>

CallStop(t) ==
  /\ at[t] = "idle" /\ t \in Stopper /\ configured
  /\ Goto(t, "joinable") /\ op' = [op EXCEPT ![t] = "stop"]
  /\ raced' = (raced \/ mx # NoTab)
  /\ UNCHANGED <<configured, project, mx, handle, game, mine>>

\* lock_guard, then the refusals: not configured (404), project empty (409)
Refused(t) == op[t] = "start" /\ ~(configured /\ project)
LockRefused(t) ==
  /\ at[t] = "lock" /\ mx = NoTab /\ Refused(t) /\ Return(t)
  /\ UNCHANGED <<configured, project, raced, handle, game>>
Lock(t) ==
  /\ at[t] = "lock" /\ mx = NoTab /\ ~Refused(t)
  /\ mx' = t /\ Goto(t, "joinable")
  /\ raced' = (raced \/ \E s \in Tab : op[s] = "stop")
  /\ UNCHANGED <<configured, project, handle, game, op, mine>>

-----------------------------------------------------------------------------
\* wait_stop: what each call does once it thinks the old game is gone.

AfterStop(t) ==
  IF op[t] = "stop" THEN Return(t)
  ELSE /\ Goto(t, IF op[t] = "start" THEN "fork" ELSE "install")
       /\ Keep(t, NoGame) /\ UNCHANGED <<mx, op>>

\* slip: start does not wait for the old game
Joinable_Skips(t) ==
  /\ at[t] = "joinable" /\ AfterStop(t)
  /\ UNCHANGED <<configured, project, raced, handle, game>>
Joinable(t) ==
  /\ at[t] = "joinable"
  /\ IF handle = NoGame THEN AfterStop(t)
     ELSE Goto(t, "joinFor") /\ UNCHANGED <<mx, op, mine>>
  /\ UNCHANGED <<configured, project, raced, handle, game>>

\* join and terminate throw when the handle is null by now.
NotJoinable(t) ==
  /\ at[t] \in {"joinFor", "terminate", "join"} /\ handle = NoGame
  /\ Return(t) /\ UNCHANGED <<configured, project, raced, handle, game>>

JoinFor(t) ==
  /\ at[t] = "joinFor" /\ handle # NoGame
  /\ Keep(t, handle) /\ Goto(t, "poll")
  /\ UNCHANGED <<configured, project, raced, mx, handle, game, op>>
Polled(t) ==
  /\ at[t] = "poll" /\ Gone(mine[t])
  /\ Reap(mine[t]) /\ Goto(t, "clear")
  /\ UNCHANGED <<configured, project, raced, mx, handle, op, mine>>
TimedOut(t) ==
  /\ at[t] = "poll" /\ ~Gone(mine[t])
  /\ Goto(t, "terminate") /\ Keep(t, NoGame)
  /\ UNCHANGED <<configured, project, raced, mx, handle, game, op>>
\* join(dur) sets the handle null after the wait, whatever it is by then.
Clear(t) ==
  /\ at[t] = "clear" /\ handle' = NoGame /\ AfterStop(t)
  /\ UNCHANGED <<configured, project, raced, game>>

\* slip: the game is joined without the signal
Terminate_Silent(t) ==
  /\ at[t] = "terminate" /\ handle # NoGame /\ Goto(t, "join")
  /\ UNCHANGED <<configured, project, raced, mx, handle, game, op, mine>>
Terminate(t) ==
  /\ at[t] = "terminate" /\ handle # NoGame
  /\ game' = [game EXCEPT ![handle] = IF @ = "running" THEN "dying" ELSE @]
  /\ Goto(t, "join")
  /\ UNCHANGED <<configured, project, raced, mx, handle, op, mine>>
Join(t) ==
  /\ at[t] = "join" /\ handle # NoGame
  /\ Keep(t, handle) /\ Goto(t, "release")
  /\ UNCHANGED <<configured, project, raced, mx, handle, game, op>>
JoinRelease(t) ==
  /\ at[t] = "release" /\ handle' = NoGame /\ Goto(t, "wait")
  /\ UNCHANGED <<configured, project, raced, mx, game, op, mine>>
JoinWait(t) ==
  /\ at[t] = "wait" /\ Gone(mine[t])
  /\ Reap(mine[t]) /\ AfterStop(t)
  /\ UNCHANGED <<configured, project, raced, handle>>

-----------------------------------------------------------------------------
\* start_preview: the new process, and the move assignment of the handle, which
\* first waits for a process it still names.  config.put destroys the old
\* control the same way and the new one has a null handle.

Fork(t) ==
  /\ at[t] = "fork"
  /\ \E g \in Game :
       /\ game[g] = "unborn" /\ \A h \in 1..g - 1 : game[h] # "unborn"
       /\ game' = [game EXCEPT ![g] = "running"] /\ Keep(t, g)
  /\ Goto(t, "store")
  /\ UNCHANGED <<configured, project, raced, mx, handle, op>>
ForkFails(t) ==
  /\ at[t] = "fork" /\ Return(t)
  /\ UNCHANGED <<configured, project, raced, handle, game>>

\* close_handle(_handle): nothing to do for a null handle
CloseOld == IF handle = NoGame THEN game' = game ELSE Gone(handle) /\ Reap(handle)

Store(t) ==
  /\ at[t] = "store" /\ CloseOld /\ handle' = mine[t] /\ Return(t)
  /\ UNCHANGED <<configured, project, raced>>
Install(t) ==
  /\ at[t] = "install" /\ CloseOld /\ handle' = NoGame
  /\ configured' = TRUE /\ Return(t)
  /\ UNCHANGED <<project, raced>>

-----------------------------------------------------------------------------
\* Around the server: the first file is stored in the project; a game ends, on
\* STOP, by the player or by itself, and surely once it got SIGTERM.

FirstFile ==
  /\ ~project /\ project' = TRUE
  /\ UNCHANGED <<configured, raced, mx, handle, game, op, at, mine>>
GameEnds(g) ==
  /\ game[g] \in {"running", "dying"} /\ game' = [game EXCEPT ![g] = "zombie"]
  /\ UNCHANGED <<configured, project, raced, mx, handle, op, at, mine>>

Call(t) == \/ CallStop(t) \/ CallLocked(t, "start")
           \/ t \in Configurer /\ CallLocked(t, "config")
Serve(t) ==
  \/ LockRefused(t) \/ Lock(t) \/ Joinable(t) \/ NotJoinable(t) \/ JoinFor(t)
  \/ Polled(t) \/ TimedOut(t) \/ Clear(t) \/ Terminate(t) \/ Join(t)
  \/ JoinRelease(t) \/ JoinWait(t) \/ Fork(t) \/ ForkFails(t) \/ Store(t)
  \/ Install(t)

Next == \/ \E t \in Tab : Call(t) \/ Serve(t)
        \/ FirstFile \/ \E g \in Game : GameEnds(g)
Spec == Init /\ [][Next]_vars

\* A thread that can run goes on, and SIGTERM ends the game (skeldal installs
\* no handler that survives it).  Nothing makes a player quit.
Fairness == /\ \A t \in Tab : WF_vars(Serve(t))
            /\ \A g \in Game : WF_vars(game[g] = "dying" /\ GameEnds(g))
FairSpec == Spec /\ Fairness
-----------------------------------------------------------------------------
\* What the preview promises.

Alive(g) == game[g] \in {"running", "dying"}

\* A running game can be joined (process.hpp:143: the destructor "always joins
\* the process, if it is still running"): the handle names it, or a call is
\* about to store it or waits for its end.  A game nobody names is never
\* stopped or reaped, and the server's exit leaves it running.
Kept(g) ==
  \/ handle = g
  \/ \E t \in Tab : mine[t] = g /\ at[t] \in {"store", "release", "wait"}

\* SkeldalExeControl::start stops the old game first: two games never run at
\* once (both would listen to the same commands), and the one that runs can be
\* joined, unless a stop has raced a start.
OneGame == ~raced => /\ Cardinality({g \in Game : Alive(g)}) <= 1
                     /\ \A g \in Game : Alive(g) => Kept(g)

\* The same without the excuse for races (process.hpp:143).
NeverForgotten == \A g \in Game : Alive(g) => Kept(g)

\* However stops interfere, the new handle is moved over a null one: a start
\* (or config.put) never waits inside the move assignment, mutex in hand, for
\* a game that was not told to end.
AssignsToNull ==
  \A t \in Tab : at[t] \in {"fork", "store", "install"} => handle = NoGame

\* The server's lock is always given back: no start or config.put waits for
\* ever for the old game, whatever stops do meanwhile.  A stop ends too, two
\* seconds and a SIGTERM later, unless it raced a start and joins the new game,
\* which nobody told to end.  (Nothing orders the calls that wait for the lock.)
EveryCallEnds ==
  \A t \in Tab : /\ mx = t ~> mx # t
                /\ op[t] = "stop" /\ ~raced ~> op[t] # "stop" \/ raced
=============================================================================
