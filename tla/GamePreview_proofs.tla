------------------------- MODULE GamePreview_proofs -------------------------
(* Proofs about the preview, for any tabs, any of them pressing stop. *)
EXTENDS GamePreview, FiniteSetTheorems, TLAPS

Label == {"idle", "lock", "joinable", "joinFor", "poll", "clear", "terminate",
          "join", "release", "wait", "fork", "store", "install"}
Typed == /\ at \in [Tab -> Label] /\ mine \in [Tab -> Nat]
         /\ op \in [Tab -> {"none", "stop", "start", "config"}]

\* What makes AssignsToNull inductive: only a start or a config.put gets to the
\* new process, and it holds the mutex from the lock to the answer, so no other
\* call can store a handle in between.
Renews(t) == at[t] \in {"fork", "store", "install"}
Holds(t) ==
  /\ at[t] = "idle" <=> op[t] = "none"
  /\ Renews(t) => op[t] \in {"start", "config"} /\ handle = NoGame
  /\ at[t] = "wait" /\ op[t] # "stop" => handle = NoGame
  /\ op[t] \in {"start", "config"} => at[t] = "lock" \/ mx = t
IInv == Typed /\ \A t \in Tab : Holds(t)

LEMMA InitIInv == Init => IInv
<1>1. Init => Typed
  BY DEF Init, Typed, Label, NoGame
<1>2. ASSUME Init, NEW t \in Tab PROVE Holds(t)
  BY <1>2 DEF Init, Holds, Renews
<1> QED
  BY <1>1, <1>2 DEF IInv

\* The values the variables take.
LEMMA TypedStep == Typed /\ handle \in Nat /\ [Next]_vars => Typed' /\ handle' \in Nat
<1> SUFFICES ASSUME Typed, handle \in Nat, [Next]_vars
             PROVE  Typed' /\ handle' \in Nat
  OBVIOUS
<1> USE DEF Typed, Label, Goto, Keep, Return, NoGame
<1>1. ASSUME NEW t \in Tab, Call(t) PROVE Typed' /\ handle' \in Nat
  BY <1>1 DEF Call, CallStop, CallLocked
<1>2. ASSUME NEW t \in Tab, Serve(t) PROVE Typed' /\ handle' \in Nat
  <2>1. CASE LockRefused(t)
    BY <2>1 DEF LockRefused
  <2>2. CASE Lock(t)
    BY <2>2 DEF Lock
  <2>3. CASE Joinable(t)
    BY <2>3 DEF Joinable, AfterStop
  <2>4. CASE NotJoinable(t)
    BY <2>4 DEF NotJoinable
  <2>5. CASE JoinFor(t)
    BY <2>5 DEF JoinFor
  <2>6. CASE Polled(t)
    BY <2>6 DEF Polled
  <2>7. CASE TimedOut(t)
    BY <2>7 DEF TimedOut
  <2>8. CASE Clear(t)
    BY <2>8 DEF Clear, AfterStop
  <2>9. CASE Terminate(t)
    BY <2>9 DEF Terminate
  <2>10. CASE Join(t)
    BY <2>10 DEF Join
  <2>11. CASE JoinRelease(t)
    BY <2>11 DEF JoinRelease
  <2>12. CASE JoinWait(t)
    BY <2>12 DEF JoinWait, AfterStop
  <2>13. CASE Fork(t)
    BY <2>13 DEF Fork, Game
  <2>14. CASE ForkFails(t)
    BY <2>14 DEF ForkFails
  <2>15. CASE Store(t)
    BY <2>15 DEF Store
  <2>16. CASE Install(t)
    BY <2>16 DEF Install
  <2> QED
    BY <1>2, <2>1, <2>2, <2>3, <2>4, <2>5, <2>6, <2>7, <2>8, <2>9, <2>10, <2>11, <2>12, <2>13, <2>14, <2>15, <2>16 DEF Serve
<1>3. CASE FirstFile \/ \E g \in Game : GameEnds(g)
  BY <1>3 DEF FirstFile, GameEnds
<1>4. CASE UNCHANGED vars
  BY <1>4 DEF vars
<1> QED
  BY <1>1, <1>2, <1>3, <1>4 DEF Next

\* A step of one call keeps what holds of every call s.  Another call at its
\* new process excludes that this one stores a handle: both would hold mx.
LEMMA HoldsStep == IInv /\ [Next]_vars => \A s \in Tab : Holds(s)'
<1> SUFFICES ASSUME IInv, [Next]_vars, NEW s \in Tab PROVE Holds(s)'
  OBVIOUS
<1> USE GamesAssumption DEF IInv, Holds, Renews, Typed, Label, Goto, Keep, Return, NoGame
<1>1. ASSUME NEW t \in Tab, Call(t) PROVE Holds(s)'
  BY <1>1 DEF Call, CallStop, CallLocked
<1>2. ASSUME NEW t \in Tab, Serve(t) PROVE Holds(s)'
  <2>1. CASE LockRefused(t)
    BY <2>1 DEF LockRefused
  <2>2. CASE Lock(t)
    BY <2>2 DEF Lock
  <2>3. CASE Joinable(t)
    BY <2>3 DEF Joinable, AfterStop
  <2>4. CASE NotJoinable(t)
    BY <2>4 DEF NotJoinable
  <2>5. CASE JoinFor(t)
    BY <2>5 DEF JoinFor
  <2>6. CASE Polled(t)
    BY <2>6 DEF Polled
  <2>7. CASE TimedOut(t)
    BY <2>7 DEF TimedOut
  <2>8. CASE Clear(t)
    BY <2>8 DEF Clear, AfterStop
  <2>9. CASE Terminate(t)
    BY <2>9 DEF Terminate
  <2>10. CASE Join(t)
    BY <2>10 DEF Join
  <2>11. CASE JoinRelease(t)
    BY <2>11 DEF JoinRelease
  <2>12. CASE JoinWait(t)
    BY <2>12 DEF JoinWait, AfterStop
  <2>13. CASE Fork(t)
    BY <2>13 DEF Fork, Game
  <2>14. CASE ForkFails(t)
    BY <2>14 DEF ForkFails
  <2>15. CASE Store(t)
    BY <2>15 DEF Store
  <2>16. CASE Install(t)
    BY <2>16 DEF Install
  <2> QED
    BY <1>2, <2>1, <2>2, <2>3, <2>4, <2>5, <2>6, <2>7, <2>8, <2>9, <2>10, <2>11, <2>12, <2>13, <2>14, <2>15, <2>16 DEF Serve
<1>3. CASE FirstFile \/ \E g \in Game : GameEnds(g)
  BY <1>3 DEF FirstFile, GameEnds
<1>4. CASE UNCHANGED vars
  BY <1>4 DEF vars
<1> QED
  BY <1>1, <1>2, <1>3, <1>4 DEF Next

\* preview.start and config.put never wait in the move assignment of the handle
\* (process.hpp:152), whatever stops do meanwhile.
THEOREM RenewsANullHandle == Spec => []AssignsToNull
<1>1. Init => IInv /\ handle \in Nat
  BY InitIInv DEF Init, NoGame
<1>2. IInv /\ handle \in Nat /\ [Next]_vars => (IInv /\ handle \in Nat)'
  BY TypedStep, HoldsStep DEF IInv
<1>3. IInv => AssignsToNull
  BY DEF IInv, Holds, Renews, AssignsToNull
<1> QED
  BY <1>1, <1>2, <1>3, PTL DEF Spec

-----------------------------------------------------------------------------
(***************************************************************************)
(* One game, as long as no stop races a start or a config.put.             *)
(***************************************************************************)
\* The handle, its copies and the states of the games.
GameTyped ==
  /\ handle \in Game \cup {NoGame}
  /\ game \in [Game -> {"unborn", "running", "dying", "zombie", "reaped"}]
  /\ \A t \in Tab :
       at[t] \in {"poll", "clear", "release", "wait", "store"} => mine[t] \in Game

\* While the mutex is held no stop is served; a call that works on a copy of the
\* handle works on the handle's game; and a call that gets to the new process
\* finds no other game alive.
Alone == mx # NoTab => \A s \in Tab : op[s] # "stop"
Follows(t) ==
  /\ at[t] \in {"poll", "clear", "release"} => handle \in {NoGame, mine[t]}
  /\ at[t] = "clear" => game[mine[t]] = "reaped"
  /\ at[t] = "wait" => handle = NoGame
  /\ at[t] \in {"fork", "install"} => \A g \in Game : ~Alive(g)
  /\ at[t] = "store" => \A g \in Game : Alive(g) => g = mine[t]
Named == \A g \in Game : Alive(g) => Kept(g)
Single == \A g, h \in Game : Alive(g) /\ Alive(h) => g = h
Calm == ~raced => Alone /\ (\A t \in Tab : Follows(t)) /\ Named /\ Single

GInv == IInv /\ GameTyped /\ Calm

LEMMA GameTypedStep ==
  ASSUME GInv, [Next]_vars
  PROVE  GameTyped'
<1> USE GamesAssumption DEF GInv, GameTyped, IInv, Typed, Label, Goto, Keep, Return, Reap
<1>1. ASSUME NEW t \in Tab, Call(t) PROVE GameTyped'
  BY <1>1 DEF Call, CallStop, CallLocked
<1>2. ASSUME NEW t \in Tab, Serve(t) PROVE GameTyped'
  <2>1. CASE LockRefused(t)
    BY <2>1 DEF LockRefused
  <2>2. CASE Lock(t)
    BY <2>2 DEF Lock
  <2>3. CASE Joinable(t)
    BY <2>3 DEF Joinable, AfterStop
  <2>4. CASE NotJoinable(t)
    BY <2>4 DEF NotJoinable
  <2>5. CASE JoinFor(t)
    BY <2>5 DEF JoinFor
  <2>6. CASE Polled(t)
    BY <2>6 DEF Polled, Reap, Gone
  <2>7. CASE TimedOut(t)
    BY <2>7 DEF TimedOut
  <2>8. CASE Clear(t)
    BY <2>8 DEF Clear, AfterStop
  <2>9. CASE Terminate(t)
    BY <2>9 DEF Terminate
  <2>10. CASE Join(t)
    BY <2>10 DEF Join
  <2>11. CASE JoinRelease(t)
    BY <2>11 DEF JoinRelease
  <2>12. CASE JoinWait(t)
    BY <2>12 DEF JoinWait, AfterStop, Reap, Gone
  <2>13. CASE Fork(t)
    BY <2>13 DEF Fork
  <2>14. CASE ForkFails(t)
    BY <2>14 DEF ForkFails
  <2>15. CASE Store(t)
    BY <2>15 DEF Store, CloseOld, Reap, Gone
  <2>16. CASE Install(t)
    BY <2>16 DEF Install, CloseOld, Reap, Gone
  <2> QED
    BY <1>2, <2>1, <2>2, <2>3, <2>4, <2>5, <2>6, <2>7, <2>8, <2>9, <2>10, <2>11, <2>12, <2>13, <2>14, <2>15, <2>16 DEF Serve
<1>3. CASE FirstFile \/ \E g \in Game : GameEnds(g)
  BY <1>3 DEF FirstFile, GameEnds
<1>4. CASE UNCHANGED vars
  BY <1>4 DEF vars
<1> QED
  BY <1>1, <1>2, <1>3, <1>4 DEF Next

LEMMA AloneStep ==
  ASSUME GInv, ~raced', [Next]_vars
  PROVE  Alone' /\ ~raced
<1> USE GamesAssumption DEF GInv, Calm, Alone, IInv, Holds, Renews, Typed, Label, Goto, Keep, Return
<1>1. ASSUME NEW t \in Tab, Call(t) PROVE Alone' /\ ~raced
  <2>1. CASE CallStop(t)
    BY <2>1 DEF CallStop
  <2>2. CASE CallLocked(t, "start") \/ CallLocked(t, "config")
    <3>1. UNCHANGED <<raced, mx>>  BY <2>2 DEF CallLocked
    <3>2. \A s \in Tab : op'[s] = "stop" => op[s] = "stop"  BY <2>2 DEF CallLocked
    <3> QED  BY <3>1, <3>2
  <2> QED
    BY <1>1, <2>1, <2>2 DEF Call
<1>2. ASSUME NEW t \in Tab, Serve(t) PROVE Alone' /\ ~raced
  <2>1. CASE LockRefused(t)
    BY <2>1 DEF LockRefused
  <2>2. CASE Lock(t)
    BY <2>2 DEF Lock
  <2>3. CASE Joinable(t)
    BY <2>3 DEF Joinable, AfterStop
  <2>4. CASE NotJoinable(t)
    BY <2>4 DEF NotJoinable
  <2>5. CASE JoinFor(t)
    BY <2>5 DEF JoinFor
  <2>6. CASE Polled(t)
    BY <2>6 DEF Polled, Reap, Gone
  <2>7. CASE TimedOut(t)
    BY <2>7 DEF TimedOut
  <2>8. CASE Clear(t)
    BY <2>8 DEF Clear, AfterStop
  <2>9. CASE Terminate(t)
    BY <2>9 DEF Terminate
  <2>10. CASE Join(t)
    BY <2>10 DEF Join
  <2>11. CASE JoinRelease(t)
    BY <2>11 DEF JoinRelease
  <2>12. CASE JoinWait(t)
    BY <2>12 DEF JoinWait, AfterStop, Reap, Gone
  <2>13. CASE Fork(t)
    BY <2>13 DEF Fork
  <2>14. CASE ForkFails(t)
    BY <2>14 DEF ForkFails
  <2>15. CASE Store(t)
    BY <2>15 DEF Store, CloseOld, Reap, Gone
  <2>16. CASE Install(t)
    BY <2>16 DEF Install, CloseOld, Reap, Gone
  <2> QED
    BY <1>2, <2>1, <2>2, <2>3, <2>4, <2>5, <2>6, <2>7, <2>8, <2>9, <2>10, <2>11, <2>12, <2>13, <2>14, <2>15, <2>16 DEF Serve
<1>3. CASE FirstFile \/ \E g \in Game : GameEnds(g)
  BY <1>3 DEF FirstFile, GameEnds
<1>4. CASE UNCHANGED vars
  BY <1>4 DEF vars
<1> QED
  BY <1>1, <1>2, <1>3, <1>4 DEF Next

\* A call that holds the mutex finds a game alive only under the handle or, when
\* it has taken the game over, under its own copy.
LEMMA HolderSees ==
  ASSUME GInv, ~raced, NEW t \in Tab, op[t] # "stop", at[t] \notin {"idle", "lock"},
         NEW g \in Game, Alive(g)
  PROVE  \/ handle = g
         \/ mine[t] = g /\ at[t] \in {"store", "release", "wait"}
<1>1. mx = t
  BY DEF GInv, IInv, Typed, Holds
<1>2. ASSUME NEW s \in Tab, at[s] \in {"store", "release", "wait"} PROVE s = t
  <2>1. op[s] # "none"
    BY <1>2 DEF GInv, IInv, Holds
  <2>2. op[s] # "stop"
    BY <1>1, GamesAssumption DEF GInv, Calm, Alone
  <2> QED
    BY <1>1, <1>2, <2>1, <2>2 DEF GInv, IInv, Typed, Holds
<1> QED
  BY <1>2 DEF GInv, Calm, Named, Kept

\* So it finds none when it thinks the old game is gone.
OldGone(t) == \/ at[t] = "joinable" /\ handle = NoGame
              \/ at[t] = "clear"
              \/ at[t] = "wait" /\ Gone(mine[t])
LEMMA NothingRuns ==
  ASSUME GInv, ~raced, NEW t \in Tab, op[t] # "stop", OldGone(t)
  PROVE  \A g \in Game : ~Alive(g)
<1> SUFFICES ASSUME NEW g \in Game, Alive(g) PROVE FALSE
  OBVIOUS
<1>1. at[t] \in {"joinable", "clear", "wait"}
  BY DEF OldGone
<1>2. handle = g \/ (mine[t] = g /\ at[t] = "wait")
  BY <1>1, HolderSees
<1>3. g # NoGame
  BY DEF Game, NoGame
<1>4. Follows(t)
  BY DEF GInv, Calm
<1> QED
  BY <1>2, <1>3, <1>4 DEF OldGone, Follows, Alive, Gone

LEMMA FollowsStep ==
  ASSUME GInv, ~raced, [Next]_vars, NEW s \in Tab
  PROVE  Follows(s)'
<1>0. \A t \in Tab : op[t] # "stop" /\ OldGone(t) => \A g \in Game : ~Alive(g)
  BY NothingRuns
<1> USE GamesAssumption DEF GInv, GameTyped, Calm, Alone, Follows, Named, Alive, Kept, IInv, Holds, Renews, Typed, Label, Goto, Keep, Return, Reap, Gone, NoGame
<1>1. ASSUME NEW t \in Tab, Call(t) PROVE Follows(s)'
  BY <1>1 DEF Call, CallStop, CallLocked
<1>2. ASSUME NEW t \in Tab, Serve(t) PROVE Follows(s)'
  <2>1. CASE LockRefused(t)
    BY <2>1 DEF LockRefused
  <2>2. CASE Lock(t)
    BY <2>2 DEF Lock
  <2>3. CASE Joinable(t)
    BY <1>0, <2>3 DEF Joinable, AfterStop, OldGone
  <2>4. CASE NotJoinable(t)
    BY <2>4 DEF NotJoinable
  <2>5. CASE JoinFor(t)
    BY <2>5 DEF JoinFor
  <2>6. CASE Polled(t)
    BY <2>6 DEF Polled, Reap, Gone
  <2>7. CASE TimedOut(t)
    BY <2>7 DEF TimedOut
  <2>8. CASE Clear(t)
    BY <1>0, <2>8 DEF Clear, AfterStop, OldGone
  <2>9. CASE Terminate(t)
    BY <2>9 DEF Terminate
  <2>10. CASE Join(t)
    BY <2>10 DEF Join
  <2>11. CASE JoinRelease(t)
    BY <2>11 DEF JoinRelease
  <2>12. CASE JoinWait(t)
    <3>1. op[t] # "stop" => \A g \in Game : ~Alive(g)
      BY <1>0, <2>12 DEF JoinWait, OldGone
    <3>2. \A g \in Game : Alive(g)' => Alive(g)
      BY <2>12 DEF JoinWait
    <3>3. CASE s = t
      BY <2>12, <3>1, <3>2, <3>3 DEF JoinWait, AfterStop
    <3>4. CASE s # t
      BY <2>12, <3>4 DEF JoinWait, AfterStop
    <3> QED
      BY <3>3, <3>4
  <2>13. CASE Fork(t)
    BY <2>13 DEF Fork
  <2>14. CASE ForkFails(t)
    BY <2>14 DEF ForkFails
  <2>15. CASE Store(t)
    BY <2>15 DEF Store, CloseOld, Reap, Gone
  <2>16. CASE Install(t)
    BY <2>16 DEF Install, CloseOld, Reap, Gone
  <2> QED
    BY <1>2, <2>1, <2>2, <2>3, <2>4, <2>5, <2>6, <2>7, <2>8, <2>9, <2>10, <2>11, <2>12, <2>13, <2>14, <2>15, <2>16 DEF Serve
<1>3. CASE FirstFile \/ \E g \in Game : GameEnds(g)
  BY <1>3 DEF FirstFile, GameEnds
<1>4. CASE UNCHANGED vars
  BY <1>4 DEF vars
<1> QED
  BY <1>1, <1>2, <1>3, <1>4 DEF Next

LEMMA NamedStep ==
  ASSUME GInv, ~raced, [Next]_vars, NEW g \in Game, Alive(g)'
  PROVE  Kept(g)'
<1> USE GamesAssumption DEF GInv, GameTyped, Calm, Alone, Follows, Named, Alive, Kept, IInv, Holds, Renews, Typed, Label, Goto, Keep, Return, Reap, Gone, NoGame
<1>1. ASSUME NEW t \in Tab, Call(t) PROVE Kept(g)'
  BY <1>1 DEF Call, CallStop, CallLocked
<1>2. ASSUME NEW t \in Tab, Serve(t) PROVE Kept(g)'
  <2>1. CASE LockRefused(t)
    BY <2>1 DEF LockRefused
  <2>2. CASE Lock(t)
    BY <2>2 DEF Lock
  <2>3. CASE Joinable(t)
    BY <2>3 DEF Joinable, AfterStop
  <2>4. CASE NotJoinable(t)
    BY <2>4 DEF NotJoinable
  <2>5. CASE JoinFor(t)
    BY <2>5 DEF JoinFor
  <2>6. CASE Polled(t)
    BY <2>6 DEF Polled, Reap, Gone
  <2>7. CASE TimedOut(t)
    BY <2>7 DEF TimedOut
  <2>8. CASE Clear(t)
    BY <2>8 DEF Clear, AfterStop
  <2>9. CASE Terminate(t)
    BY <2>9 DEF Terminate
  <2>10. CASE Join(t)
    BY <2>10 DEF Join
  <2>11. CASE JoinRelease(t)
    BY <2>11 DEF JoinRelease
  <2>12. CASE JoinWait(t)
    BY <2>12 DEF JoinWait, AfterStop, Reap, Gone
  <2>13. CASE Fork(t)
    BY <2>13 DEF Fork
  <2>14. CASE ForkFails(t)
    BY <2>14 DEF ForkFails
  <2>15. CASE Store(t)
    BY <2>15 DEF Store, CloseOld, Reap, Gone
  <2>16. CASE Install(t)
    BY <2>16 DEF Install, CloseOld, Reap, Gone
  <2> QED
    BY <1>2, <2>1, <2>2, <2>3, <2>4, <2>5, <2>6, <2>7, <2>8, <2>9, <2>10, <2>11, <2>12, <2>13, <2>14, <2>15, <2>16 DEF Serve
<1>3. CASE FirstFile \/ \E h \in Game : GameEnds(h)
  BY <1>3 DEF FirstFile, GameEnds
<1>4. CASE UNCHANGED vars
  BY <1>4 DEF vars
<1> QED
  BY <1>1, <1>2, <1>3, <1>4 DEF Next

LEMMA SingleStep ==
  ASSUME GInv, ~raced, [Next]_vars, NEW g \in Game, NEW h \in Game, Alive(g)', Alive(h)'
  PROVE  g = h
<1> USE GamesAssumption DEF GInv, GameTyped, Calm, Follows, Single, Alive, Typed, Goto, Keep, Return, Reap
<1>1. ASSUME NEW t \in Tab, Call(t) PROVE g = h
  BY <1>1 DEF Call, CallStop, CallLocked
<1>2. ASSUME NEW t \in Tab, Serve(t) PROVE g = h
  <2>1. CASE LockRefused(t)
    BY <2>1 DEF LockRefused
  <2>2. CASE Lock(t)
    BY <2>2 DEF Lock
  <2>3. CASE Joinable(t)
    BY <2>3 DEF Joinable, AfterStop
  <2>4. CASE NotJoinable(t)
    BY <2>4 DEF NotJoinable
  <2>5. CASE JoinFor(t)
    BY <2>5 DEF JoinFor
  <2>6. CASE Polled(t)
    BY <2>6 DEF Polled, Reap, Gone
  <2>7. CASE TimedOut(t)
    BY <2>7 DEF TimedOut
  <2>8. CASE Clear(t)
    BY <2>8 DEF Clear, AfterStop
  <2>9. CASE Terminate(t)
    BY <2>9 DEF Terminate
  <2>10. CASE Join(t)
    BY <2>10 DEF Join
  <2>11. CASE JoinRelease(t)
    BY <2>11 DEF JoinRelease
  <2>12. CASE JoinWait(t)
    BY <2>12 DEF JoinWait, AfterStop, Reap, Gone
  <2>13. CASE Fork(t)
    BY <2>13 DEF Fork
  <2>14. CASE ForkFails(t)
    BY <2>14 DEF ForkFails
  <2>15. CASE Store(t)
    BY <2>15 DEF Store, CloseOld, Reap, Gone
  <2>16. CASE Install(t)
    BY <2>16 DEF Install, CloseOld, Reap, Gone
  <2> QED
    BY <1>2, <2>1, <2>2, <2>3, <2>4, <2>5, <2>6, <2>7, <2>8, <2>9, <2>10, <2>11, <2>12, <2>13, <2>14, <2>15, <2>16 DEF Serve
<1>3. CASE FirstFile \/ \E k \in Game : GameEnds(k)
  BY <1>3 DEF FirstFile, GameEnds
<1>4. CASE UNCHANGED vars
  BY <1>4 DEF vars
<1> QED
  BY <1>1, <1>2, <1>3, <1>4 DEF Next

LEMMA GInvStep == GInv /\ [Next]_vars => GInv'
<1> SUFFICES ASSUME GInv, [Next]_vars PROVE GInv'
  OBVIOUS
<1>1. handle \in Nat
  BY GamesAssumption DEF GInv, GameTyped, Game, NoGame
<1>2. IInv'
  BY <1>1, TypedStep, HoldsStep DEF GInv, IInv
<1>3. GameTyped'
  BY GameTypedStep
<1>4. ASSUME ~raced' PROVE Alone' /\ (\A t \in Tab : Follows(t)') /\ Named' /\ Single'
  <2>1. Alone' /\ ~raced
    BY <1>4, AloneStep
  <2>2. \A t \in Tab : Follows(t)'
    BY <2>1, FollowsStep
  <2>3. Named'
    BY <2>1, NamedStep DEF Named
  <2>4. Single'
    BY <2>1, SingleStep DEF Single
  <2> QED
    BY <2>1, <2>2, <2>3, <2>4
<1> QED
  BY <1>2, <1>3, <1>4 DEF GInv, Calm

\* As long as no stop is served together with a start or a config.put, two games
\* never run at once, and the one that runs can be joined.
THEOREM OneGameAtATime == Spec => []OneGame
<1>1. Init => GInv
  <2> SUFFICES ASSUME Init PROVE GInv
    OBVIOUS
  <2>1. GameTyped
    BY DEF Init, GameTyped, NoGame
  <2>2. Calm
    BY DEF Init, Calm, Alone, Follows, Named, Single, Alive
  <2> QED
    BY <2>1, <2>2, InitIInv DEF GInv
<1>2. GInv => OneGame
  <2> SUFFICES ASSUME GInv, ~raced PROVE /\ Cardinality({g \in Game : Alive(g)}) <= 1
                                         /\ \A g \in Game : Alive(g) => Kept(g)
    BY DEF OneGame
  <2> DEFINE S == {g \in Game : Alive(g)}
  <2>1. \A g, h \in S : g = h
    BY DEF GInv, Calm, Single
  <2> HIDE DEF S
  <2>2. S = {} \/ \E g : S = {g}
    BY <2>1
  <2>3. Cardinality(S) <= 1
    <3>1. Cardinality({}) = 0
      BY FS_EmptySet
    <3>2. \A g : Cardinality({g}) = 1
      BY FS_Singleton
    <3> QED
      BY <2>2, <3>1, <3>2
  <2> QED
    BY <2>3 DEF S, GInv, Calm, Named
<1> QED
  BY <1>1, <1>2, GInvStep, PTL DEF Spec
=============================================================================
