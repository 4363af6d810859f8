---------------------------- MODULE MgifSessions ----------------------------
(***************************************************************************)
(* Films made of pictures: the loop of AssetsToolMGF.vue that sends them,  *)
(* and the server's sessions that collect them (mgf_create, mgf_put_image  *)
(* and mgf_close of interface.cpp, mgifcomp.cpp).  Each method holds       *)
(* _mgfcomp_mx from end to end, so it is one action, and its answer is     *)
(* taken by the loop, which does nothing else meanwhile.  Loops run side   *)
(* by side in any tabs: leaving the panel does not end its loop.           *)
(*                                                                         *)
(* A session's key is the conversion that asked for it, and only that one  *)
(* knows it, so the vector of sessions is a function of the key.  A        *)
(* picture is its conversion and its place; the encoding (utils/mgifcreate.cpp) is left   *)
(* out.  Time is counted in minutes.                                       *)
(***************************************************************************)
EXTENDS Naturals, Sequences

CONSTANTS Conversion,   \* the panels' calls of start()
          Name,         \* names of films
          MaxPictures,  \* bound: files selected for one film
          Wrap          \* where the counter of missing frames wraps (2^32 in the code)

\* the counter is that of a film when it begins
FilmsFit == Name # {} /\ MaxPictures \in Nat /\ Wrap \in Nat /\ MaxPictures < Wrap

VARIABLES sessions,  \* MGifComp::_sessions, by key
          films,     \* the films of the project, by name
          conv       \* per conversion: where start() is, and its locals
film_vars == <<sessions, films, conv>>

NoFilm == <<>>
NoSessions == [c \in {} |-> NoFilm]
FilmsInit ==
  /\ sessions = NoSessions /\ films = [f \in Name |-> NoFilm]
  /\ conv = [c \in Conversion |-> [at |-> "none", name |-> CHOOSE f \in Name : TRUE, length |-> 0,
                                   i |-> 1, stop_req |-> FALSE, waited |-> 0, excused |-> FALSE]]

\* at: "create", "put" and "close" are calls under way, "read" a picture being
\* read; the rest are ends.  waited and excused are history: minutes since the
\* server last heard of the conversion, and whether it may have been dropped.
Running(c) == conv[c].at \in {"create", "read", "put", "close"}
Goes(c, where) == conv' = [conv EXCEPT ![c] = [@ EXCEPT !.at = where, !.waited = 0]]
Known(c) == c \in DOMAIN sessions

Start(c) ==
  /\ conv[c].at = "none"
  /\ \E f \in Name, n \in 1..MaxPictures :
       conv' = [conv EXCEPT ![c] = [@ EXCEPT !.at = "create", !.name = f, !.length = n]]
  /\ UNCHANGED <<sessions, films>>
Stop(c) ==
  /\ Running(c) /\ conv' = [conv EXCEPT ![c].stop_req = TRUE] /\ UNCHANGED <<sessions, films>>

\* create_mgif: whoever begins a film drops the sessions idle for over a minute.
Create(c) ==
  /\ conv[c].at = "create"
  /\ sessions' = [d \in {x \in DOMAIN sessions : sessions[x].idle <= 1} \cup {c} |->
                    IF d # c THEN sessions[d]
                    ELSE [name |-> conv[c].name, frames |-> conv[c].length, data |-> <<>>, idle |-> 0]]
  /\ Goes(c, "read") /\ UNCHANGED films
\* The head of the loop, and the picture made from the file.
ReadPicture(c) ==
  /\ conv[c].at = "read"
  /\ conv' = [conv EXCEPT ![c].at = IF conv[c].stop_req \/ conv[c].i > conv[c].length THEN "close" ELSE "put"]
  /\ UNCHANGED <<sessions, films>>

\* slip: last_activity stays when a picture comes
PutImage_Idle(c) ==
  /\ conv[c].at = "put" /\ Known(c)
  /\ sessions' = [sessions EXCEPT ![c] = [@ EXCEPT !.data = Append(sessions[c].data, <<c, conv[c].i>>),
                                                  !.frames = (sessions[c].frames + Wrap - 1) % Wrap]]
  /\ conv' = [conv EXCEPT ![c] = [@ EXCEPT !.at = IF sessions[c].frames = 1 THEN "close" ELSE "read",
                                           !.i = conv[c].i + 1, !.waited = 0]]
  /\ UNCHANGED films
\* put_image_pcx, and the loop, which ends when no more is needed ('N').
PutImage(c) ==
  /\ conv[c].at = "put" /\ Known(c)
  /\ sessions' = [sessions EXCEPT ![c] = [@ EXCEPT !.data = Append(sessions[c].data, <<c, conv[c].i>>), !.idle = 0,
                                                  !.frames = (sessions[c].frames + Wrap - 1) % Wrap]]
  /\ conv' = [conv EXCEPT ![c] = [@ EXCEPT !.at = IF sessions[c].frames = 1 THEN "close" ELSE "read",
                                           !.i = conv[c].i + 1, !.waited = 0]]
  /\ UNCHANGED films
PutRefused(c) ==
  /\ conv[c].at = "put" /\ ~Known(c) /\ Goes(c, "refused") /\ UNCHANGED <<sessions, films>>

Forget(c) == sessions' = [d \in DOMAIN sessions \ {c} |-> sessions[d]]
\* mgf_close erases the session before it looks whether frames are missing.
CloseGone(c) ==
  /\ conv[c].at = "close" /\ ~Known(c) /\ Goes(c, "gone") /\ UNCHANGED <<sessions, films>>
\* slip: frames that are missing are not asked for
Close_Any(c) ==
  /\ conv[c].at = "close" /\ Known(c) /\ Forget(c)
  /\ films' = [films EXCEPT ![sessions[c].name] = sessions[c].data] /\ Goes(c, "done")
Close(c) ==
  /\ conv[c].at = "close" /\ Known(c) /\ Forget(c)
  /\ IF sessions[c].frames # 0 THEN Goes(c, "unfinished") /\ UNCHANGED films
     ELSE films' = [films EXCEPT ![sessions[c].name] = sessions[c].data] /\ Goes(c, "done")

\* A file that is no picture, or the connection of a call or its answer lost:
\* start() throws, and its session stays.
Throws(c) ==
  /\ Running(c) /\ Goes(c, "thrown") /\ UNCHANGED <<sessions, films>>
\* A minute passes: reading pictures, waiting for a connection's turn, a tab asleep.
Minute ==
  /\ sessions' = [c \in DOMAIN sessions |-> [sessions[c] EXCEPT !.idle = IF @ < 2 THEN @ + 1 ELSE @]]
  /\ conv' = [c \in Conversion |->
       IF Running(c) THEN [conv[c] EXCEPT !.waited = IF @ < 2 THEN @ + 1 ELSE @,
                                          !.excused = @ \/ conv[c].waited >= 1]
       ELSE conv[c]]
  /\ UNCHANGED films
\* The server is started anew; loops that read a picture just then go on.
ServerRestart ==
  /\ sessions' = NoSessions /\ UNCHANGED films
  /\ conv' = [c \in Conversion |->
       IF ~Running(c) THEN conv[c]
       ELSE IF conv[c].at = "read" THEN [conv[c] EXCEPT !.excused = TRUE] ELSE [conv[c] EXCEPT !.at = "thrown"]]

FilmsNext ==
  \/ \E c \in Conversion :
       \/ Start(c) \/ Stop(c) \/ Create(c) \/ ReadPicture(c) \/ PutImage(c) \/ PutRefused(c)
       \/ CloseGone(c) \/ Close(c) \/ Throws(c)
  \/ Minute \/ ServerRestart
FilmsSpec == FilmsInit /\ [][FilmsNext]_film_vars

\* A film in the project has all the pictures that one conversion was given, in
\* their order, whatever other conversions put, stopped or dropped meanwhile,
\* also under the same name; and a conversion fails only when its user stopped
\* it, or it let a minute pass, or lost its server.
FilmsWhole ==
  /\ \A f \in Name : films[f] # NoFilm =>
       \E c \in Conversion : /\ conv[c].at = "done" /\ conv[c].name = f
                             /\ films[f] = [i \in 1..conv[c].length |-> <<c, i>>]
  /\ \A c \in Conversion : /\ conv[c].at \in {"refused", "gone"} => conv[c].excused
                           /\ conv[c].at = "unfinished" => conv[c].stop_req
-----------------------------------------------------------------------------
(***************************************************************************)
(* The inductive invariant behind the theorem of ProjectServer_proofs.     *)
(***************************************************************************)
Place == {"none", "create", "read", "put", "close"}
End == {"refused", "gone", "unfinished", "done", "thrown"}
Picture == Conversion \X Nat
Local == [at : Place \cup End, name : Name, length : Nat, i : Nat \ {0},
          stop_req : BOOLEAN, waited : 0..2, excused : BOOLEAN]
FilmSession == [name : Name, frames : Nat, data : Seq(Picture), idle : Nat]
FilmsTyped == /\ conv \in [Conversion -> Local] /\ films \in [Name -> Seq(Picture)]
         /\ DOMAIN sessions \subseteq Conversion /\ sessions \in [DOMAIN sessions -> FilmSession]

\* A session has the pictures its loop sent, and misses those it will send.
Collects(c) ==
  /\ conv[c].i <= conv[c].length + 1 /\ conv[c].length <= MaxPictures
  /\ Known(c) => LET s == sessions[c]
                 IN /\ s.name = conv[c].name /\ Len(s.data) = conv[c].i - 1
                    /\ \A k \in 1..Len(s.data) : s.data[k] = <<c, k>>
                    /\ s.frames = conv[c].length - Len(s.data)
\* Where the loop is says which pictures it sent, and whether it has a session.
Loops(c) ==
  /\ conv[c].at \in {"none", "create"} => conv[c].i = 1 /\ ~Known(c)
  /\ conv[c].at = "put" => conv[c].i <= conv[c].length
  /\ conv[c].at = "close" => conv[c].stop_req \/ conv[c].i = conv[c].length + 1
\* A loop that runs has its session, which is idle no longer than the loop was
\* silent, unless a minute went by or the server.
Holds(c) ==
  /\ conv[c].waited = 2 => conv[c].excused
  /\ Running(c) /\ conv[c].at # "create" =>
       IF Known(c) THEN sessions[c].idle <= conv[c].waited ELSE conv[c].excused

FilmsInv == FilmsTyped /\ (\A c \in Conversion : Collects(c) /\ Loops(c) /\ Holds(c)) /\ FilmsWhole
=============================================================================
