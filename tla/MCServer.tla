------------------------------ MODULE MCServer ------------------------------
(***************************************************************************)
(* What threads of the server share, each in behaviours of its own: the    *)
(* projects, the films being made, and the stream to the games.            *)
(***************************************************************************)
EXTENDS ProjectServerProps, MgifSessions, GameStream

VARIABLE task  \* "projects", "films" or "stream"

ASSUME ServerAssumption == FilmsFit

ServerInit == /\ Init /\ FilmsInit /\ StreamInit
              /\ task \in {"projects", "films", "stream"}
ServerNext ==
  \/ task = "projects" /\ Next /\ UNCHANGED <<task, film_vars, stream_vars>>
  \/ task = "films" /\ FilmsNext /\ UNCHANGED <<task, vars, stream_vars>>
  \/ task = "stream" /\ StreamNext /\ UNCHANGED <<task, vars, film_vars>>
ServerSpec == ServerInit /\ [][ServerNext]_<<task, vars, film_vars, stream_vars>>
=============================================================================
