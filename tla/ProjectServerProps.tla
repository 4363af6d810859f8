------------------------ MODULE ProjectServerProps -------------------------
(***************************************************************************)
(* What the tabs of one server rely on.                                    *)
(***************************************************************************)
EXTENDS ProjectServer

(***************************************************************************)
(* CreateOnce: of the tabs that create a file under one name at the same   *)
(* time (fail_if_exists of file_put) only one is told it did, as long as   *)
(* nobody deletes the file, whatever project each call happened to hit.    *)
(***************************************************************************)
CreateOnce == \A p \in Archive, f \in File : created[p][f] <= 1

Quiet == \A t \in Tab : sess[t].pc = "idle" /\ up[t] = <<>> /\ down[t] = <<>>

(***************************************************************************)
(* Settled: when one tab does all the switching, and nothing is under way, *)
(* every tab was last told the project that is really current, and it is   *)
(* the one a restarted server opens, unless .config could not be written   *)
(* after the last switch.  With two switching tabs this fails, for nothing *)
(* orders making the state and publishing it.                              *)
(***************************************************************************)
Settled == Quiet /\ saved = config => saved = current /\ \A t \in Tab : known[t] = current
=============================================================================
