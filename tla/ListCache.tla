----------------------------- MODULE ListCache -----------------------------
(***************************************************************************)
(* The lists every editor of a tab shares: items and enemies               *)
(* (global_item_list.ts, global_enemy_list.ts), dialogs and shops          *)
(* (global_dialog_list.ts, global_shop_list.ts).  A list is read from its  *)
(* file once and kept until the server says that the file was modified.    *)
(* The first two listen for that from the moment they ask for the file,    *)
(* the other two (Late) from the moment they have it.                      *)
(*                                                                         *)
(* The server and its queues are those of ProjectServer; a list is the     *)
(* version of the file it was made of, 0 when the file could not be read.  *)
(* One project, no restart, and files change by file_put alone here: a     *)
(* deletion or a finished film is not announced, and a tab that loses its  *)
(* connection loses what is announced meanwhile.                           *)
(***************************************************************************)
EXTENDS ProjectServer

CONSTANTS Late,   \* the files whose list starts to listen late
          Reader  \* the tabs whose editors ask for lists in this instance
ASSUME LateAssumption == /\ Late \subseteq File /\ Reader \subseteq Tab
                         /\ {"get", "put"} \subseteq Ops   \* what the editors call

VARIABLES
  list,     \* the promise a tab keeps for a file: "null", "loading", "loaded"
  value,    \* what it is resolved with
  dropped,  \* loads on the way whose promise was forgotten
  listens,  \* whether the tab has a listener for the file
  acked     \* history: the last own put of the tab that was answered
cacheVars == <<list, value, dropped, listens, acked>>
allVars == <<vars, cacheVars>>

PerFile(x) == [t \in Tab |-> [f \in File |-> x]]

CacheInit ==
  /\ Init
  /\ list = PerFile("null") /\ value = PerFile(0) /\ dropped = PerFile(0)
  /\ listens = PerFile(FALSE) /\ acked = PerFile(0)

Get(f) == [op |-> "get", file |-> f, source |-> f, to |-> First]
Put(f) == [op |-> "put", file |-> f, source |-> f, to |-> First]

\* globalGetItems and the like; nothing is asked if a promise is there
GetList(t, f) ==
  /\ list[t][f] = "null" /\ t \in Reader
  /\ Ask(t, Get(f))
  /\ list' = [list EXCEPT ![t][f] = "loading"]
  /\ listens' = [listens EXCEPT ![t][f] = @ \/ f \notin Late]
  /\ UNCHANGED <<value, dropped, acked>>

\* an editor saves the file
SaveFile(t, f) == Ask(t, Put(f)) /\ UNCHANGED cacheVars

\* broken variant: the load under way is not forgotten
Invalidate_Loaded(t, f) ==
  /\ list' = IF list[t][f] = "loaded" THEN [list EXCEPT ![t][f] = "null"] ELSE list
  /\ listens' = [listens EXCEPT ![t][f] = FALSE]
  /\ UNCHANGED <<value, dropped>>
\* inv and reload: the promise is forgotten and the listener removed
Invalidate(t, f) ==
  /\ list' = [list EXCEPT ![t][f] = "null"]
  /\ dropped' = IF list[t][f] = "loading" THEN [dropped EXCEPT ![t][f] = @ + 1] ELSE dropped
  /\ listens' = [listens EXCEPT ![t][f] = FALSE]
  /\ UNCHANGED value

\* the answer to the load; a forgotten promise changes nothing here.  A late
\* list has no listener if there was no file.
Loaded(t, f, v) ==
  IF dropped[t][f] > 0
  THEN dropped' = [dropped EXCEPT ![t][f] = @ - 1] /\ UNCHANGED <<list, value, listens>>
  ELSE /\ list' = [list EXCEPT ![t][f] = "loaded"]
       /\ value' = [value EXCEPT ![t][f] = v]
       /\ listens' = [listens EXCEPT ![t][f] = @ \/ v # 0]
       /\ UNCHANGED dropped

Message(t) ==
  /\ Receive(t)
  /\ LET n == Head(down[t])
     IN CASE n.kind = "answer" /\ n.op = "get" ->
               Loaded(t, n.file, n.val) /\ UNCHANGED acked
          [] n.kind = "answer" /\ n.op = "put" ->
               /\ acked' = [acked EXCEPT ![t][n.file] = n.val]
               /\ UNCHANGED <<list, value, dropped, listens>>
          [] n.kind = "modified" /\ listens[t][n.file] ->
               Invalidate(t, n.file) /\ UNCHANGED acked
          [] OTHER -> UNCHANGED cacheVars

CacheNext ==
  \/ \E t \in Tab, f \in File : GetList(t, f) \/ SaveFile(t, f)
  \/ \E t \in Tab : (SessionStep(t) /\ UNCHANGED cacheVars) \/ Message(t)

CacheSpec == CacheInit /\ [][CacheNext]_allVars
FairCacheSpec ==
  CacheSpec /\ \A t \in Tab : WF_allVars(SessionStep(t) /\ UNCHANGED cacheVars)
                              /\ WF_allVars(Message(t))
-----------------------------------------------------------------------------
Told(t, f) ==
  \/ \E i \in DOMAIN down[t] : down[t][i].kind = "modified" /\ down[t][i].file = f
  \/ \E u \in Tab : sess[u].pc = "publish" /\ sess[u].req.file = f

(***************************************************************************)
(* StaleIsTold: a list that no longer agrees with its file is about to be  *)
(* dropped, for the news is on its way to a listener.  It holds for items  *)
(* and enemies however the puts of other tabs fall between the parts of    *)
(* the load, as long as files are changed by file_put.                     *)
(***************************************************************************)
StaleIsTold ==
  \A t \in Tab, f \in File \ Late :
    list[t][f] = "loaded" /\ value[t][f] # files[current][f] => listens[t][f] /\ Told(t, f)

(***************************************************************************)
(* ReadYourSave: a list, a late one too, is never older than what the tab  *)
(* itself saved and had answered: the modified message goes out before the *)
(* answer and on the same link.                                            *)
(***************************************************************************)
ReadYourSave ==
  \A t \in Tab, f \in File :
    list[t][f] = "loaded" /\ value[t][f] # 0 => value[t][f] >= acked[t][f]

(***************************************************************************)
(* EventuallyFresh: items and enemies never stay stale: again and again    *)
(* the list agrees with its file or is asked for anew.  A list made when   *)
(* its file was missing is one of these; a late list would stay empty.     *)
(***************************************************************************)
EventuallyFresh ==
  \A t \in Tab, f \in File \ Late :
    []<>(list[t][f] # "loaded" \/ value[t][f] = files[current][f])
=============================================================================
