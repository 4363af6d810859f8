--------------------------- MODULE ProjectServer ---------------------------
(***************************************************************************)
(* The server's methods as browser tabs call them at the same time         *)
(* (WebInterface, src/src/miniserver/interface.cpp).  Every tab has its    *)
(* own session thread, which takes the tab's calls in order (RpcLink);     *)
(* the threads share the archives under the lock _mx, and the name of the  *)
(* current project, which project_set_active changes without that lock.    *)
(* What the archive promises is a function from names to contents          *)
(* (FileStore, refined by DDLArchive).                                     *)
(*                                                                         *)
(* A section that holds _mx is one action.  Publishing to all tabs is one  *)
(* action too: WsPublisher holds its mutex from the first tab to the last, *)
(* and each tab sees only its own queue.  Contents are versions, numbered  *)
(* in the order they are stored; 0 is no file.  No game is configured, so  *)
(* file_get has only the project to look in.                               *)
(***************************************************************************)
EXTENDS Naturals, Sequences, SequencesExt

CONSTANTS Tab, Project, File,
          First,      \* the project open at the start
          Torn,       \* what a torn read of _current_ddl gives
          Ops,        \* the methods the tabs use in this instance
          Switchers,  \* the tabs that switch projects
          ConfigFails,  \* whether .config may be impossible to write
          MaxVersion, MaxSwitch,  \* bounds: contents and switches,
          MaxWaiting,             \* calls a tab has no answer to,
          MaxUnread               \* messages on the way when a tab calls

ASSUME InstanceAssumption ==
  /\ First \in Project /\ Torn \notin Project /\ Switchers \subseteq Tab
  /\ Ops \subseteq {"get", "put", "create", "delete", "copy", "switch"}
  /\ ConfigFails \in BOOLEAN /\ MaxVersion \in Nat /\ MaxSwitch \in Nat
  /\ MaxWaiting \in Nat /\ MaxUnread \in Nat

Archive == Project \cup {Torn}
Version == 0..MaxVersion
\* to and source are used by switch and copy only
Request == [op : Ops, file : File, source : File, to : Project]

VARIABLES
  files,       \* [Archive -> [File -> Version]]
  current,     \* _current_ddl
  writing,     \* the sessions in the middle of assigning it
  config, saved,  \* _config["project"] and the same in .config
  up, down,    \* calls and messages on the way, per tab
  sess,        \* the call a session works on and how far it is
  last,        \* the last version stored
  saves, switched,  \* puts and switches asked for, for the bounds
  known,       \* the project each tab was last told of
  created      \* history: successful exclusive creations since the last delete
server == <<files, last, current, writing, config, saved, sess, created>>
vars == <<server, up, down, saves, switched, known>>

NoFile == CHOOSE f \in File : TRUE
Idle == [pc |-> "idle", req |-> [op |-> "none", file |-> NoFile], val |-> 0, project |-> First]

Init ==
  /\ files = [p \in Archive |-> [f \in File |-> 0]]
  /\ current = First /\ writing = {} /\ config = First /\ saved = First
  /\ up = [t \in Tab |-> <<>>] /\ down = [t \in Tab |-> <<>>]
  /\ sess = [t \in Tab |-> Idle] /\ last = 0 /\ saves = 0 /\ switched = 0
  /\ known = [t \in Tab |-> First] /\ created = [p \in Archive |-> [f \in File |-> 0]]

Answer(op, f, v) == [kind |-> "answer", op |-> op, file |-> f, val |-> v, project |-> First]
Modified(f) == [kind |-> "modified", op |-> "none", file |-> f, val |-> 0, project |-> First]
State(p) == [kind |-> "state", op |-> "none", file |-> NoFile, val |-> 0, project |-> p]

\* WsPublisher::publish
Publish(n) == down' = [t \in Tab |-> Append(down[t], n)]
-----------------------------------------------------------------------------
(***************************************************************************)
(* A tab calls a method; a session takes the next call.                    *)
(***************************************************************************)
Saving == {"put", "create"}
IsCall(c) ==
  /\ c.op \in Saving => saves < MaxVersion
  /\ c.op = "switch" => switched < MaxSwitch
  /\ c.op \notin {"switch"} => c.to = First
  /\ c.op # "copy" => c.source = c.file

Waiting(t) ==
  Len(up[t]) + (IF sess[t].pc = "idle" THEN 0 ELSE 1)
             + Len(SelectSeq(down[t], LAMBDA n : n.kind = "answer"))

Ask(t, c) ==
  /\ Waiting(t) < MaxWaiting /\ IsCall(c)
  /\ \A u \in Tab : Len(down[u]) < MaxUnread
  /\ c.op = "switch" => t \in Switchers
  /\ up' = [up EXCEPT ![t] = Append(@, c)]
  /\ saves' = IF c.op \in Saving THEN saves + 1 ELSE saves
  /\ switched' = IF c.op = "switch" THEN switched + 1 ELSE switched
  /\ UNCHANGED <<server, down, known>>

FirstStep(op) ==
  CASE op \in {"get", "copy"} -> "read"  [] op \in {"put", "create"} -> "store"
    [] op = "delete" -> "erase"          [] op = "switch" -> "assign"

Take(t) ==
  /\ sess[t].pc = "idle" /\ up[t] # <<>>
  /\ LET c == Head(up[t])
     IN sess' = [sess EXCEPT ![t] = [pc |-> FirstStep(c.op), req |-> c, val |-> 0, project |-> First]]
  /\ up' = [up EXCEPT ![t] = Tail(@)]
  /\ UNCHANGED <<files, last, current, writing, config, saved, created, down, saves, switched, known>>

At(t, pc) == sess[t].pc = pc
Goto(t, pc, v) == sess' = [sess EXCEPT ![t].pc = pc, ![t].val = v]
Rest == <<up, saves, switched, known>>
-----------------------------------------------------------------------------
(***************************************************************************)
(* The methods.  getUserDDL reads _current_ddl under _mx, which does not   *)
(* keep an assignment out: the string it gets may be the old name, the new *)
(* one or a mixture of both.                                               *)
(***************************************************************************)
UserDDL ==
  IF writing = {} THEN {current}
  ELSE {current, Torn} \cup {sess[t].req.to : t \in writing}

\* file_get
Read(t) ==
  /\ At(t, "read")
  /\ \E p \in UserDDL :
       LET v == files[p][sess[t].req.source]
       IN Goto(t, IF sess[t].req.op = "copy" /\ v # 0 THEN "store" ELSE "answer", v)
  /\ UNCHANGED <<files, last, current, writing, config, saved, created, down, Rest>>

\* broken variant: fail_if_exists is not looked at
MayCreate_Anyway(p, f) == TRUE
\* fail_if_exists && user.exists(name)
MayCreate(p, f) == files[p][f] = 0

\* file_put, up to the end of its lock
Store(t) ==
  /\ At(t, "store")
  /\ LET c == sess[t].req
     IN \E p \in UserDDL :
          IF c.op = "create" /\ ~MayCreate(p, c.file)
          THEN Goto(t, "answer", 0) /\ UNCHANGED <<files, last, created>>
          ELSE /\ last' = IF c.op = "copy" THEN last ELSE last + 1
               /\ Goto(t, "publish", IF c.op = "copy" THEN sess[t].val ELSE last')
               /\ files' = [files EXCEPT ![p][c.file] = sess'[t].val]
               /\ created' = IF c.op = "create" THEN [created EXCEPT ![p][c.file] = @ + 1]
                             ELSE created
  /\ UNCHANGED <<current, writing, config, saved, down, Rest>>

\* broken variant: the others hear of a change after its answer
PublishModified_Late(t) ==
  /\ At(t, "publish")
  /\ down' = [u \in Tab |-> IF u = t
                            THEN Append(Append(down[u], Answer(sess[t].req.op, sess[t].req.file,
                                                               sess[t].val)),
                                        Modified(sess[t].req.file))
                            ELSE Append(down[u], Modified(sess[t].req.file))]
  /\ sess' = [sess EXCEPT ![t] = Idle]
  /\ UNCHANGED <<files, last, current, writing, config, saved, created, Rest>>
\* the rest of file_put
PublishModified(t) ==
  /\ At(t, "publish")
  /\ Publish(Modified(sess[t].req.file))
  /\ Goto(t, "answer", sess[t].val)
  /\ UNCHANGED <<files, last, current, writing, config, saved, created, Rest>>

\* ws_ddl_delete; nobody is told
Erase(t) ==
  /\ At(t, "erase")
  /\ \E p \in UserDDL :
       /\ files' = [files EXCEPT ![p][sess[t].req.file] = 0]
       /\ created' = [created EXCEPT ![p][sess[t].req.file] = 0]
  /\ Goto(t, "answer", 0)
  /\ UNCHANGED <<last, current, writing, config, saved, down, Rest>>

\* ws_ddl_active: the assignment takes two steps, for it can be overlapped
Assign(t) ==
  /\ At(t, "assign")
  /\ writing' = writing \cup {t}
  /\ Goto(t, "assigned", 0)
  /\ UNCHANGED <<files, last, current, config, saved, created, down, Rest>>

Assigned(t) ==
  /\ At(t, "assigned")
  /\ current' \in IF writing = {t} THEN {sess[t].req.to} ELSE {sess[t].req.to, Torn}
  /\ writing' = writing \ {t}
  /\ Goto(t, "config", 0)
  /\ UNCHANGED <<files, last, config, saved, created, down, Rest>>

\* _config.set("project", _current_ddl)
SetConfig(t) ==
  /\ At(t, "config")
  /\ config' \in UserDDL
  /\ Goto(t, "save", 0)
  /\ UNCHANGED <<files, last, current, writing, saved, created, down, Rest>>

\* save_config
SaveConfig(t) ==
  /\ At(t, "save")
  /\ saved' = config
  /\ Goto(t, "state", 0)
  /\ UNCHANGED <<files, last, current, writing, config, created, down, Rest>>

\* it throws and the call ends with an error: the project is switched, and
\* nobody was told
SaveConfigThrows(t) ==
  /\ ConfigFails /\ At(t, "save")
  /\ Goto(t, "answer", 0)
  /\ UNCHANGED <<files, last, current, writing, config, saved, created, down, Rest>>

\* publish_state: the state is made first and published then
CreateState(t) ==
  /\ At(t, "state")
  /\ \E p \in UserDDL :
       sess' = [sess EXCEPT ![t].pc = "announce", ![t].project = p]
  /\ UNCHANGED <<files, last, current, writing, config, saved, created, down, Rest>>

\* broken variant: only the tab that switched is told
PublishState_Self(t) ==
  /\ At(t, "announce")
  /\ down' = [down EXCEPT ![t] = Append(@, State(sess[t].project))]
  /\ Goto(t, "answer", 0)
  /\ UNCHANGED <<files, last, current, writing, config, saved, created, Rest>>
PublishState(t) ==
  /\ At(t, "announce")
  /\ Publish(State(sess[t].project))
  /\ Goto(t, "answer", 0)
  /\ UNCHANGED <<files, last, current, writing, config, saved, created, Rest>>

Reply(t) ==
  /\ At(t, "answer")
  /\ down' = [down EXCEPT ![t] = Append(@, Answer(sess[t].req.op, sess[t].req.file,
                                                   sess[t].val))]
  /\ sess' = [sess EXCEPT ![t] = Idle]
  /\ UNCHANGED <<files, last, current, writing, config, saved, created, Rest>>
-----------------------------------------------------------------------------
\* the tab takes its next message
Receive(t) ==
  /\ down[t] # <<>>
  /\ LET n == Head(down[t])
     IN known' = IF n.kind = "state" THEN [known EXCEPT ![t] = n.project] ELSE known
  /\ down' = [down EXCEPT ![t] = Tail(@)]
  /\ UNCHANGED <<server, up, saves, switched>>

\* the server is killed and started again: load_config.  The tabs connect
\* again and are told the state; calls that were sent are lost, queued ones are sent.
Restart ==
  /\ current' = saved /\ config' = saved /\ writing' = {}
  /\ sess' = [t \in Tab |-> Idle]
  /\ down' = [t \in Tab |-> <<State(saved)>>]
  /\ up' \in {up, [t \in Tab |-> <<>>]}
  /\ UNCHANGED <<files, last, saved, created, saves, switched, known>>

SessionStep(t) ==
  \/ Take(t) \/ Read(t) \/ Store(t) \/ PublishModified(t) \/ Erase(t) \/ Assign(t)
  \/ Assigned(t) \/ SetConfig(t) \/ SaveConfig(t) \/ SaveConfigThrows(t)
  \/ CreateState(t) \/ PublishState(t) \/ Reply(t)

Next == \/ \E t \in Tab, c \in Request : Ask(t, c)
        \/ \E t \in Tab : SessionStep(t) \/ Receive(t)
        \/ Restart

Spec == Init /\ [][Next]_vars
=============================================================================
