------------------------ MODULE ProjectServer_proofs ------------------------
(* Proofs about exclusive creation, about tabs that learn which project is open, *)
(* about films, and about the commands that games get: for any tabs, projects,   *)
(* files, conversions and games.                                                 *)
EXTENDS ProjectServerProps, MgifSessions, GameStream, SequenceTheorems, TLAPS

Label == {"idle", "read", "store", "publish", "erase", "assign", "assigned",
          "config", "save", "state", "announce", "answer"}
Session == [pc : Label, req : Request \cup {Idle.req}, val : Nat, project : Archive]

\* The part of the types that the argument needs.
Typed ==
  /\ files \in [Archive -> [File -> Nat]] /\ created \in [Archive -> [File -> Nat]]
  /\ last \in Nat /\ current \in Archive /\ config \in Archive /\ saved \in Archive
  /\ writing \subseteq Tab /\ up \in [Tab -> Seq(Request)] /\ sess \in [Tab -> Session]
\* A session at work has a call of a tab, a copy stores what it has read, and
\* an assignment under way is one of a switch.
Working(t) == /\ sess[t].pc # "idle" => sess[t].req \in Request
              /\ sess[t].pc = "store" /\ sess[t].req.op = "copy" => sess[t].val # 0
              /\ t \in writing => sess[t].pc = "assigned"
\* What makes CreateOnce inductive: what was created is still there.
Created(p, f) == created[p][f] <= 1 /\ (created[p][f] = 1 => files[p][f] # 0)
IInv == /\ Typed /\ \A t \in Tab : Working(t)
        /\ \A p \in Archive, f \in File : Created(p, f)

LEMMA IdleOK == First \in Archive /\ Idle \in Session
  BY InstanceAssumption DEF Archive, Idle, Session, Label

LEMMA InitIInv == Init => IInv
<1> SUFFICES ASSUME Init PROVE IInv
  OBVIOUS
<1>2. Typed
  BY IdleOK DEF Init, Typed, Archive
<1>3. \A t \in Tab : Working(t)
  BY DEF Init, Working, Idle
<1>4. \A p \in Archive, f \in File : Created(p, f)
  BY DEF Init, Created
<1> QED
  BY <1>2, <1>3, <1>4 DEF IInv

\* The archive a session opens is one of the archives, whatever is overlapped.
LEMMA UserDDLOK == IInv => UserDDL \subseteq Archive
  BY DEF IInv, Typed, Working, UserDDL, Archive, Request, Session

\* Where a session goes on, and one file of one archive set.
LEMMA GotoOK ==
  ASSUME Typed, NEW t \in Tab, NEW l \in Label, NEW v \in Nat, Goto(t, l, v)
  PROVE  /\ sess' \in [Tab -> Session]
         /\ sess'[t].pc = l /\ sess'[t].val = v /\ sess'[t].req = sess[t].req
         /\ \A u \in Tab : u # t => sess'[u] = sess[u]
  BY DEF Typed, Session, Goto

LEMMA UpdateOK ==
  ASSUME NEW F \in [Archive -> [File -> Nat]], NEW p \in Archive, NEW f \in File, NEW n \in Nat
  PROVE  LET G == [F EXCEPT ![p][f] = n]
         IN /\ G \in [Archive -> [File -> Nat]] /\ G[p][f] = n
            /\ \A q \in Archive, g \in File : q # p \/ g # f => G[q][g] = F[q][g]
  OBVIOUS

LEMMA GotoWorking ==
  ASSUME IInv, NEW t \in Tab, NEW l \in Label, NEW v \in Nat, Goto(t, l, v),
         sess[t].req \in Request, l = "store" /\ sess[t].req.op = "copy" => v # 0,
         t \in writing' => l = "assigned", \A u \in Tab : u # t /\ u \in writing' => u \in writing
  PROVE  \A u \in Tab : Working(u)'
<1>1. \A u \in Tab : u # t => Working(u)'
  <2> SUFFICES ASSUME NEW u \in Tab, u # t PROVE Working(u)'
    OBVIOUS
  <2>1. sess'[u] = sess[u]
    BY GotoOK DEF IInv
  <2> QED
    BY <2>1 DEF IInv, Working
<1>2. Working(t)'
  BY GotoOK DEF IInv, Working
<1> QED
  BY <1>1, <1>2

\* The other steps leave the files alone.
LEMMA OtherStep ==
  ASSUME IInv, UNCHANGED <<files, created>>, Typed', \A t \in Tab : Working(t)'
  PROVE  IInv'
  BY DEF IInv, Created

\* A session that stores: the create that finds the file is refused.
LEMMA StoreStep == ASSUME IInv, NEW t \in Tab, Store(t) PROVE IInv'
<1> DEFINE c == sess[t].req
<1>1. PICK p \in UserDDL :
        IF c.op = "create" /\ ~MayCreate(p, c.file)
        THEN Goto(t, "answer", 0) /\ UNCHANGED <<files, last, created>>
        ELSE /\ last' = IF c.op = "copy" THEN last ELSE last + 1
             /\ Goto(t, "publish", IF c.op = "copy" THEN sess[t].val ELSE last')
             /\ files' = [files EXCEPT ![p][c.file] = sess'[t].val]
             /\ created' = IF c.op = "create" THEN [created EXCEPT ![p][c.file] = @ + 1]
                           ELSE created
  BY DEF Store
<1>2. p \in Archive /\ c \in Request /\ c.file \in File
  BY UserDDLOK DEF IInv, Working, Store, At, Request
<1>3. UNCHANGED <<current, writing, config, saved, up>>
  BY DEF Store, Rest
<1>6. t \notin writing
  BY DEF IInv, Working, Store, At
<1>4. CASE c.op = "create" /\ ~MayCreate(p, c.file)
  <2>1. Goto(t, "answer", 0) /\ UNCHANGED <<files, last, created>>
    BY <1>1, <1>4
  <2>2. Typed'
    BY <1>3, <2>1, GotoOK DEF IInv, Typed, Label
  <2>3. \A u \in Tab : Working(u)'
    BY <1>2, <1>3, <1>6, <2>1, GotoWorking DEF Label
  <2> QED
    BY <2>1, <2>2, <2>3, OtherStep
<1>5. CASE ~(c.op = "create" /\ ~MayCreate(p, c.file))
  <2> DEFINE v == IF c.op = "copy" THEN sess[t].val ELSE last'
  <2>1. last' = IF c.op = "copy" THEN last ELSE last + 1
    BY <1>1, <1>5
  <2>2. v \in Nat /\ v # 0 /\ last' \in Nat
    BY <1>2, <2>1 DEF IInv, Typed, Session, Working, Store, At
  <2>3. Goto(t, "publish", v)
    BY <1>1, <1>5
  <2>4. sess'[t].val = v
    BY <2>2, <2>3, GotoOK DEF IInv, Label
  <2>5. files' = [files EXCEPT ![p][c.file] = v]
    BY <1>1, <1>5, <2>4
  <2>8. \A u \in Tab : Working(u)'
    BY <1>2, <1>3, <1>6, <2>2, <2>3, GotoWorking DEF Label
  <2>6. CASE c.op = "create"
    <3>1. files[p][c.file] = 0
      BY <1>5, <2>6 DEF MayCreate
    <3>2. created[p][c.file] = 0
      BY <1>2, <3>1 DEF IInv, Typed, Created
    <3>3. created' = [created EXCEPT ![p][c.file] = 1]
      BY <1>1, <1>2, <1>5, <2>6, <3>2
    <3>4. Typed'
      BY <1>2, <1>3, <2>2, <2>3, <2>5, <3>3, GotoOK, UpdateOK DEF IInv, Typed, Label
    <3>5. \A q \in Archive, f \in File : Created(q, f)'
      BY <1>2, <2>2, <2>5, <3>3, UpdateOK DEF IInv, Typed, Created
    <3> QED
      BY <2>8, <3>4, <3>5 DEF IInv
  <2>7. CASE c.op # "create"
    <3>1. created' = created
      BY <1>1, <1>5, <2>7
    <3>2. Typed'
      BY <1>2, <1>3, <2>2, <2>3, <2>5, <3>1, GotoOK, UpdateOK DEF IInv, Typed, Label
    <3>3. \A q \in Archive, f \in File : Created(q, f)'
      BY <1>2, <2>2, <2>5, <3>1, UpdateOK DEF IInv, Typed, Created
    <3> QED
      BY <2>8, <3>2, <3>3 DEF IInv
  <2> QED
    BY <2>6, <2>7
<1> QED
  BY <1>4, <1>5

\* A deletion forgets the creation with the file.
LEMMA EraseStep == ASSUME IInv, NEW t \in Tab, Erase(t) PROVE IInv'
<1> DEFINE g == sess[t].req.file
<1>1. PICK p \in UserDDL : /\ files' = [files EXCEPT ![p][g] = 0]
                           /\ created' = [created EXCEPT ![p][g] = 0]
  BY DEF Erase
<1>2. p \in Archive /\ g \in File
  BY UserDDLOK DEF IInv, Working, Erase, At, Request
<1>3. /\ Goto(t, "answer", 0)
      /\ UNCHANGED <<last, current, writing, config, saved, up>>
  BY DEF Erase, Rest
<1>4. files' \in [Archive -> [File -> Nat]] /\ created' \in [Archive -> [File -> Nat]]
  BY <1>1, <1>2 DEF IInv, Typed
<1>5. Typed'
  BY <1>3, <1>4 DEF IInv, Typed, Session, Label, Goto
<1>6. \A u \in Tab : Working(u)'
  BY <1>3 DEF IInv, Typed, Session, Label, Goto, Working, Erase, At
<1>7. ASSUME NEW q \in Archive, NEW f \in File PROVE Created(q, f)'
  <2>1. CASE q = p /\ f = g
    BY <1>1, <1>2, <2>1 DEF IInv, Typed, Created
  <2>2. CASE ~(q = p /\ f = g)
    <3>1. files'[q][f] = files[q][f] /\ created'[q][f] = created[q][f]
      BY <1>1, <1>2, <2>2 DEF IInv, Typed
    <3> QED
      BY <3>1 DEF IInv, Created
  <2> QED
    BY <2>1, <2>2
<1> QED
  BY <1>5, <1>6, <1>7 DEF IInv

LEMMA SessionStepOK == ASSUME IInv, NEW t \in Tab, SessionStep(t) PROVE IInv'
<1> USE DEF IInv, Typed, Working, Session, Label, At, Rest
<1>1. CASE Take(t)
  <2> DEFINE c == Head(up[t])
  <2>1. c \in Request /\ Tail(up[t]) \in Seq(Request)
    BY <1>1, HeadTailProperties DEF Take
  <2>2. FirstStep(c.op) \in Label \ {"idle"} /\ (FirstStep(c.op) = "store" => c.op # "copy")
    BY <2>1, InstanceAssumption DEF FirstStep, Request
  <2>3. [pc |-> FirstStep(c.op), req |-> c, val |-> 0, project |-> First] \in Session
    BY <2>1, <2>2, InstanceAssumption DEF Archive
  <2>4. Typed'
    BY <1>1, <2>1, <2>3 DEF Take
  <2>5. \A u \in Tab : Working(u)'
    BY <1>1, <2>1, <2>2 DEF Take
  <2> QED
    BY <1>1, <2>4, <2>5, OtherStep DEF Take
<1>2. CASE Read(t)
  <2>1. PICK p \in UserDDL :
          LET v == files[p][sess[t].req.source]
          IN Goto(t, IF sess[t].req.op = "copy" /\ v # 0 THEN "store" ELSE "answer", v)
    BY <1>2 DEF Read
  <2>2. files[p][sess[t].req.source] \in Nat
    <3>1. p \in Archive /\ sess[t].req \in Request
      BY <1>2, UserDDLOK DEF Read
    <3>2. sess[t].req.source \in File
      BY <3>1 DEF Request
    <3> QED
      BY <3>1, <3>2
  <2> DEFINE v == files[p][sess[t].req.source]
             l == IF sess[t].req.op = "copy" /\ v # 0 THEN "store" ELSE "answer"
  <2>3. Goto(t, l, v) /\ l \in Label /\ (l = "store" => v # 0) /\ l # "assigned"
         /\ v \in Nat
    BY <2>1, <2>2
  <2>4. t \notin writing /\ sess[t].req \in Request
    BY <1>2 DEF Read
  <2>5. Typed'
    <3> HIDE DEF l, v
    <3>1. sess' \in [Tab -> Session]
      BY <2>3, GotoOK
    <3>2. UNCHANGED <<files, created, last, current, config, saved, writing, up>>
      BY <1>2 DEF Read, Rest
    <3> QED
      BY <3>1, <3>2 DEF Typed
  <2>6. \A u \in Tab : Working(u)'
    <3> HIDE DEF l, v, Working, Session, Label
    <3> QED
      BY <1>2, <2>2, <2>3, <2>4, GotoWorking DEF Read
  <2> QED
    BY <1>2, <2>5, <2>6, OtherStep DEF Read
<1>3. CASE Store(t)
  BY <1>3, StoreStep
<1>4. CASE Erase(t)
  BY <1>4, EraseStep
<1>5. CASE PublishModified(t)
  <2>1. Typed'
    BY <1>5 DEF PublishModified, Goto
  <2>2. \A u \in Tab : Working(u)'
    BY <1>5 DEF PublishModified, Goto
  <2> QED
    BY <1>5, <2>1, <2>2, OtherStep DEF PublishModified, Goto
<1>6. CASE Assign(t)
  <2>1. Typed'
    BY <1>6 DEF Assign, Goto
  <2>2. \A u \in Tab : Working(u)'
    BY <1>6 DEF Assign, Goto
  <2> QED
    BY <1>6, <2>1, <2>2, OtherStep DEF Assign, Goto
<1>7. CASE SetConfig(t)
  <2>1. Typed'
    BY <1>7, UserDDLOK DEF SetConfig, Goto
  <2>2. \A u \in Tab : Working(u)'
    BY <1>7 DEF SetConfig, Goto
  <2> QED
    BY <1>7, <2>1, <2>2, OtherStep DEF SetConfig, Goto
<1>8. CASE SaveConfig(t)
  <2>1. Typed'
    BY <1>8 DEF SaveConfig, Goto
  <2>2. \A u \in Tab : Working(u)'
    BY <1>8 DEF SaveConfig, Goto
  <2> QED
    BY <1>8, <2>1, <2>2, OtherStep DEF SaveConfig, Goto
<1>9. CASE SaveConfigThrows(t)
  <2>1. Typed'
    BY <1>9 DEF SaveConfigThrows, Goto
  <2>2. \A u \in Tab : Working(u)'
    BY <1>9 DEF SaveConfigThrows, Goto
  <2> QED
    BY <1>9, <2>1, <2>2, OtherStep DEF SaveConfigThrows, Goto
<1>10. CASE PublishState(t)
  <2>1. Typed'
    BY <1>10 DEF PublishState, Goto
  <2>2. \A u \in Tab : Working(u)'
    BY <1>10 DEF PublishState, Goto
  <2> QED
    BY <1>10, <2>1, <2>2, OtherStep DEF PublishState, Goto
<1>11. CASE Reply(t)
  <2>1. Typed'
    BY <1>11, IdleOK DEF Reply, Idle
  <2>2. \A u \in Tab : Working(u)'
    BY <1>11 DEF Reply, Idle
  <2> QED
    BY <1>11, <2>1, <2>2, OtherStep DEF Reply, Idle
<1>12. CASE CreateState(t)
  <2>1. PICK p \in Archive : sess' = [sess EXCEPT ![t].pc = "announce", ![t].project = p]
    BY <1>12, UserDDLOK DEF CreateState
  <2>2. sess' \in [Tab -> Session]
    BY <2>1
  <2>4. Typed'
    BY <1>12, <2>2 DEF CreateState
  <2>3. \A u \in Tab : Working(u)'
    BY <1>12, <2>1 DEF CreateState
  <2> QED
    BY <1>12, <2>3, <2>4, OtherStep DEF CreateState
<1>13. CASE Assigned(t)
  <2>1. sess[t].req.to \in Project
    BY <1>13 DEF Assigned, Request
  <2>2. current' \in Archive
    BY <1>13, <2>1 DEF Assigned, Archive
  <2>3. Goto(t, "config", 0)
    BY <1>13 DEF Assigned
  <2>4. Typed'
    BY <1>13, <2>2, <2>3, GotoOK DEF Assigned
  <2>5. \A u \in Tab : Working(u)'
    BY <1>13, <2>3 DEF Assigned, Goto
  <2> QED
    BY <1>13, <2>4, <2>5, OtherStep DEF Assigned
<1> QED
  BY <1>1, <1>2, <1>3, <1>4, <1>5, <1>6, <1>7, <1>8, <1>9, <1>10, <1>11, <1>12, <1>13 DEF SessionStep

LEMMA NextIInv == IInv /\ [Next]_vars => IInv'
<1> SUFFICES ASSUME IInv, [Next]_vars PROVE IInv'
  OBVIOUS
<1>1. ASSUME NEW t \in Tab, NEW c \in Request, Ask(t, c) PROVE IInv'
  BY <1>1, OtherStep DEF Ask, server, IInv, Typed, Working
<1>2. ASSUME NEW t \in Tab, SessionStep(t) PROVE IInv'
  BY <1>2, SessionStepOK
<1>3. ASSUME NEW t \in Tab, Receive(t) PROVE IInv'
  BY <1>3, OtherStep DEF Receive, server, IInv, Typed, Working
<1>4. CASE Restart
  <2>1. Typed'
    <3>1. [t \in Tab |-> <<>>] \in [Tab -> Seq(Request)]
      OBVIOUS
    <3> QED
      BY <1>4, <3>1, IdleOK DEF Restart, IInv, Typed
  <2>2. \A t \in Tab : Working(t)'
    BY <1>4 DEF Restart, Working, Idle
  <2> QED
    BY <1>4, <2>1, <2>2, OtherStep DEF Restart
<1>5. CASE UNCHANGED vars
  BY <1>5, OtherStep DEF vars, server, IInv, Typed, Working
<1> QED
  BY <1>1, <1>2, <1>3, <1>4, <1>5 DEF Next

\* Of the calls that create one file exclusively (file_put with fail_if_exists)
\* only one succeeds until the file is deleted: for any number of tabs,
\* switching projects meanwhile, restarts and torn reads of the name included.
THEOREM CreatedOnce == Spec => []CreateOnce
<1>1. IInv => CreateOnce
  BY DEF IInv, Created, CreateOnce
<1> QED
  BY <1>1, InitIInv, NextIInv, PTL DEF Spec
-----------------------------------------------------------------------------
(***************************************************************************)
(* Settled, for one tab that switches.  At all times the tabs have been    *)
(* told, or will be by what is on its way, what .config says, except while *)
(* the state is being made and announced; and _config follows the current  *)
(* project.  That the session at work is the only one to switch keeps the  *)
(* state it made from being old when it is announced.                      *)
(***************************************************************************)
OneSwitcher == \A t, u \in Switchers : t = u

Switching == {"assign", "assigned", "config", "save", "state", "announce"}
\* v is what a tab that was told k knows once it has received q.
WillKnow(q, k, v) ==
  \/ \E i \in DOMAIN q : /\ q[i].kind = "state" /\ q[i].project = v
                         /\ \A j \in DOMAIN q : q[j].kind = "state" => j <= i
  \/ k = v /\ \A i \in DOMAIN q : q[i].kind # "state"
Notice == [kind : {"answer", "modified", "state"}, op : Ops \cup {"none"},
           file : File \cup {NoFile}, val : Nat, project : Archive]
Messages == down \in [Tab -> Seq(Notice)] /\ known \in [Tab -> Archive]
Alone == \A t \in Tab :
  /\ sess[t].pc \in Switching => t \in Switchers
  /\ \A i \in DOMAIN up[t] : up[t][i].op = "switch" => t \in Switchers
Followed == /\ (\A t \in Tab : sess[t].pc # "config") => config = current
            /\ \A t \in Tab : sess[t].pc \in {"state", "announce"} => saved = config
            /\ \A t \in Tab : sess[t].pc = "announce" => sess[t].project = current
Announced == (\A t \in Tab : sess[t].pc \notin {"state", "announce"})
               => \A t \in Tab : WillKnow(down[t], known[t], saved)
SInv == IInv /\ Messages /\ Alone /\ Followed /\ Announced

LEMMA KnowAppend ==
  ASSUME NEW q \in Seq(Notice), NEW n \in Notice, NEW k, NEW v
  PROVE  /\ n.kind # "state" /\ WillKnow(q, k, v) => WillKnow(Append(q, n), k, v)
         /\ n.kind = "state" => WillKnow(Append(q, n), k, n.project)
<1> DEFINE r == Append(q, n)
<1>1. /\ DOMAIN r = DOMAIN q \cup {Len(q) + 1} /\ DOMAIN q = 1..Len(q) /\ Len(q) \in Nat
      /\ r[Len(q) + 1] = n /\ \A i \in DOMAIN q : r[i] = q[i]
  OBVIOUS
<1>2. CASE n.kind # "state"
  <2>1. \A i \in DOMAIN r : r[i].kind = "state" => i \in DOMAIN q
    BY <1>1, <1>2
  <2> HIDE DEF r
  <2> QED
    BY <1>1, <1>2, <2>1 DEF WillKnow, r
<1>3. CASE n.kind = "state"
  <2>1. Len(q) + 1 \in DOMAIN r /\ \A j \in DOMAIN r : j <= Len(q) + 1
    BY <1>1
  <2> HIDE DEF r
  <2> QED
    BY <1>1, <1>3, <2>1 DEF WillKnow, r
<1> QED
  BY <1>2, <1>3

LEMMA KnowTail ==
  ASSUME NEW q \in Seq(Notice), q # <<>>, NEW k, NEW v, WillKnow(q, k, v)
  PROVE  WillKnow(Tail(q), IF Head(q).kind = "state" THEN Head(q).project ELSE k, v)
<1> DEFINE r == Tail(q)
           l == IF Head(q).kind = "state" THEN Head(q).project ELSE k
<1>1. /\ Head(q) = q[1] /\ 1 \in DOMAIN q
      /\ \A i \in DOMAIN r : i \in Nat /\ i + 1 \in DOMAIN q /\ r[i] = q[i + 1]
      /\ \A i \in DOMAIN q : i \in Nat \ {0} /\ (i # 1 => i - 1 \in DOMAIN r)
  OBVIOUS
<1>2. CASE \A i \in DOMAIN r : r[i].kind # "state"
  <2>1. ASSUME NEW i \in DOMAIN q, i # 1 PROVE q[i].kind # "state"
    <3>1. i - 1 \in DOMAIN r /\ i \in Nat
      BY <1>1, <2>1
    <3>2. r[i - 1] = q[i]
      BY <1>1, <3>1
    <3> QED
      BY <1>2, <3>1, <3>2
  <2>2. l = v
    BY <1>1, <2>1 DEF WillKnow
  <2> HIDE DEF r, l
  <2> QED
    BY <1>2, <2>2 DEF WillKnow, r, l
<1>3. ASSUME NEW k1 \in DOMAIN r, r[k1].kind = "state" PROVE WillKnow(r, l, v)
  <2>1. k1 \in Nat /\ k1 + 1 \in DOMAIN q /\ q[k1 + 1].kind = "state"
    BY <1>1, <1>3
  <2>2. PICK i \in DOMAIN q : /\ q[i].kind = "state" /\ q[i].project = v
                              /\ \A j \in DOMAIN q : q[j].kind = "state" => j <= i
    BY <2>1 DEF WillKnow
  <2>3. i \in Nat /\ k1 + 1 <= i /\ i # 1
    BY <1>1, <1>3, <2>1, <2>2
  <2>4. i - 1 \in DOMAIN r /\ r[i - 1] = q[i]
    BY <1>1, <2>3
  <2>5. ASSUME NEW j \in DOMAIN r, r[j].kind = "state" PROVE j <= i - 1
    <3>1. j \in Nat /\ j + 1 \in DOMAIN q /\ q[j + 1].kind = "state"
      BY <1>1, <2>5
    <3> QED
      BY <2>2, <2>3, <3>1
  <2> HIDE DEF r, l
  <2> QED
    BY <2>2, <2>4, <2>5 DEF WillKnow
<1> QED
  BY <1>2, <1>3

LEMMA InitSInv == Init => SInv
<1> SUFFICES ASSUME Init PROVE SInv
  OBVIOUS
<1>1. Messages
  BY IdleOK DEF Init, Messages
<1>2. Alone /\ Followed /\ Announced
  BY DEF Init, Alone, Followed, Announced, WillKnow, Idle, Switching
<1> QED
  BY <1>1, <1>2, InitIInv DEF SInv

\* What is sent to the tabs.
LEMMA NoticeOK ==
  /\ \A f \in File : Modified(f) \in Notice /\ Modified(f).kind = "modified"
  /\ \A p \in Archive : /\ State(p) \in Notice /\ State(p).kind = "state"
                        /\ State(p).project = p
  /\ \A op \in Ops, f \in File, v \in Nat :
       Answer(op, f, v) \in Notice /\ Answer(op, f, v).kind = "answer"
  BY IdleOK DEF Modified, State, Answer, Notice, Archive

\* Nobody assigns _current_ddl while a session is past that, so what it reads is whole.
LEMMA ReadsCurrent ==
  ASSUME SInv, OneSwitcher, NEW t \in Tab, sess[t].pc \in {"config", "state"}
  PROVE  UserDDL = {current} /\ \A u \in Tab : u # t => sess[u].pc \notin Switching
<1>1. \A u \in Tab : u # t => sess[u].pc \notin Switching
  BY DEF SInv, Alone, OneSwitcher, Switching
<1>2. writing = {}
  BY <1>1 DEF SInv, IInv, Typed, Working, Switching
<1> QED
  BY <1>1, <1>2 DEF UserDDL

\* A step that switches nothing, and keeps what the tabs will know.
LEMMA PlainStep ==
  ASSUME SInv, UNCHANGED <<current, config, saved>>,
         \A u \in Tab : \/ sess'[u] = sess[u]
                        \/ /\ sess[u].pc \notin {"config", "state", "announce"}
                           /\ sess'[u].pc \notin {"config", "state", "announce"}
                           /\ sess'[u].pc \in Switching => u \in Switchers,
         \A u \in Tab : \A i \in DOMAIN up'[u] : up'[u][i].op = "switch" => u \in Switchers,
         \A u \in Tab : WillKnow(down[u], known[u], saved) => WillKnow(down'[u], known'[u], saved)
  PROVE  Alone' /\ Followed' /\ Announced'
<1>1. \A u \in Tab : \A l \in {"config", "state", "announce"} : sess'[u].pc = l <=> sess[u].pc = l
  OBVIOUS
<1>2. \A u \in Tab : sess'[u].pc = "announce" => sess'[u] = sess[u]
  OBVIOUS
<1>3. Alone'
  BY DEF SInv, Alone
<1>4. Followed'
  BY <1>1, <1>2 DEF SInv, Followed
<1>5. Announced'
  BY <1>1 DEF SInv, Announced
<1> QED
  BY <1>3, <1>4, <1>5

\* Messages that do not tell the project change nothing about it.
LEMMA OtherNotice ==
  ASSUME Messages, NEW u \in Tab, NEW n \in Notice, n.kind # "state"
  PROVE  WillKnow(down[u], known[u], saved) => WillKnow(Append(down[u], n), known[u], saved)
<1>1. down[u] \in Seq(Notice)
  BY DEF Messages
<1> QED
  BY <1>1, KnowAppend

LEMMA PublishOK ==
  ASSUME Messages, NEW n \in Notice, Publish(n), known' = known PROVE Messages'
<1>1. \A u \in Tab : Append(down[u], n) \in Seq(Notice)
  BY DEF Messages
<1> QED
  BY <1>1 DEF Messages, Publish

\* Where a session goes on.
LEMMA GoesOn ==
  ASSUME IInv, NEW t \in Tab, NEW l \in Label, NEW v \in Nat, Goto(t, l, v)
  PROVE  sess'[t].pc = l /\ \A u \in Tab : u # t => sess'[u] = sess[u]
<1>1. Typed
  BY DEF IInv
<1> QED
  BY <1>1, GotoOK

\* The steps of a session that leave the names alone.
LEMMA FileStepSettles ==
  ASSUME SInv, NEW t \in Tab,
         \/ Take(t) \/ Read(t) \/ Store(t) \/ PublishModified(t) \/ Erase(t) \/ Assign(t)
         \/ SaveConfigThrows(t) \/ Reply(t)
  PROVE  SInv'
<1>1. IInv'
  BY SessionStepOK DEF SessionStep, SInv
<1>2. /\ UNCHANGED <<current, config, saved, known>> /\ sess \in [Tab -> Session]
      /\ up \in [Tab -> Seq(Request)]
  BY DEF Take, Read, Store, PublishModified, Erase, Assign, SaveConfigThrows, Reply, Rest,
         SInv, IInv, Typed
<1>3. \A u \in Tab : \A i \in DOMAIN up'[u] : up'[u][i].op = "switch" => u \in Switchers
  <2>1. CASE Take(t)
    <3> SUFFICES ASSUME NEW u \in Tab, NEW i \in DOMAIN up'[u], up'[u][i].op = "switch"
                 PROVE  u \in Switchers
      OBVIOUS
    <3>1. CASE u = t
      <4>1. up'[t] = Tail(up[t]) /\ up[t] # <<>> /\ up[t] \in Seq(Request)
        BY <1>2, <2>1 DEF Take
      <4>2. i + 1 \in DOMAIN up[t] /\ up'[t][i] = up[t][i + 1]
        BY <3>1, <4>1
      <4> QED
        BY <3>1, <4>2 DEF SInv, Alone
    <3>2. CASE u # t
      <4>1. up'[u] = up[u]
        BY <1>2, <2>1, <3>2 DEF Take
      <4> QED
        BY <4>1 DEF SInv, Alone
    <3> QED
      BY <3>1, <3>2
  <2>2. CASE up' = up
    BY <2>2 DEF SInv, Alone
  <2> QED
    BY <2>1, <2>2 DEF Read, Store, PublishModified, Erase, Assign, SaveConfigThrows, Reply, Rest
<1>4. \A u \in Tab : u # t => sess'[u] = sess[u]
  BY <1>2 DEF Take, Read, Store, PublishModified, Erase, Assign, SaveConfigThrows, Reply, Goto
<1>5. /\ sess[t].pc \notin {"config", "state", "announce"}
      /\ sess'[t].pc \notin {"config", "state", "announce"}
      /\ sess'[t].pc \in Switching => t \in Switchers
  <2>1. CASE Take(t)
    <3> DEFINE c == Head(up[t])
    <3>1. up[t] \in Seq(Request) /\ up[t] # <<>>
      BY <1>2, <2>1 DEF Take
    <3>2. c \in Request /\ 1 \in DOMAIN up[t] /\ c = up[t][1]
      BY <3>1
    <3>3. c.op \in Ops /\ (c.op = "switch" => t \in Switchers)
      BY <3>2 DEF SInv, Alone, Request
    <3>4. sess'[t].pc = FirstStep(c.op) /\ sess[t].pc = "idle"
      BY <1>2, <2>1 DEF Take
    <3>5. /\ FirstStep(c.op) \in {"read", "store", "erase", "assign"}
          /\ FirstStep(c.op) = "assign" => c.op = "switch"
      BY <3>3, InstanceAssumption DEF FirstStep
    <3> QED
      BY <3>3, <3>4, <3>5 DEF Switching
  <2>2. CASE Read(t)
    <3>1. PICK p \in UserDDL :
            LET v == files[p][sess[t].req.source]
            IN Goto(t, IF sess[t].req.op = "copy" /\ v # 0 THEN "store" ELSE "answer", v)
      BY <2>2 DEF Read
    <3>2. sess'[t].pc \in {"store", "answer"}
      BY <1>2, <3>1 DEF Goto, Session
    <3> QED
      BY <2>2, <3>2 DEF Read, At, Switching
  <2>3. CASE Store(t)
    <3>1. sess'[t].pc \in {"publish", "answer"}
      BY <1>2, <2>3 DEF Store, Goto, Session
    <3> QED
      BY <2>3, <3>1 DEF Store, At, Switching
  <2>4. CASE PublishModified(t) \/ Erase(t) \/ SaveConfigThrows(t)
    <3>1. sess'[t].pc = "answer"
      BY <1>2, <2>4 DEF PublishModified, Erase, SaveConfigThrows, Goto, Session
    <3> QED
      BY <2>4, <3>1 DEF PublishModified, Erase, SaveConfigThrows, At, Switching
  <2>5. CASE Assign(t)
    <3>1. sess'[t].pc = "assigned" /\ sess[t].pc = "assign"
      BY <1>2, <2>5 DEF Assign, Goto, Session, At
    <3> QED
      BY <3>1 DEF SInv, Alone, Switching
  <2>6. CASE Reply(t)
    <3>1. sess'[t].pc = "idle" /\ sess[t].pc = "answer"
      BY <1>2, <2>6 DEF Reply, At, Idle
    <3> QED
      BY <3>1 DEF Switching
  <2> QED
    BY <2>1, <2>2, <2>3, <2>4, <2>5, <2>6
<1>6. /\ Messages'
      /\ \A u \in Tab : WillKnow(down[u], known[u], saved) => WillKnow(down'[u], known'[u], saved)
  <2>1. CASE PublishModified(t)
    <3> DEFINE n == Modified(sess[t].req.file)
    <3>1. n \in Notice /\ n.kind # "state"
      <4>1. sess[t].req \in Request
        BY <2>1 DEF PublishModified, At, SInv, IInv, Working
      <4>2. sess[t].req.file \in File
        BY <4>1 DEF Request
      <4> QED
        BY <4>2, NoticeOK
    <3>2. Publish(n)
      BY <2>1 DEF PublishModified
    <3> HIDE DEF n
    <3>3. Messages'
      BY <1>2, <3>1, <3>2, PublishOK DEF SInv
    <3> QED
      BY <1>2, <3>1, <3>2, <3>3, OtherNotice DEF SInv, Publish
  <2>2. CASE Reply(t)
    <3> DEFINE n == Answer(sess[t].req.op, sess[t].req.file, sess[t].val)
    <3>1. n \in Notice /\ n.kind # "state"
      <4>1. sess[t].req \in Request
        BY <2>2 DEF Reply, At, SInv, IInv, Working
      <4>2. sess[t].req.file \in File /\ sess[t].req.op \in Ops
        BY <4>1 DEF Request
      <4>3. sess[t].val \in Nat
        BY <1>2 DEF Session
      <4> QED
        BY <4>2, <4>3, NoticeOK
    <3>2. down' = [down EXCEPT ![t] = Append(@, n)]
      BY <2>2 DEF Reply
    <3> HIDE DEF n
    <3>3. Append(down[t], n) \in Seq(Notice) /\ down \in [Tab -> Seq(Notice)]
      BY <3>1 DEF SInv, Messages
    <3>4. Messages'
      BY <1>2, <3>2, <3>3 DEF SInv, Messages
    <3>5. down'[t] = Append(down[t], n) /\ \A u \in Tab : u # t => down'[u] = down[u]
      BY <3>2, <3>3
    <3> QED
      BY <1>2, <3>1, <3>4, <3>5, OtherNotice DEF SInv
  <2>3. CASE down' = down
    BY <1>2, <2>3 DEF SInv, Messages
  <2> QED
    BY <2>1, <2>2, <2>3 DEF Take, Read, Store, Erase, Assign, SaveConfigThrows
<1> QED
  BY <1>1, <1>2, <1>3, <1>4, <1>5, <1>6, PlainStep DEF SInv

\* The steps of a switch.
LEMMA SwitchSettles ==
  ASSUME SInv, OneSwitcher, NEW t \in Tab,
         Assigned(t) \/ SetConfig(t) \/ SaveConfig(t) \/ CreateState(t) \/ PublishState(t)
  PROVE  SInv'
<1>1. IInv' /\ IInv
  BY SessionStepOK DEF SessionStep, SInv
<1>2. UNCHANGED <<known, up>> /\ sess \in [Tab -> Session]
  BY DEF Assigned, SetConfig, SaveConfig, CreateState, PublishState, Rest, SInv, IInv, Typed
<1>3. /\ t \in Switchers
      /\ \A u \in Tab : u # t => sess'[u] = sess[u] /\ sess[u].pc \notin Switching
  <2>1. sess[t].pc \in Switching
    BY DEF Assigned, SetConfig, SaveConfig, CreateState, PublishState, At, Switching
  <2>2. \A u \in Tab : u # t => sess'[u] = sess[u]
    BY <1>2 DEF Assigned, SetConfig, SaveConfig, CreateState, PublishState, Goto
  <2> QED
    BY <2>1, <2>2 DEF SInv, Alone, OneSwitcher
<1>4. Alone'
  BY <1>2, <1>3 DEF SInv, Alone
<1>5. CASE Assigned(t)
  <2>1. UNCHANGED <<config, saved, down>>
    BY <1>5 DEF Assigned
  <2>2. sess[t].pc = "assigned" /\ sess'[t].pc = "config"
    BY <1>2, <1>5 DEF Assigned, At, Goto, Session
  <2>3. Messages'
    BY <1>2, <2>1 DEF SInv, Messages
  <2>4. Followed'
    BY <1>3, <2>2 DEF Followed, Switching
  <2>5. Announced'
    BY <1>2, <1>3, <2>1, <2>2 DEF SInv, Announced, Switching
  <2> QED
    BY <1>1, <1>4, <2>3, <2>4, <2>5 DEF SInv
<1>6. CASE SetConfig(t)
  <2>1. UNCHANGED <<current, saved, down>> /\ sess[t].pc = "config" /\ config' \in UserDDL
    BY <1>6 DEF SetConfig, At
  <2>2. config' = current
    BY <2>1, ReadsCurrent
  <2>3. sess'[t].pc = "save"
    BY <1>2, <1>6 DEF SetConfig, Goto, Session
  <2>4. Messages'
    BY <1>2, <2>1 DEF SInv, Messages
  <2>5. Followed'
    BY <1>3, <2>1, <2>2, <2>3 DEF Followed, Switching
  <2>6. Announced'
    BY <1>2, <1>3, <2>1, <2>3 DEF SInv, Announced, Switching
  <2> QED
    BY <1>1, <1>4, <2>4, <2>5, <2>6 DEF SInv
<1>7. CASE SaveConfig(t)
  <2>1. UNCHANGED <<current, config, down>> /\ sess[t].pc = "save" /\ saved' = config
    BY <1>7 DEF SaveConfig, At
  <2>2. sess'[t].pc = "state"
    BY <1>2, <1>7 DEF SaveConfig, Goto, Session
  <2>3. Messages'
    BY <1>2, <2>1 DEF SInv, Messages
  <2>4. config = current
    BY <1>3, <2>1 DEF SInv, Followed, Switching
  <2>5. Followed'
    BY <1>3, <2>1, <2>2, <2>4 DEF Followed, Switching
  <2>6. Announced'
    BY <2>2 DEF Announced
  <2> QED
    BY <1>1, <1>4, <2>3, <2>5, <2>6 DEF SInv
<1>8. CASE CreateState(t)
  <2>1. UNCHANGED <<current, config, saved, down>> /\ sess[t].pc = "state"
    BY <1>8 DEF CreateState, At
  <2>2. PICK p \in UserDDL : sess' = [sess EXCEPT ![t].pc = "announce", ![t].project = p]
    BY <1>8 DEF CreateState
  <2>3. p = current
    BY <2>1, <2>2, ReadsCurrent
  <2>4. sess'[t].pc = "announce" /\ sess'[t].project = current
    BY <1>2, <2>2, <2>3 DEF Session
  <2>5. Messages'
    BY <1>2, <2>1 DEF SInv, Messages
  <2>6. saved = config /\ config = current
    BY <1>3, <2>1 DEF SInv, Followed, Switching
  <2>7. Followed'
    BY <1>3, <2>1, <2>4, <2>6 DEF Followed, Switching
  <2>8. Announced'
    BY <2>4 DEF Announced
  <2> QED
    BY <1>1, <1>4, <2>5, <2>7, <2>8 DEF SInv
<1>9. CASE PublishState(t)
  <2> DEFINE n == State(sess[t].project)
  <2>1. /\ UNCHANGED <<current, config, saved>> /\ sess[t].pc = "announce" /\ Publish(n)
    BY <1>9 DEF PublishState, At
  <2>2. sess'[t].pc = "answer"
    BY <1>2, <1>9 DEF PublishState, Goto, Session
  <2>3. config = current /\ saved = config /\ sess[t].project = current
    BY <1>3, <2>1 DEF SInv, Followed, Switching
  <2>4. n \in Notice /\ n.kind = "state" /\ n.project = saved
    <3>1. saved \in Archive
      BY <1>1 DEF IInv, Typed
    <3> QED
      BY <2>3, <3>1, NoticeOK
  <2> HIDE DEF n
  <2>5. Messages'
    BY <1>2, <2>1, <2>4, PublishOK DEF SInv
  <2>6. \A u \in Tab : WillKnow(down'[u], known'[u], saved)
    <3> SUFFICES ASSUME NEW u \in Tab PROVE WillKnow(down'[u], known'[u], saved)
      OBVIOUS
    <3>1. down[u] \in Seq(Notice) /\ down'[u] = Append(down[u], n)
      BY <2>1 DEF SInv, Messages, Publish
    <3> QED
      BY <2>4, <3>1, KnowAppend
  <2>7. Followed'
    BY <1>3, <2>1, <2>2, <2>3 DEF Followed, Switching
  <2>8. Announced'
    BY <2>1, <2>6 DEF Announced
  <2> QED
    BY <1>1, <1>4, <2>5, <2>7, <2>8 DEF SInv
<1> QED
  BY <1>5, <1>6, <1>7, <1>8, <1>9

LEMMA NextSInv == OneSwitcher /\ SInv /\ [Next]_vars => SInv'
<1> SUFFICES ASSUME OneSwitcher, SInv, [Next]_vars PROVE SInv'
  OBVIOUS
<1>1. IInv' /\ sess \in [Tab -> Session] /\ up \in [Tab -> Seq(Request)]
  BY NextIInv DEF SInv, IInv, Typed
<1>2. ASSUME NEW t \in Tab, NEW c \in Request, Ask(t, c) PROVE SInv'
  <2>1. UNCHANGED <<current, config, saved, sess, down, known>>
    BY <1>2 DEF Ask, server
  <2>2. up' = [up EXCEPT ![t] = Append(@, c)] /\ (c.op = "switch" => t \in Switchers)
    BY <1>2 DEF Ask
  <2>3. \A u \in Tab : \A i \in DOMAIN up'[u] : up'[u][i].op = "switch" => u \in Switchers
    <3> SUFFICES ASSUME NEW u \in Tab, NEW i \in DOMAIN up'[u], up'[u][i].op = "switch"
                 PROVE  u \in Switchers
      OBVIOUS
    <3>1. CASE u = t
      <4>1. up'[t] = Append(up[t], c) /\ up[t] \in Seq(Request)
        BY <1>1, <2>2
      <4>2. (i \in DOMAIN up[t] /\ up'[t][i] = up[t][i]) \/ up'[t][i] = c
        BY <3>1, <4>1
      <4> QED
        BY <2>2, <3>1, <4>2 DEF SInv, Alone
    <3>2. CASE u # t
      BY <1>1, <2>2, <3>2 DEF SInv, Alone
    <3> QED
      BY <3>1, <3>2
  <2>4. Messages'
    BY <2>1 DEF SInv, Messages
  <2> QED
    BY <1>1, <2>1, <2>3, <2>4, PlainStep DEF SInv
<1>3. ASSUME NEW t \in Tab, SessionStep(t) PROVE SInv'
  BY <1>3, FileStepSettles, SwitchSettles DEF SessionStep
<1>4. ASSUME NEW t \in Tab, Receive(t) PROVE SInv'
  <2> DEFINE n == Head(down[t])
  <2>1. UNCHANGED <<current, config, saved, sess, up>>
    BY <1>4 DEF Receive, server
  <2>2. /\ down[t] # <<>> /\ down[t] \in Seq(Notice) /\ down \in [Tab -> Seq(Notice)]
        /\ known \in [Tab -> Archive]
    BY <1>4 DEF Receive, SInv, Messages
  <2>3. n \in Notice /\ Tail(down[t]) \in Seq(Notice)
    BY <2>2
  <2>4. /\ known' = IF n.kind = "state" THEN [known EXCEPT ![t] = n.project] ELSE known
        /\ down' = [down EXCEPT ![t] = Tail(@)]
    BY <1>4 DEF Receive
  <2>5. n.project \in Archive
    BY <2>3 DEF Notice
  <2> HIDE DEF n
  <2>6. Messages'
    BY <2>2, <2>3, <2>4, <2>5 DEF Messages
  <2>7. /\ known'[t] = IF n.kind = "state" THEN n.project ELSE known[t]
        /\ down'[t] = Tail(down[t])
        /\ \A u \in Tab : u # t => known'[u] = known[u] /\ down'[u] = down[u]
    BY <2>2, <2>4
  <2>8. WillKnow(down[t], known[t], saved) => WillKnow(down'[t], known'[t], saved)
    BY <2>2, <2>7, KnowTail DEF n
  <2>9. \A u \in Tab : WillKnow(down[u], known[u], saved) => WillKnow(down'[u], known'[u], saved)
    BY <2>7, <2>8
  <2>10. \A u \in Tab : \A i \in DOMAIN up'[u] : up'[u][i].op = "switch" => u \in Switchers
    BY <2>1 DEF SInv, Alone
  <2> QED
    BY <1>1, <2>1, <2>6, <2>9, <2>10, PlainStep DEF SInv
<1>5. CASE Restart
  <2> DEFINE n == State(saved)
  <2>1. /\ current' = saved /\ config' = saved /\ saved' = saved /\ known' = known
        /\ sess' = [t \in Tab |-> Idle] /\ down' = [t \in Tab |-> <<n>>]
        /\ up' \in {up, [t \in Tab |-> <<>>]}
    BY <1>5 DEF Restart
  <2>2. n \in Notice /\ n.kind = "state" /\ n.project = saved
    <3>1. saved \in Archive
      BY DEF SInv, IInv, Typed
    <3> QED
      BY <3>1, NoticeOK
  <2> HIDE DEF n
  <2>3. Messages'
    BY <2>1, <2>2 DEF SInv, Messages
  <2>4. \A t \in Tab : sess'[t].pc = "idle"
    BY <2>1 DEF Idle
  <2>5. Alone'
    BY <2>1, <2>4 DEF SInv, Alone, Switching
  <2>6. Followed'
    BY <2>1, <2>4 DEF Followed
  <2>7. Announced'
    <3>1. \A k : WillKnow(<<n>>, k, saved)
      BY <2>2 DEF WillKnow
    <3> QED
      BY <2>1, <3>1 DEF Announced
  <2> QED
    BY <1>1, <2>3, <2>5, <2>6, <2>7 DEF SInv
<1>6. CASE UNCHANGED vars
  <2>1. UNCHANGED <<current, config, saved, sess, down, known, up>>
    BY <1>6 DEF vars, server
  <2>2. Messages' /\ Alone' /\ Followed' /\ Announced'
    BY <2>1 DEF SInv, Messages, Alone, Followed, Announced
  <2> QED
    BY <1>1, <2>2 DEF SInv
<1> QED
  BY <1>2, <1>3, <1>4, <1>5, <1>6 DEF Next

\* When one tab does all the switching and nothing is under way, every tab was last
\* told the project that is current and a restarted server would open, through torn
\* reads, restarts and .config files that could not be written (interface.cpp:625).
\* The hypothesis is one on the constants: no two tabs switch.
THEOREM OneSwitcherSettles == ASSUME OneSwitcher PROVE Spec => []Settled
<1>1. SInv => Settled
  <2> SUFFICES ASSUME SInv, Quiet, saved = config
               PROVE  saved = current /\ \A t \in Tab : known[t] = current
    BY DEF Settled
  <2>1. \A t \in Tab : sess[t].pc = "idle" /\ down[t] = <<>>
    BY DEF Quiet
  <2>2. config = current
    BY <2>1 DEF SInv, Followed
  <2>3. \A t \in Tab : WillKnow(down[t], known[t], saved)
    BY <2>1 DEF SInv, Announced
  <2>4. \A t \in Tab : known[t] = saved
    BY <2>1, <2>3 DEF WillKnow
  <2> QED
    BY <2>2, <2>4
<1>2. SInv /\ [Next]_vars => SInv'
  BY NextSInv
<1> QED
  BY <1>1, <1>2, InitSInv, PTL DEF Spec
-----------------------------------------------------------------------------
(***************************************************************************)
(* Films: for all conversions, names and numbers of pictures, a film in    *)
(* the project is whole.                                                   *)
(***************************************************************************)
\* A step of one conversion leaves the others and their sessions alone, or
\* drops sessions idle for over a minute.
OnlyOwn(c) ==
  /\ \A d \in Conversion \ {c} : conv'[d] = conv[d]
  /\ \A d \in Conversion \ {c} : d \in DOMAIN sessions' => Known(d) /\ sessions'[d] = sessions[d]
  /\ \A d \in Conversion \ {c} : Known(d) /\ sessions[d].idle <= 1 => d \in DOMAIN sessions'

LEMMA OthersKeep ==
  ASSUME FilmsInv, NEW c \in Conversion, OnlyOwn(c), NEW d \in Conversion \ {c}
  PROVE  Collects(d)' /\ Loops(d)' /\ Holds(d)'
<1>1. FilmsTyped /\ Collects(d) /\ Loops(d) /\ Holds(d)
  BY DEF FilmsInv
<1>2. /\ conv'[d] = conv[d]
      /\ Known(d)' => Known(d) /\ sessions'[d] = sessions[d]
      /\ Known(d) /\ ~Known(d)' => ~(sessions[d].idle <= 1)
  BY DEF OnlyOwn, Known
<1>3. Collects(d)'
  BY <1>1, <1>2 DEF Collects
<1>4. Loops(d)'
  BY <1>1, <1>2 DEF Loops, Known
<1>5. Holds(d)'
  <2>1. Known(d) => sessions[d].idle \in Nat
    BY <1>1 DEF FilmsTyped, Known, FilmSession
  <2>2. conv[d].waited \in 0..2
    BY <1>1 DEF FilmsTyped, Local
  <2> QED
    BY <1>1, <1>2, <2>1, <2>2 DEF Holds, Running
<1> QED
  BY <1>3, <1>4, <1>5

\* The films stay true if none is stored and the conversion ends rightly.
LEMMA FilmsStay ==
  ASSUME FilmsInv, NEW c \in Conversion, films' = films, conv[c].at # "done",
         \A d \in Conversion \ {c} : conv'[d] = conv[d],
         conv'[c].at \in {"refused", "gone"} => conv'[c].excused,
         conv'[c].at = "unfinished" => conv'[c].stop_req
  PROVE  FilmsWhole'
<1>1. \A f \in Name : films[f] # NoFilm =>
        \E d \in Conversion : /\ conv'[d].at = "done" /\ conv'[d].name = f
                              /\ films[f] = [i \in 1..conv'[d].length |-> <<d, i>>]
  <2> SUFFICES ASSUME NEW f \in Name, films[f] # NoFilm
               PROVE  \E d \in Conversion : /\ conv'[d].at = "done" /\ conv'[d].name = f
                                            /\ films[f] = [i \in 1..conv'[d].length |-> <<d, i>>]
    OBVIOUS
  <2>1. PICK d \in Conversion : /\ conv[d].at = "done" /\ conv[d].name = f
                                /\ films[f] = [i \in 1..conv[d].length |-> <<d, i>>]
    BY DEF FilmsInv, FilmsWhole
  <2>2. conv'[d] = conv[d]
    BY <2>1
  <2> QED
    BY <2>1, <2>2
<1>2. \A d \in Conversion : /\ conv'[d].at \in {"refused", "gone"} => conv'[d].excused
                            /\ conv'[d].at = "unfinished" => conv'[d].stop_req
  BY DEF FilmsInv, FilmsWhole
<1> QED
  BY <1>1, <1>2 DEF FilmsWhole

LEMMA Together ==
  ASSUME FilmsInv, NEW c \in Conversion, OnlyOwn(c), FilmsTyped', FilmsWhole',
         Collects(c)' /\ Loops(c)' /\ Holds(c)'
  PROVE  FilmsInv'
  BY OthersKeep DEF FilmsInv

\* What the steps of a loop need of the conversion and its session.
LEMMA LocalsChange ==
  ASSUME NEW l \in Local, NEW at \in Place \cup End, NEW w \in 0..2
  PROVE  [l EXCEPT !.at = at, !.waited = w] \in Local
  BY DEF Local

LEMMA PlaceChanges ==
  ASSUME NEW l \in Local, NEW at \in Place \cup End
  PROVE  [l EXCEPT !.at = at] \in Local
  BY DEF Local

LEMMA PictureSent ==
  ASSUME NEW l \in Local, NEW at \in Place \cup End, NEW n \in Nat \ {0}
  PROVE  [l EXCEPT !.at = at, !.i = n, !.waited = 0] \in Local
<1>1. 0 \in 0..2
  OBVIOUS
<1> QED
  BY <1>1 DEF Local

\* The conversion's locals change, and nothing else.
LEMMA LocalsTyped ==
  ASSUME FilmsTyped, NEW c \in Conversion, NEW l \in Local, conv' = [conv EXCEPT ![c] = l],
         UNCHANGED <<sessions, films>>
  PROVE  FilmsTyped' /\ conv'[c] = l /\ OnlyOwn(c)
<1>1. conv' \in [Conversion -> Local] /\ conv'[c] = l /\ \A d \in Conversion \ {c} : conv'[d] = conv[d]
  BY DEF FilmsTyped
<1> QED
  BY <1>1 DEF FilmsTyped, OnlyOwn, Known

LEMMA StartKeeps ==
  ASSUME FilmsFit, FilmsInv, NEW c \in Conversion, Start(c)
  PROVE  FilmsInv'
<1>1. FilmsTyped /\ Collects(c) /\ Loops(c) /\ Holds(c) /\ conv[c] \in Local
  BY DEF FilmsInv, FilmsTyped
<1>p. PICK f \in Name, n \in 1..MaxPictures :
        conv' = [conv EXCEPT ![c] = [conv[c] EXCEPT !.at = "create", !.name = f, !.length = n]]
  BY DEF Start
<1>2. PICK l : /\ l = [conv[c] EXCEPT !.at = "create", !.name = f, !.length = n]
               /\ conv' = [conv EXCEPT ![c] = l]
  BY <1>p
<1>3. l \in Local
  <2>1. "create" \in Place \cup End /\ n \in Nat
    BY DEF FilmsFit, Place
  <2> QED
    BY <1>1, <1>2, <2>1 DEF Local
<1>4. FilmsTyped' /\ conv'[c] = l /\ OnlyOwn(c) /\ UNCHANGED <<sessions, films>>
  BY <1>1, <1>2, <1>3, LocalsTyped DEF Start
<1>5. FilmsWhole'
  <2>1. /\ conv[c].at # "done"
        /\ l.at \in {"refused", "gone"} => l.excused
        /\ l.at = "unfinished" => l.stop_req
    BY <1>1, <1>2 DEF Start, Holds, Running, Known, Local
  <2> QED
    BY <1>4, <2>1, FilmsStay DEF OnlyOwn
<1>6. Collects(c)'
  BY <1>1, <1>2, <1>4, FilmsFit DEF Start, Collects, Loops, Known, Local, FilmsFit
<1>7. Loops(c)'
  BY <1>1, <1>2, <1>4 DEF Start, Collects, Loops, Local, Known
<1>8. Holds(c)'
  BY <1>1, <1>2, <1>4 DEF Start, Holds, Known, Running, Local
<1> QED
  BY <1>4, <1>5, <1>6, <1>7, <1>8, Together

LEMMA StopKeeps ==
  ASSUME FilmsFit, FilmsInv, NEW c \in Conversion, Stop(c)
  PROVE  FilmsInv'
<1>1. FilmsTyped /\ Collects(c) /\ Loops(c) /\ Holds(c) /\ conv[c] \in Local
  BY DEF FilmsInv, FilmsTyped
<1>2. PICK l : l = [conv[c] EXCEPT !.stop_req = TRUE] /\ conv' = [conv EXCEPT ![c] = l]
  BY DEF Stop
<1>3. l \in Local
  BY <1>1, <1>2 DEF Local
<1>4. FilmsTyped' /\ conv'[c] = l /\ OnlyOwn(c) /\ UNCHANGED <<sessions, films>>
  BY <1>1, <1>2, <1>3, LocalsTyped DEF Stop
<1>5. FilmsWhole'
  <2>1. /\ conv[c].at # "done"
        /\ l.at \in {"refused", "gone"} => l.excused
        /\ l.at = "unfinished" => l.stop_req
    BY <1>1, <1>2 DEF Stop, Holds, Running, Known, Local
  <2> QED
    BY <1>4, <2>1, FilmsStay DEF OnlyOwn
<1>6. Collects(c)'
  BY <1>1, <1>2, <1>4, FilmsFit DEF Stop, Collects, Loops, Known, Local, FilmsFit
<1>7. Loops(c)'
  BY <1>1, <1>2, <1>4 DEF Stop, Collects, Loops, Local, Known
<1>8. Holds(c)'
  BY <1>1, <1>2, <1>4 DEF Stop, Holds, Known, Running, Local
<1> QED
  BY <1>4, <1>5, <1>6, <1>7, <1>8, Together

LEMMA ReadKeeps ==
  ASSUME FilmsFit, FilmsInv, NEW c \in Conversion, ReadPicture(c)
  PROVE  FilmsInv'
<1>1. FilmsTyped /\ Collects(c) /\ Loops(c) /\ Holds(c) /\ conv[c] \in Local
  BY DEF FilmsInv, FilmsTyped
<1>p. PICK at \in {"close", "put"} :
        at = IF conv[c].stop_req \/ conv[c].i > conv[c].length THEN "close" ELSE "put"
  OBVIOUS
<1>2. PICK l : /\ at = (IF conv[c].stop_req \/ conv[c].i > conv[c].length THEN "close" ELSE "put")
               /\ l = [conv[c] EXCEPT !.at = at] /\ conv' = [conv EXCEPT ![c] = l]
  BY <1>p DEF ReadPicture
<1>3. l \in Local
  <2>1. at \in Place \cup End
    BY DEF Place
  <2>2. [conv[c] EXCEPT !.at = at] \in Local
    BY <1>1, <2>1, PlaceChanges
  <2> QED
    BY <1>2, <2>2
<1>4. FilmsTyped' /\ conv'[c] = l /\ OnlyOwn(c) /\ UNCHANGED <<sessions, films>>
  BY <1>1, <1>2, <1>3, LocalsTyped DEF ReadPicture
<1>5. FilmsWhole'
  <2>1. /\ conv[c].at # "done"
        /\ l.at \in {"refused", "gone"} => l.excused
        /\ l.at = "unfinished" => l.stop_req
    BY <1>1, <1>2 DEF ReadPicture, Holds, Running, Known, Local
  <2> QED
    BY <1>4, <2>1, FilmsStay DEF OnlyOwn
<1>6. Collects(c)'
  BY <1>1, <1>2, <1>4, FilmsFit DEF ReadPicture, Collects, Loops, Known, Local, FilmsFit
<1>7. Loops(c)'
  BY <1>1, <1>2, <1>4 DEF ReadPicture, Collects, Loops, Local, Known
<1>8. Holds(c)'
  BY <1>1, <1>2, <1>4 DEF ReadPicture, Holds, Known, Running, Local
<1> QED
  BY <1>4, <1>5, <1>6, <1>7, <1>8, Together

LEMMA PutRefusedKeeps ==
  ASSUME FilmsFit, FilmsInv, NEW c \in Conversion, PutRefused(c)
  PROVE  FilmsInv'
<1>1. FilmsTyped /\ Collects(c) /\ Loops(c) /\ Holds(c) /\ conv[c] \in Local
  BY DEF FilmsInv, FilmsTyped
<1>2. PICK l : l = [conv[c] EXCEPT !.at = "refused", !.waited = 0] /\ conv' = [conv EXCEPT ![c] = l]
  BY DEF PutRefused, Goes
<1>3. l \in Local
  <2>1. /\ "refused" \in Place \cup End
        /\ 0 \in 0..2
    BY DEF Place, End
  <2> QED
    BY <1>1, <1>2, <2>1, LocalsChange
<1>4. FilmsTyped' /\ conv'[c] = l /\ OnlyOwn(c) /\ UNCHANGED <<sessions, films>>
  BY <1>1, <1>2, <1>3, LocalsTyped DEF PutRefused
<1>5. FilmsWhole'
  <2>1. /\ conv[c].at # "done"
        /\ l.at \in {"refused", "gone"} => l.excused
        /\ l.at = "unfinished" => l.stop_req
    BY <1>1, <1>2 DEF PutRefused, Holds, Running, Known, Local
  <2> QED
    BY <1>4, <2>1, FilmsStay DEF OnlyOwn
<1>6. Collects(c)'
  BY <1>1, <1>2, <1>4, FilmsFit DEF PutRefused, Collects, Loops, Known, Local, FilmsFit
<1>7. Loops(c)'
  BY <1>1, <1>2, <1>4 DEF PutRefused, Collects, Loops, Local, Known
<1>8. Holds(c)'
  BY <1>1, <1>2, <1>4 DEF PutRefused, Holds, Known, Running, Local
<1> QED
  BY <1>4, <1>5, <1>6, <1>7, <1>8, Together

LEMMA CloseGoneKeeps ==
  ASSUME FilmsFit, FilmsInv, NEW c \in Conversion, CloseGone(c)
  PROVE  FilmsInv'
<1>1. FilmsTyped /\ Collects(c) /\ Loops(c) /\ Holds(c) /\ conv[c] \in Local
  BY DEF FilmsInv, FilmsTyped
<1>2. PICK l : l = [conv[c] EXCEPT !.at = "gone", !.waited = 0] /\ conv' = [conv EXCEPT ![c] = l]
  BY DEF CloseGone, Goes
<1>3. l \in Local
  <2>1. /\ "gone" \in Place \cup End
        /\ 0 \in 0..2
    BY DEF Place, End
  <2> QED
    BY <1>1, <1>2, <2>1, LocalsChange
<1>4. FilmsTyped' /\ conv'[c] = l /\ OnlyOwn(c) /\ UNCHANGED <<sessions, films>>
  BY <1>1, <1>2, <1>3, LocalsTyped DEF CloseGone
<1>5. FilmsWhole'
  <2>1. /\ conv[c].at # "done"
        /\ l.at \in {"refused", "gone"} => l.excused
        /\ l.at = "unfinished" => l.stop_req
    BY <1>1, <1>2 DEF CloseGone, Holds, Running, Known, Local
  <2> QED
    BY <1>4, <2>1, FilmsStay DEF OnlyOwn
<1>6. Collects(c)'
  BY <1>1, <1>2, <1>4, FilmsFit DEF CloseGone, Collects, Loops, Known, Local, FilmsFit
<1>7. Loops(c)'
  BY <1>1, <1>2, <1>4 DEF CloseGone, Collects, Loops, Local, Known
<1>8. Holds(c)'
  BY <1>1, <1>2, <1>4 DEF CloseGone, Holds, Known, Running, Local
<1> QED
  BY <1>4, <1>5, <1>6, <1>7, <1>8, Together

LEMMA ThrowsKeeps ==
  ASSUME FilmsFit, FilmsInv, NEW c \in Conversion, Throws(c)
  PROVE  FilmsInv'
<1>1. FilmsTyped /\ Collects(c) /\ Loops(c) /\ Holds(c) /\ conv[c] \in Local
  BY DEF FilmsInv, FilmsTyped
<1>2. PICK l : l = [conv[c] EXCEPT !.at = "thrown", !.waited = 0] /\ conv' = [conv EXCEPT ![c] = l]
  BY DEF Throws, Goes
<1>3. l \in Local
  <2>1. /\ "thrown" \in Place \cup End
        /\ 0 \in 0..2
    BY DEF Place, End
  <2> QED
    BY <1>1, <1>2, <2>1, LocalsChange
<1>4. FilmsTyped' /\ conv'[c] = l /\ OnlyOwn(c) /\ UNCHANGED <<sessions, films>>
  BY <1>1, <1>2, <1>3, LocalsTyped DEF Throws
<1>5. FilmsWhole'
  <2>1. /\ conv[c].at # "done"
        /\ l.at \in {"refused", "gone"} => l.excused
        /\ l.at = "unfinished" => l.stop_req
    BY <1>1, <1>2 DEF Throws, Holds, Running, Known, Local
  <2> QED
    BY <1>4, <2>1, FilmsStay DEF OnlyOwn
<1>6. Collects(c)'
  BY <1>1, <1>2, <1>4, FilmsFit DEF Throws, Collects, Loops, Known, Local, FilmsFit
<1>7. Loops(c)'
  BY <1>1, <1>2, <1>4 DEF Throws, Collects, Loops, Local, Known
<1>8. Holds(c)'
  BY <1>1, <1>2, <1>4 DEF Throws, Holds, Known, Running, Local
<1> QED
  BY <1>4, <1>5, <1>6, <1>7, <1>8, Together

LEMMA CreateKeeps ==
  ASSUME FilmsFit, FilmsInv, NEW c \in Conversion, Create(c)
  PROVE  FilmsInv'
<1>1. FilmsTyped /\ Collects(c) /\ Loops(c) /\ Holds(c) /\ conv[c] \in Local
  BY DEF FilmsInv, FilmsTyped
<1>2. PICK l : l = [conv[c] EXCEPT !.at = "read", !.waited = 0] /\ conv' = [conv EXCEPT ![c] = l]
  BY DEF Create, Goes
<1>3. PICK s \in FilmSession : s.name = conv[c].name /\ s.frames = conv[c].length /\ s.data = <<>> /\ s.idle = 0
  <2>1. [name |-> conv[c].name, frames |-> conv[c].length, data |-> <<>>, idle |-> 0] \in FilmSession
    BY <1>1 DEF Local, FilmSession
  <2> QED
    BY <2>1
<1>4. /\ conv' \in [Conversion -> Local] /\ conv'[c] = l
      /\ \A d \in Conversion \ {c} : conv'[d] = conv[d]
  <2>1. "read" \in Place \cup End /\ 0 \in 0..2
    BY DEF Place
  <2>2. l \in Local
    BY <1>1, <1>2, <2>1, LocalsChange
  <2> QED
    BY <1>1, <1>2, <2>2 DEF FilmsTyped
<1>5. /\ DOMAIN sessions' = {x \in DOMAIN sessions : sessions[x].idle <= 1} \cup {c}
      /\ \A d \in DOMAIN sessions' : d # c => sessions'[d] = sessions[d]
      /\ sessions'[c] = [name |-> conv[c].name, frames |-> conv[c].length, data |-> <<>>, idle |-> 0]
      /\ sessions' = [d \in DOMAIN sessions' |-> sessions'[d]]
  BY DEF Create
<1>6. OnlyOwn(c)
  BY <1>4, <1>5 DEF OnlyOwn, Known
<1>7. FilmsTyped'
  <2>1. sessions' \in [DOMAIN sessions' -> FilmSession]
    <3>1. sessions'[c] \in FilmSession
      BY <1>1, <1>5 DEF Local, FilmSession
    <3>2. \A d \in DOMAIN sessions' : sessions'[d] \in FilmSession
      BY <1>1, <1>5, <3>1 DEF FilmsTyped
    <3> QED
      BY <1>5, <3>2
  <2> QED
    BY <1>1, <1>4, <1>5, <2>1 DEF FilmsTyped, Create
<1>8. FilmsWhole'
  BY <1>1, <1>2, <1>4, FilmsStay DEF Create, Local
<1>9. Collects(c)'
  BY <1>1, <1>2, <1>4, <1>5 DEF Collects, Loops, Known, Local, Create
<1>10. Loops(c)'
  BY <1>1, <1>2, <1>4 DEF Loops, Local
<1>11. Holds(c)'
  BY <1>1, <1>2, <1>4, <1>5 DEF Holds, Known, Running, Local
<1> QED
  BY <1>6, <1>7, <1>8, <1>9, <1>10, <1>11, Together

LEMMA PutImageKeeps ==
  ASSUME FilmsFit, FilmsInv, NEW c \in Conversion, PutImage(c)
  PROVE  FilmsInv'
<1>1. /\ FilmsTyped /\ Collects(c) /\ Loops(c) /\ Holds(c) /\ conv[c] \in Local
      /\ c \in DOMAIN sessions /\ sessions[c] \in FilmSession /\ conv[c].at = "put"
  BY DEF FilmsInv, FilmsTyped, PutImage, Known
<1>p. PICK at \in {"close", "read"} : at = IF sessions[c].frames = 1 THEN "close" ELSE "read"
  OBVIOUS
<1>2. PICK l : /\ at = (IF sessions[c].frames = 1 THEN "close" ELSE "read")
               /\ l = [conv[c] EXCEPT !.at = at, !.i = conv[c].i + 1, !.waited = 0]
               /\ conv' = [conv EXCEPT ![c] = l]
  BY <1>p DEF PutImage
<1>3. /\ l \in Local /\ conv' \in [Conversion -> Local] /\ conv'[c] = l
      /\ \A d \in Conversion \ {c} : conv'[d] = conv[d]
  <2>1. at \in Place \cup End
    BY DEF Place
  <2>2. l \in Local
    <3>1. conv[c].i + 1 \in Nat \ {0}
      BY <1>1 DEF Local
    <3>2. [conv[c] EXCEPT !.at = at, !.i = conv[c].i + 1, !.waited = 0] \in Local
      BY <1>1, <2>1, <3>1, PictureSent
    <3> QED
      BY <1>2, <3>2
  <2> QED
    BY <1>1, <1>2, <2>2 DEF FilmsTyped
<1>4. PICK more : /\ more = Append(sessions[c].data, <<c, conv[c].i>>) /\ more \in Seq(Picture)
                  /\ Len(more) = conv[c].i /\ \A k \in 1..conv[c].i : more[k] = <<c, k>>
  <2>1. sessions[c].data \in Seq(Picture) /\ <<c, conv[c].i>> \in Picture
    BY <1>1 DEF FilmSession, Local, Picture
  <2>2. Len(sessions[c].data) = conv[c].i - 1 /\ conv[c].i \in Nat \ {0}
    BY <1>1 DEF Collects, Known, Local
  <2>3. \A k \in 1..conv[c].i - 1 : sessions[c].data[k] = <<c, k>>
    BY <1>1, <2>2 DEF Collects, Known
  <2>4. \A k \in 1..conv[c].i : k = conv[c].i \/ k \in 1..conv[c].i - 1
    BY <2>2
  <2>5. PICK more : more = Append(sessions[c].data, <<c, conv[c].i>>)
    OBVIOUS
  <2>6. /\ more \in Seq(Picture) /\ Len(more) = Len(sessions[c].data) + 1
        /\ \A k \in 1..Len(sessions[c].data) : more[k] = sessions[c].data[k]
        /\ more[Len(sessions[c].data) + 1] = <<c, conv[c].i>>
    BY <2>1, <2>5, AppendProperties
  <2>7. Len(more) = conv[c].i /\ more[conv[c].i] = <<c, conv[c].i>>
    BY <2>2, <2>6
  <2>8. \A k \in 1..conv[c].i : more[k] = <<c, k>>
    BY <2>2, <2>3, <2>4, <2>6, <2>7
  <2> QED
    BY <2>5, <2>6, <2>7, <2>8
<1>5. (sessions[c].frames + Wrap - 1) % Wrap = conv[c].length - conv[c].i
  <2>1. /\ sessions[c].frames = conv[c].length - (conv[c].i - 1)
        /\ conv[c].i <= conv[c].length /\ conv[c].length <= MaxPictures
        /\ conv[c].i \in Nat \ {0} /\ conv[c].length \in Nat
    BY <1>1 DEF Collects, Loops, Known, Local
  <2>2. MaxPictures \in Nat /\ Wrap \in Nat /\ MaxPictures < Wrap
    BY DEF FilmsFit
  <2>3. PICK n \in Nat : n = conv[c].length - conv[c].i /\ n < Wrap
    BY <2>1, <2>2
  <2>4. sessions[c].frames + Wrap - 1 = n + Wrap
    BY <2>1, <2>2, <2>3
  <2>5. (n + Wrap) % Wrap = n
    BY <2>2, <2>3
  <2> QED
    BY <2>3, <2>4, <2>5
<1>6. PICK s \in FilmSession : /\ s.name = sessions[c].name /\ s.data = more /\ s.idle = 0
                           /\ s.frames = conv[c].length - conv[c].i
                           /\ sessions' = [sessions EXCEPT ![c] = s]
  <2>1. conv[c].length - conv[c].i \in Nat
    BY <1>1 DEF Loops, Local
  <2>2. PICK s : s = [sessions[c] EXCEPT !.data = more, !.idle = 0, !.frames = conv[c].length - conv[c].i]
    OBVIOUS
  <2>3. s \in FilmSession
    BY <1>1, <1>4, <2>1, <2>2 DEF FilmSession
  <2>4. sessions' = [sessions EXCEPT ![c] = s]
    BY <1>4, <1>5, <2>2 DEF PutImage
  <2> QED
    BY <1>1, <2>2, <2>3, <2>4 DEF FilmSession
<1>7. /\ sessions' \in [DOMAIN sessions -> FilmSession] /\ DOMAIN sessions' = DOMAIN sessions
      /\ sessions'[c] = s /\ \A d \in DOMAIN sessions \ {c} : sessions'[d] = sessions[d]
  BY <1>1, <1>6 DEF FilmsTyped
<1>8. OnlyOwn(c)
  BY <1>3, <1>7 DEF OnlyOwn, Known
<1>9. FilmsTyped'
  BY <1>1, <1>3, <1>7 DEF FilmsTyped, PutImage
<1>10. FilmsWhole'
  BY <1>1, <1>2, <1>3, FilmsStay DEF PutImage, Local
<1>11. Collects(c)'
  <2>1. /\ conv[c].i <= conv[c].length /\ conv[c].length <= MaxPictures
        /\ conv[c].i \in Nat \ {0} /\ conv[c].length \in Nat
        /\ sessions[c].name = conv[c].name
    BY <1>1 DEF Collects, Loops, Known, Local
  <2>2. l.i = conv[c].i + 1 /\ l.length = conv[c].length /\ l.name = conv[c].name
    BY <1>1, <1>2 DEF Local
  <2>3. sessions'[c].data = more /\ sessions'[c].name = conv[c].name
        /\ sessions'[c].frames = conv[c].length - conv[c].i
    BY <1>6, <1>7, <2>1
  <2>4. conv'[c].i <= conv'[c].length + 1 /\ conv'[c].length <= MaxPictures
    BY <1>3, <2>1, <2>2
  <2>5. sessions'[c].name = conv'[c].name /\ Len(sessions'[c].data) = conv'[c].i - 1
    BY <1>3, <1>4, <2>1, <2>2, <2>3
  <2>6. \A k \in 1..Len(sessions'[c].data) : sessions'[c].data[k] = <<c, k>>
    BY <1>4, <2>3
  <2>7. sessions'[c].frames = conv'[c].length - Len(sessions'[c].data)
    BY <1>3, <1>4, <2>2, <2>3
  <2> QED
    BY <2>4, <2>5, <2>6, <2>7 DEF Collects
<1>12. Loops(c)'
  <2>1. sessions[c].frames = conv[c].length - (conv[c].i - 1)
    BY <1>1 DEF Collects, Known
  <2> QED
    BY <1>1, <1>2, <1>3, <2>1 DEF Loops, Local
<1>13. Holds(c)'
  BY <1>1, <1>2, <1>3, <1>6, <1>7 DEF Holds, Known, Running, Local
<1> QED
  BY <1>8, <1>9, <1>10, <1>11, <1>12, <1>13, Together

LEMMA CloseKeeps ==
  ASSUME FilmsFit, FilmsInv, NEW c \in Conversion, Close(c)
  PROVE  FilmsInv'
<1>1. /\ FilmsTyped /\ Collects(c) /\ Loops(c) /\ Holds(c) /\ conv[c] \in Local
      /\ c \in DOMAIN sessions /\ sessions[c] \in FilmSession /\ conv[c].at = "close"
  BY DEF FilmsInv, FilmsTyped, Close, Known
<1>p. PICK at \in {"unfinished", "done"} : at = IF sessions[c].frames # 0 THEN "unfinished" ELSE "done"
  OBVIOUS
<1>2. PICK l : /\ at = (IF sessions[c].frames # 0 THEN "unfinished" ELSE "done")
               /\ l = [conv[c] EXCEPT !.at = at, !.waited = 0]
               /\ conv' = [conv EXCEPT ![c] = l]
  BY <1>p DEF Close, Goes
<1>3. /\ l \in Local /\ conv' \in [Conversion -> Local] /\ conv'[c] = l
      /\ \A d \in Conversion \ {c} : conv'[d] = conv[d]
  <2>1. at \in Place \cup End /\ 0 \in 0..2
    BY DEF End
  <2>2. l \in Local
    BY <1>1, <1>2, <2>1, LocalsChange
  <2> QED
    BY <1>1, <1>2, <2>2 DEF FilmsTyped
<1>4. /\ sessions' \in [DOMAIN sessions' -> FilmSession] /\ DOMAIN sessions' = DOMAIN sessions \ {c}
      /\ \A d \in DOMAIN sessions' : sessions'[d] = sessions[d]
  BY <1>1 DEF FilmsTyped, Close, Forget
<1>5. OnlyOwn(c)
  BY <1>3, <1>4 DEF OnlyOwn, Known
<1>6. /\ sessions[c].data \in Seq(Picture) /\ sessions[c].name = conv[c].name /\ conv[c].name \in Name
      /\ Len(sessions[c].data) = conv[c].i - 1
      /\ \A k \in 1..Len(sessions[c].data) : sessions[c].data[k] = <<c, k>>
      /\ sessions[c].frames = conv[c].length - (conv[c].i - 1)
      /\ conv[c].i \in Nat \ {0} /\ conv[c].length \in Nat
  BY <1>1 DEF Collects, Known, FilmSession, Local
<1>7. FilmsTyped'
  BY <1>1, <1>3, <1>4, <1>6 DEF FilmsTyped, Close
<1>8. FilmsWhole'
  <2>1. CASE sessions[c].frames # 0
    <3>1. films' = films /\ l.at = "unfinished"
      BY <1>1, <1>2, <2>1 DEF Close, Local
    <3>2. conv[c].stop_req /\ l.stop_req = conv[c].stop_req
      BY <1>1, <1>2, <1>6, <2>1 DEF Loops, Local
    <3> QED
      BY <1>1, <1>3, <3>1, <3>2, FilmsStay
  <2>2. CASE sessions[c].frames = 0
    <3>1. films' = [films EXCEPT ![conv[c].name] = sessions[c].data]
      BY <1>6, <2>2 DEF Close
    <3>2. l.at = "done" /\ l.name = conv[c].name /\ l.length = conv[c].length
      BY <1>1, <1>2, <2>2 DEF Local
    <3>3. sessions[c].data = [k \in 1..conv[c].length |-> <<c, k>>]
      <4>1. Len(sessions[c].data) = conv[c].length
        BY <1>6, <2>2
      <4>2. sessions[c].data \in [1..conv[c].length -> Picture]
        BY <1>6, <4>1, LenProperties
      <4> QED
        BY <1>6, <4>1, <4>2
    <3>4. \A f \in Name : films'[f] # NoFilm =>
            \E d \in Conversion : /\ conv'[d].at = "done" /\ conv'[d].name = f
                                  /\ films'[f] = [k \in 1..conv'[d].length |-> <<d, k>>]
      <4> SUFFICES ASSUME NEW f \in Name, films'[f] # NoFilm
                   PROVE  \E d \in Conversion : /\ conv'[d].at = "done" /\ conv'[d].name = f
                                                /\ films'[f] = [k \in 1..conv'[d].length |-> <<d, k>>]
        OBVIOUS
      <4>1. CASE f = conv[c].name
        <5>1. films'[f] = [k \in 1..conv'[c].length |-> <<c, k>>]
          BY <1>1, <1>3, <3>1, <3>2, <3>3, <4>1 DEF FilmsTyped
        <5> QED
          BY <1>3, <3>2, <4>1, <5>1
      <4>2. CASE f # conv[c].name
        <5>1. films'[f] = films[f]
          BY <1>1, <3>1, <4>2 DEF FilmsTyped
        <5>2. PICK d \in Conversion : /\ conv[d].at = "done" /\ conv[d].name = f
                                      /\ films[f] = [k \in 1..conv[d].length |-> <<d, k>>]
          BY <5>1 DEF FilmsInv, FilmsWhole
        <5>3. conv'[d] = conv[d]
          BY <1>1, <1>3, <5>2
        <5> QED
          BY <5>1, <5>2, <5>3
      <4> QED
        BY <4>1, <4>2
    <3>5. \A d \in Conversion : /\ conv'[d].at \in {"refused", "gone"} => conv'[d].excused
                                /\ conv'[d].at = "unfinished" => conv'[d].stop_req
      BY <1>3, <3>2 DEF FilmsInv, FilmsWhole
    <3> QED
      BY <3>4, <3>5 DEF FilmsWhole
  <2> QED
    BY <2>1, <2>2
<1>9. Collects(c)'
  BY <1>1, <1>2, <1>3, <1>4 DEF Collects, Known, Local
<1>10. Loops(c)'
  BY <1>1, <1>2, <1>3 DEF Loops, Local
<1>11. Holds(c)'
  BY <1>1, <1>2, <1>3 DEF Holds, Running, Local
<1> QED
  BY <1>5, <1>7, <1>8, <1>9, <1>10, <1>11, Together

\* A step of time or of the server changes no place but to "thrown", no film,
\* and keeps what the films are told by.
LEMMA FilmsStayAll ==
  ASSUME FilmsInv, films' = films,
         \A c \in Conversion : \/ /\ conv'[c].at = conv[c].at /\ conv'[c].name = conv[c].name
                                  /\ conv'[c].length = conv[c].length
                                  /\ conv'[c].stop_req = conv[c].stop_req
                                  /\ conv[c].excused => conv'[c].excused
                               \/ conv[c].at # "done" /\ conv'[c].at = "thrown"
  PROVE  FilmsWhole'
<1>1. \A f \in Name : films'[f] # NoFilm =>
        \E d \in Conversion : /\ conv'[d].at = "done" /\ conv'[d].name = f
                              /\ films'[f] = [i \in 1..conv'[d].length |-> <<d, i>>]
  <2> SUFFICES ASSUME NEW f \in Name, films[f] # NoFilm
               PROVE  \E d \in Conversion : /\ conv'[d].at = "done" /\ conv'[d].name = f
                                            /\ films[f] = [i \in 1..conv'[d].length |-> <<d, i>>]
    OBVIOUS
  <2>1. PICK d \in Conversion : /\ conv[d].at = "done" /\ conv[d].name = f
                                /\ films[f] = [i \in 1..conv[d].length |-> <<d, i>>]
    BY DEF FilmsInv, FilmsWhole
  <2>2. conv'[d].at = "done" /\ conv'[d].name = f /\ conv'[d].length = conv[d].length
    BY <2>1
  <2> QED
    BY <2>1, <2>2
<1>2. \A d \in Conversion : /\ conv'[d].at \in {"refused", "gone"} => conv'[d].excused
                            /\ conv'[d].at = "unfinished" => conv'[d].stop_req
  BY DEF FilmsInv, FilmsWhole
<1> QED
  BY <1>1, <1>2 DEF FilmsWhole

LEMMA MinuteKeeps ==
  ASSUME FilmsFit, FilmsInv, Minute
  PROVE  FilmsInv'
<1>1. FilmsTyped
  BY DEF FilmsInv
<1>2. \A c \in Conversion : conv[c] \in Local
  BY <1>1 DEF FilmsTyped
<1>3. ASSUME NEW c \in Conversion
      PROVE  /\ conv'[c] \in Local
             /\ conv'[c].at = conv[c].at /\ conv'[c].name = conv[c].name
             /\ conv'[c].length = conv[c].length /\ conv'[c].i = conv[c].i
             /\ conv'[c].stop_req = conv[c].stop_req
             /\ conv[c].excused => conv'[c].excused
             /\ Running(c) => /\ conv'[c].waited = IF conv[c].waited < 2 THEN conv[c].waited + 1 ELSE conv[c].waited
                              /\ conv'[c].excused = (conv[c].excused \/ conv[c].waited >= 1)
             /\ ~Running(c) => conv'[c] = conv[c]
  <2>1. CASE Running(c)
    <3>1. PICK w \in 0..2 : w = IF conv[c].waited < 2 THEN conv[c].waited + 1 ELSE conv[c].waited
      BY <1>2 DEF Local
    <3>2. PICK e \in BOOLEAN : e = (conv[c].excused \/ conv[c].waited >= 1)
      OBVIOUS
    <3>3. conv'[c] = [conv[c] EXCEPT !.waited = w, !.excused = e]
      BY <2>1, <3>1, <3>2 DEF Minute
    <3> QED
      BY <1>2, <2>1, <3>1, <3>2, <3>3 DEF Local
  <2>2. CASE ~Running(c)
    BY <1>2, <2>2 DEF Minute
  <2> QED
    BY <2>1, <2>2
<1>4. ASSUME NEW c \in DOMAIN sessions
      PROVE  /\ sessions'[c] \in FilmSession /\ sessions'[c].name = sessions[c].name
             /\ sessions'[c].data = sessions[c].data /\ sessions'[c].frames = sessions[c].frames
             /\ sessions'[c].idle = IF sessions[c].idle < 2 THEN sessions[c].idle + 1 ELSE sessions[c].idle
             /\ sessions[c].idle \in Nat
  <2>1. sessions[c] \in FilmSession
    BY <1>1 DEF FilmsTyped
  <2>2. PICK n \in Nat : n = IF sessions[c].idle < 2 THEN sessions[c].idle + 1 ELSE sessions[c].idle
    BY <2>1 DEF FilmSession
  <2>3. sessions'[c] = [sessions[c] EXCEPT !.idle = n]
    BY <2>2 DEF Minute
  <2> QED
    BY <2>1, <2>2, <2>3 DEF FilmSession
<1>5. DOMAIN sessions' = DOMAIN sessions
  BY DEF Minute
<1>6. FilmsTyped'
  <2>1. conv' \in [Conversion -> Local]
    BY <1>3 DEF Minute
  <2>2. sessions' \in [DOMAIN sessions' -> FilmSession]
    BY <1>4, <1>5 DEF Minute
  <2> QED
    BY <1>1, <1>5, <2>1, <2>2 DEF FilmsTyped, Minute
<1>7. ASSUME NEW c \in Conversion
      PROVE  Collects(c)' /\ Loops(c)' /\ Holds(c)'
  <2>1. Collects(c) /\ Loops(c) /\ Holds(c)
    BY DEF FilmsInv
  <2>2. Collects(c)'
    BY <1>3, <1>4, <1>5, <2>1 DEF Collects, Known
  <2>3. Loops(c)'
    BY <1>3, <1>5, <2>1 DEF Loops, Known
  <2>4. Holds(c)'
    <3>1. conv[c].waited \in 0..2
      BY <1>2 DEF Local
    <3>2. Running(c)' <=> Running(c)
      BY <1>3 DEF Running
    <3>3. CASE Running(c)
      <4>1. conv'[c].waited = 2 => conv'[c].excused
        <5>1. conv'[c].waited = IF conv[c].waited < 2 THEN conv[c].waited + 1 ELSE conv[c].waited
          BY <1>3, <3>3
        <5>2. conv[c].waited >= 1 => conv'[c].excused
          BY <1>3, <3>3
        <5> QED
          BY <3>1, <5>1, <5>2
      <4>2. conv[c].at # "create" => IF Known(c)' THEN sessions'[c].idle <= conv'[c].waited ELSE conv'[c].excused
        <5>1. CASE Known(c)
          <6>1. conv[c].at # "create" => sessions[c].idle <= conv[c].waited
            BY <2>1, <3>3, <5>1 DEF Holds
          <6>2. sessions[c].idle \in Nat /\ sessions'[c].idle = IF sessions[c].idle < 2 THEN sessions[c].idle + 1 ELSE sessions[c].idle
            BY <1>4, <5>1 DEF Known
          <6>3. conv'[c].waited = IF conv[c].waited < 2 THEN conv[c].waited + 1 ELSE conv[c].waited
            BY <1>3, <3>3
          <6> QED
            BY <3>1, <5>1, <6>1, <6>2, <6>3, <1>5 DEF Known
        <5>2. CASE ~Known(c)
          BY <1>3, <1>5, <2>1, <3>3, <5>2 DEF Holds, Known
        <5> QED
          BY <5>1, <5>2
      <4> QED
        BY <1>3, <4>1, <4>2 DEF Holds
    <3>4. CASE ~Running(c)
      BY <1>3, <2>1, <3>2, <3>4 DEF Holds
    <3> QED
      BY <3>3, <3>4
  <2> QED
    BY <2>2, <2>3, <2>4
<1>8. FilmsWhole'
  BY <1>3, FilmsStayAll DEF Minute
<1> QED
  BY <1>6, <1>7, <1>8 DEF FilmsInv

LEMMA RestartKeeps ==
  ASSUME FilmsFit, FilmsInv, ServerRestart
  PROVE  FilmsInv'
<1>1. FilmsTyped
  BY DEF FilmsInv
<1>2. \A c \in Conversion : conv[c] \in Local
  BY <1>1 DEF FilmsTyped
<1>3. ASSUME NEW c \in Conversion
      PROVE  /\ conv'[c] \in Local /\ conv'[c].i = conv[c].i /\ conv'[c].length = conv[c].length
             /\ conv'[c].waited = conv[c].waited
             /\ conv[c].excused => conv'[c].excused
             /\ \/ /\ conv'[c].at = conv[c].at /\ conv'[c].name = conv[c].name
                   /\ conv'[c].stop_req = conv[c].stop_req
                   /\ ~Running(c) \/ (conv[c].at = "read" /\ conv'[c].excused)
                \/ conv[c].at # "done" /\ conv'[c].at = "thrown"
  <2>1. CASE ~Running(c)
    BY <1>2, <2>1 DEF ServerRestart
  <2>2. CASE Running(c) /\ conv[c].at = "read"
    <3>1. conv'[c] = [conv[c] EXCEPT !.excused = TRUE]
      BY <2>2 DEF ServerRestart
    <3> QED
      BY <1>2, <2>2, <3>1 DEF Local
  <2>3. CASE Running(c) /\ conv[c].at # "read"
    <3>1. conv'[c] = [conv[c] EXCEPT !.at = "thrown"]
      BY <2>3 DEF ServerRestart
    <3>2. "thrown" \in Place \cup End
      BY DEF End
    <3>3. conv'[c] \in Local
      BY <1>2, <3>1, <3>2, PlaceChanges
    <3> QED
      BY <1>2, <2>3, <3>1, <3>3 DEF Local, Running
  <2> QED
    BY <2>1, <2>2, <2>3
<1>4. DOMAIN sessions' = {} /\ sessions' \in [{} -> FilmSession]
  BY DEF ServerRestart, NoSessions
<1>5. FilmsTyped'
  <2>1. conv' \in [Conversion -> Local]
    BY <1>3 DEF ServerRestart
  <2> QED
    BY <1>1, <1>4, <2>1 DEF FilmsTyped, ServerRestart
<1>6. ASSUME NEW c \in Conversion
      PROVE  Collects(c)' /\ Loops(c)' /\ Holds(c)'
  <2>1. Collects(c) /\ Loops(c) /\ Holds(c)
    BY DEF FilmsInv
  <2>2. Collects(c)'
    BY <1>3, <1>4, <2>1 DEF Collects, Known
  <2>3. Loops(c)'
    BY <1>3, <1>4, <2>1 DEF Loops, Known
  <2>4. Holds(c)'
    BY <1>3, <1>4, <2>1 DEF Holds, Known, Running
  <2> QED
    BY <2>2, <2>3, <2>4
<1>7. FilmsWhole'
  BY <1>3, FilmsStayAll DEF ServerRestart
<1> QED
  BY <1>5, <1>6, <1>7 DEF FilmsInv

LEMMA InitFilms ==
  ASSUME FilmsFit, FilmsInit
  PROVE  FilmsInv
<1>1. PICK f \in Name : f = (CHOOSE g \in Name : TRUE)
  BY DEF FilmsFit
<1>2. \A c \in Conversion :
        conv[c] = [at |-> "none", name |-> f, length |-> 0, i |-> 1,
                   stop_req |-> FALSE, waited |-> 0, excused |-> FALSE]
  BY <1>1 DEF FilmsInit
<1>3. DOMAIN sessions = {} /\ sessions \in [{} -> FilmSession]
  BY DEF FilmsInit, NoSessions
<1>4. \A c \in Conversion : conv[c] \in Local
  <2>1. "none" \in Place \cup End /\ 0 \in 0..2 /\ 1 \in Nat \ {0}
    BY DEF Place
  <2>2. [at |-> "none", name |-> f, length |-> 0, i |-> 1,
         stop_req |-> FALSE, waited |-> 0, excused |-> FALSE] \in Local
    BY <1>1, <2>1 DEF Local
  <2> QED
    BY <1>2, <2>2
<1>5. FilmsTyped
  <2>1. NoFilm \in Seq(Picture)
    BY DEF NoFilm
  <2>2. conv \in [Conversion -> Local]
    BY <1>4 DEF FilmsInit
  <2> QED
    BY <1>3, <2>1, <2>2 DEF FilmsTyped, FilmsInit
<1>6. ASSUME NEW c \in Conversion
      PROVE  Collects(c) /\ Loops(c) /\ Holds(c)
  BY <1>2, <1>3, FilmsFit DEF Collects, Loops, Holds, Known, Running, FilmsFit
<1>7. FilmsWhole
  BY <1>2 DEF FilmsWhole, FilmsInit
<1> QED
  BY <1>5, <1>6, <1>7 DEF FilmsInv

LEMMA FilmsStep ==
  ASSUME FilmsFit, FilmsInv, [FilmsNext]_film_vars
  PROVE  FilmsInv'
<1>1. CASE Minute
  BY <1>1, MinuteKeeps
<1>2. CASE ServerRestart
  BY <1>2, RestartKeeps
<1>3. CASE UNCHANGED film_vars
  BY <1>3 DEF film_vars, FilmsInv, FilmsTyped, Collects, Loops, Holds, Known, Running, FilmsWhole
<1>4. ASSUME NEW c \in Conversion,
             \/ Start(c) \/ Stop(c) \/ Create(c) \/ ReadPicture(c) \/ PutImage(c) \/ PutRefused(c)
             \/ CloseGone(c) \/ Close(c) \/ Throws(c)
      PROVE  FilmsInv'
  BY <1>4, StartKeeps, StopKeeps, CreateKeeps, ReadKeeps, PutImageKeeps, PutRefusedKeeps,
     CloseGoneKeeps, CloseKeeps, ThrowsKeeps
<1> QED
  BY <1>1, <1>2, <1>3, <1>4 DEF FilmsNext

\* A film in the project has all the pictures of one conversion in their order,
\* whatever conversions run beside it, and a conversion fails only when it was
\* stopped, let a minute pass or lost its server (mgifcomp.cpp, interface.cpp).
THEOREM FilmsAreWhole ==
  ASSUME FilmsFit
  PROVE  FilmsSpec => []FilmsWhole
<1>1. FilmsInit => FilmsInv
  BY InitFilms
<1>2. FilmsInv /\ [FilmsNext]_film_vars => FilmsInv'
  BY FilmsStep
<1>3. FilmsInv => FilmsWhole
  BY DEF FilmsInv
<1> QED
  BY <1>1, <1>2, <1>3, PTL DEF FilmsSpec

-----------------------------------------------------------------------------
(***************************************************************************)
(* The stream to the games.  What a game has read of an event that has not *)
(* ended is there because somebody is about to end it; all but the line of *)
(* the session that holds the mutex is excused, so that a second session   *)
(* can only add to lines that are.                                         *)
(***************************************************************************)
Player == Caller \cup {Stopper}
Commands == BOOLEAN \X Nat
Readings == [comment : BOOLEAN, lines : Seq(Commands), ended : Nat, events : SUBSET SUBSET Nat]
Fits(r) == r.ended <= Len(r.lines) /\ \A e \in r.events : e \subseteq 1..r.ended
Stage == [at : {"idle", "line", "end", "ping"}, command : Commands]
Its(s, c) == c \in Commands /\ (c[1] <=> s = Stopper) /\ c[2] <= begun

StreamTypes ==
  /\ streams \subseteq Game /\ dead \subseteq Game
  /\ game \in [Game -> Readings] /\ \A g \in Game : Fits(game[g])
  /\ mx \in Caller \cup {NoOne} /\ begun \in Nat
  /\ sends \in [Sender -> Stage] /\ sends[Timer].at \in {"idle", "ping"}
  /\ \A s \in Player : /\ sends[s].at # "ping"
                       /\ sends[s].at # "idle" => Its(s, sends[s].command)
  /\ commands \in Seq(Commands) /\ joined \in [Game -> Nat]
\* who sends holds the mutex, but for preview.stop
Locked == \A s \in Caller : sends[s].at # "idle" => mx = s
\* no command is sent twice
Numbered ==
  /\ \A p \in DOMAIN commands : commands[p][2] <= begun
  /\ \A p, q \in DOMAIN commands : commands[p] = commands[q] => p = q
  /\ \A s \in Player : sends[s].at = "line" => \A p \in DOMAIN commands : commands[p] # sends[s].command
  /\ \A s, t \in Player : sends[s].at = "line" /\ sends[t].at = "line"
                          /\ sends[s].command = sends[t].command => s = t

Open(g) == game[g].ended + 1..Len(game[g].lines)
\* somebody is about to end the event
EndComes == sends[Timer].at = "ping" \/ \E s \in Player : sends[s].at = "end"
AboutToEnd(c) == \E s \in Caller : sends[s].at = "end" /\ sends[s].command = c
Arrived(g) ==
  \A p \in joined[g] + 1..Len(commands) :
    commands[p] \in pinged \/ \E i \in DOMAIN game[g].lines : game[g].lines[i] = commands[p]
OpenExcused(g) == \A i \in Open(g) : Excused(game[g].lines[i]) \/ AboutToEnd(game[g].lines[i])
OpenTogether(g) == \A i, j \in Open(g) : i # j => \E k \in Open(g) : Excused(game[g].lines[k])
Listens(g) ==
  /\ game[g].comment => sends[Timer].at = "ping"
  /\ joined[g] <= Len(commands)
  /\ Open(g) # {} => EndComes
  /\ InTheirOrder(g) /\ Arrived(g) /\ OpenExcused(g) /\ OpenTogether(g) /\ EachByItself(g)
StreamInv ==
  /\ StreamTypes /\ Locked /\ Numbered
  /\ \A g \in streams \ dead : Listens(g)
  /\ \A g \in Game \ (streams \cup dead) : game[g] = NewGame

LEMMA Senders ==
  ASSUME StreamAssumption
  PROVE  Sender = Player \cup {Timer} /\ Timer \notin Player /\ Stopper \notin Caller /\ NoOne \notin Caller
BY DEF StreamAssumption, Sender, Player, Stopper, Timer

LEMMA EndOfLineFacts ==
  ASSUME NEW r \in Readings, Fits(r), NEW x, x = EndOfLine(r)
  PROVE  /\ x \in Readings /\ Fits(x) /\ x.lines = r.lines /\ x.comment = FALSE
         /\ r.comment => x.ended = r.ended /\ x.events = r.events
         /\ ~r.comment => x.ended = Len(r.lines)
         /\ x.events = r.events \/ x.events = r.events \cup {r.ended + 1..Len(r.lines)}
<1>0. r.ended \in Nat /\ Len(r.lines) \in Nat /\ r.ended <= Len(r.lines)  BY DEF Fits, Readings
<1>1. CASE r.comment
  <2>1. x = [r EXCEPT !.comment = FALSE]  BY <1>1 DEF EndOfLine
  <2> QED  BY <1>1, <2>1 DEF Readings, Fits
<1>2. CASE ~r.comment /\ r.ended = Len(r.lines)
  <2>1. x = r  BY <1>2 DEF EndOfLine
  <2> QED  BY <1>2, <2>1 DEF Readings
<1>3. CASE ~r.comment /\ r.ended # Len(r.lines)
  <2> DEFINE e == r.ended + 1..Len(r.lines)
  <2>1. x = [r EXCEPT !.ended = Len(r.lines), !.events = @ \cup {e}]  BY <1>3 DEF EndOfLine
  <2>2. e \subseteq Nat /\ e \subseteq 1..Len(r.lines)  BY <1>0
  <2>3. \A f \in r.events : f \subseteq 1..Len(r.lines)  BY <1>0 DEF Fits
  <2> HIDE DEF e
  <2>4. PICK all : all = r.events \cup {e}  OBVIOUS
  <2>5. all \in SUBSET SUBSET Nat /\ Len(r.lines) \in Nat /\ \A f \in all : f \subseteq 1..Len(r.lines)
    BY <1>0, <2>2, <2>3, <2>4 DEF Readings
  <2>6. x = [r EXCEPT !.ended = Len(r.lines), !.events = all]  BY <2>1, <2>4
  <2>7. /\ x.lines = r.lines /\ x.comment = r.comment /\ x.ended = Len(r.lines)
        /\ x.events = all /\ x \in Readings
    BY <2>5, <2>6 DEF Readings
  <2>8. Fits(x)
    <3>1. x.ended <= Len(x.lines)  BY <1>0, <2>7
    <3>2. \A f \in x.events : f \subseteq 1..x.ended  BY <2>5, <2>7
    <3> QED  BY <3>1, <3>2 DEF Fits
  <2> QED  BY <1>3, <2>4, <2>7, <2>8 DEF e
<1> QED  BY <1>1, <1>2, <1>3

LEMMA DataFacts ==
  ASSUME NEW r \in Readings, Fits(r), NEW c \in Commands, NEW x, x = Reads(r, [is |-> "data", command |-> c])
  PROVE  /\ x \in Readings /\ Fits(x) /\ x.comment = FALSE /\ x.ended = r.ended /\ x.events = r.events
         /\ x.lines = IF r.comment THEN r.lines ELSE Append(r.lines, c)
<1>1. CASE r.comment
  <2>1. x = EndOfLine(r)  BY <1>1 DEF Reads
  <2> QED  BY <1>1, <2>1, EndOfLineFacts
<1>2. CASE ~r.comment
  <2>1. PICK l : l = Append(r.lines, c)  OBVIOUS
  <2>2. x = [r EXCEPT !.lines = l]  BY <1>2, <2>1 DEF Reads
  <2>3. r.ended \in Nat /\ Len(r.lines) \in Nat /\ r.ended <= Len(r.lines) /\ r.lines \in Seq(Commands)
    BY DEF Fits, Readings
  <2>4. l \in Seq(Commands) /\ Len(l) = Len(r.lines) + 1  BY <2>1, <2>3
  <2>5. /\ x \in Readings /\ x.comment = FALSE /\ x.ended = r.ended /\ x.events = r.events /\ x.lines = l
    BY <1>2, <2>2, <2>4 DEF Readings
  <2> QED  BY <1>2, <2>1, <2>3, <2>4, <2>5 DEF Fits
<1> QED  BY <1>1, <1>2

LEMMA BlankFacts ==
  ASSUME NEW r \in Readings
  PROVE  /\ Reads(r, [is |-> "blank"]) = EndOfLine(r)
         /\ Reads(r, [is |-> "blanks"]) = EndOfLine(EndOfLine(r))
         /\ Reads(r, [is |-> "comment"]) = [r EXCEPT !.comment = TRUE]
BY DEF Reads

LEMMA BlanksFacts ==
  ASSUME NEW r \in Readings, Fits(r), NEW x, x = EndOfLine(EndOfLine(r))
  PROVE  /\ x \in Readings /\ Fits(x) /\ x.lines = r.lines /\ x.comment = FALSE
         /\ x.ended = Len(r.lines)
         /\ x.events = r.events \/ x.events = r.events \cup {r.ended + 1..Len(r.lines)}
<1> DEFINE y == EndOfLine(r)
<1>1. /\ y \in Readings /\ Fits(y) /\ y.lines = r.lines /\ y.comment = FALSE
      /\ r.comment => y.ended = r.ended /\ y.events = r.events
      /\ ~r.comment => y.ended = Len(r.lines)
      /\ y.events = r.events \/ y.events = r.events \cup {r.ended + 1..Len(r.lines)}
  BY EndOfLineFacts
<1> HIDE DEF y
<1>2. x = EndOfLine(y)  BY DEF y
<1>3. /\ x \in Readings /\ Fits(x) /\ x.lines = y.lines /\ x.comment = FALSE
      /\ x.ended = Len(y.lines)
      /\ x.events = y.events \/ x.events = y.events \cup {y.ended + 1..Len(y.lines)}
  BY <1>1, <1>2, EndOfLineFacts
<1>4. CASE r.comment  BY <1>1, <1>3, <1>4
<1>5. CASE ~r.comment
  <2>1. y.ended = Len(y.lines)  BY <1>1, <1>5
  <2>2. x = y  BY <1>1, <1>2, <2>1 DEF EndOfLine
  <2> QED  BY <1>1, <1>3, <2>2
<1> QED  BY <1>4, <1>5

\* what a broadcast does to those that listen and to the others
LEMMA BroadcastFacts ==
  ASSUME StreamTypes, NEW piece, Broadcast(piece),
         \A r \in Readings : Fits(r) => Reads(r, piece) \in Readings /\ Fits(Reads(r, piece))
  PROVE  /\ streams' \subseteq Game /\ dead' \subseteq Game /\ joined' \in [Game -> Nat]
         /\ game' \in [Game -> Readings] /\ \A g \in Game : Fits(game'[g])
         /\ \A g \in Game \ (streams' \cup dead') : game'[g] = NewGame
         /\ \A g \in streams' \ dead' : /\ g \in streams \ dead /\ g \in Game
                                        /\ game'[g] = Reads(game[g], piece) /\ joined'[g] = joined[g]
<1>1. NewGame \in Readings /\ Fits(NewGame)  BY DEF NewGame, Readings, Fits
<1>2. \A g \in Game : game'[g] \in Readings /\ Fits(game'[g])
  <2> TAKE g \in Game
  <2>1. game'[g] = IF g \in streams \ dead THEN Reads(game[g], piece) ELSE NewGame  BY DEF Broadcast
  <2>2. game[g] \in Readings /\ Fits(game[g])  BY DEF StreamTypes
  <2> QED  BY <1>1, <2>1, <2>2
<1>3. game' \in [Game -> Readings]  BY <1>2 DEF Broadcast
<1>4. streams' = streams \ dead /\ dead' = dead  BY DEF Broadcast
<1>5. \A g \in Game : /\ game'[g] = IF g \in streams \ dead THEN Reads(game[g], piece) ELSE NewGame
                      /\ joined'[g] = IF g \in dead THEN 0 ELSE joined[g]
  BY DEF Broadcast
<1>6. joined' \in [Game -> Nat]  BY DEF Broadcast, StreamTypes
<1>7. streams \subseteq Game /\ dead \subseteq Game  BY DEF StreamTypes
<1> HIDE DEF NewGame
<1> QED  BY <1>2, <1>3, <1>4, <1>5, <1>6, <1>7

LEMMA ReadsKeep ==
  ASSUME NEW piece,
         \/ piece = [is |-> "blank"] \/ piece = [is |-> "blanks"] \/ piece = [is |-> "comment"]
         \/ \E c \in Commands : piece = [is |-> "data", command |-> c]
  PROVE  \A r \in Readings : Fits(r) => Reads(r, piece) \in Readings /\ Fits(Reads(r, piece))
<1> SUFFICES ASSUME NEW r \in Readings, Fits(r)
             PROVE  Reads(r, piece) \in Readings /\ Fits(Reads(r, piece))
  OBVIOUS
<1>1. CASE piece = [is |-> "blank"]  BY <1>1, BlankFacts, EndOfLineFacts
<1>2. CASE piece = [is |-> "blanks"]  BY <1>2, BlankFacts, BlanksFacts
<1>3. CASE piece = [is |-> "comment"]
  <2>1. Reads(r, piece) = [r EXCEPT !.comment = TRUE]  BY <1>3, BlankFacts
  <2> QED  BY <2>1 DEF Readings, Fits
<1>4. ASSUME NEW c \in Commands, piece = [is |-> "data", command |-> c]
      PROVE  Reads(r, piece) \in Readings /\ Fits(Reads(r, piece))
  BY <1>4, DataFacts
<1> QED  BY <1>1, <1>2, <1>3, <1>4

-----------------------------------------------------------------------------
\* types, the mutex and the numbers of the commands
Sound == StreamTypes /\ Locked /\ Numbered
Silent == \A g \in Game \ (streams \cup dead) : game[g] = NewGame

LEMMA StreamStart == ASSUME StreamAssumption, StreamInit PROVE StreamInv
<1>1. NewGame \in Readings /\ Fits(NewGame)  BY DEF NewGame, Readings, Fits
<1>2. NotSending \in Stage /\ NotSending.at = "idle"  BY DEF NotSending, Stage, Commands
<1>3. \A s \in Sender : sends[s] = NotSending  BY DEF StreamInit
<1>4. sends \in [Sender -> Stage]  BY <1>2 DEF StreamInit
<1>5. Timer \in Sender /\ Player \subseteq Sender  BY DEF Sender, Player
<1>6. game \in [Game -> Readings] /\ \A g \in Game : Fits(game[g]) /\ game[g] = NewGame
  BY <1>1 DEF StreamInit
<1>7. commands = <<>> /\ commands \in Seq(Commands) /\ DOMAIN commands = {}  BY DEF StreamInit
<1> HIDE DEF NewGame, NotSending
<1>8. StreamTypes  BY <1>2, <1>3, <1>4, <1>5, <1>6, <1>7 DEF StreamInit, StreamTypes
<1>9. Locked  BY <1>2, <1>3, <1>5 DEF Locked, Player
<1>10. Numbered  BY <1>2, <1>3, <1>5, <1>7 DEF Numbered
<1> QED  BY <1>6, <1>8, <1>9, <1>10 DEF StreamInit, StreamInv

LEMMA SendSound ==
  ASSUME StreamAssumption, StreamInv, NEW s \in Player, Send(s)
  PROVE  Sound'
<1> DEFINE c == <<s = Stopper, begun + 1>>
           stage == [at |-> "line", command |-> c]
<1>1. begun \in Nat /\ begun' = begun + 1  BY DEF StreamInv, StreamTypes, Send
<1>2. c \in Commands /\ (c[1] <=> s = Stopper) /\ c[2] = begun + 1
  <2>1. (s = Stopper) \in BOOLEAN /\ begun + 1 \in Nat  BY <1>1
  <2>2. PICK b \in BOOLEAN : b = (s = Stopper)  BY <2>1
  <2>3. c = <<b, begun + 1>>  BY <2>2
  <2> QED  BY <2>1, <2>2, <2>3 DEF Commands
<1>3. stage \in Stage /\ stage.at = "line" /\ stage.command = c  BY <1>2 DEF Stage
<1>4. sends' = [sends EXCEPT ![s] = stage]  BY DEF Send
<1> HIDE DEF c, stage
<1>5. /\ sends \in [Sender -> Stage] /\ s \in Sender /\ Player \subseteq Sender /\ s # Timer /\ Timer \in Sender
  BY Senders DEF StreamInv, StreamTypes
<1>6. sends' \in [Sender -> Stage] /\ sends'[s] = stage /\ \A t \in Sender : t # s => sends'[t] = sends[t]
  BY <1>3, <1>4, <1>5
<1>7. UNCHANGED <<streams, dead, game, commands, joined, pinged>> /\ sends[s].at = "idle"  BY DEF Send
<1>8. mx' \in Caller \cup {NoOne}  BY DEF Send, StreamInv, StreamTypes, Player
<1>9. \A t \in Player : sends'[t].at # "ping" /\ (sends'[t].at # "idle" => Its(t, sends[t].command)')
  <2> TAKE t \in Player
  <2>1. CASE t = s  BY <1>1, <1>2, <1>3, <1>6, <2>1 DEF Its
  <2>2. CASE t # s
    <3>1. sends'[t] = sends[t]  BY <1>5, <1>6, <2>2
    <3>2. sends[t].at # "ping" /\ (sends[t].at # "idle" => Its(t, sends[t].command))
      BY DEF StreamInv, StreamTypes
    <3>3. Its(t, sends[t].command) => Its(t, sends[t].command)'
      <4>1. ASSUME Its(t, sends[t].command) PROVE Its(t, sends[t].command)'
        <5>1. sends[t].command[2] \in Nat  BY <4>1 DEF Its, Commands
        <5> QED  BY <1>1, <3>1, <4>1, <5>1 DEF Its
      <4> QED  BY <3>1, <4>1
    <3> QED  BY <3>1, <3>2, <3>3
  <2> QED  BY <2>1, <2>2
<1>10. StreamTypes'
  <2>1. sends'[Timer] = sends[Timer]  BY <1>5, <1>6
  <2>2. sends[Timer].at \in {"idle", "ping"} /\ (\A g \in Game : Fits(game[g])) /\ commands \in Seq(Commands)
        /\ joined \in [Game -> Nat] /\ game \in [Game -> Readings] /\ streams \subseteq Game /\ dead \subseteq Game
    BY DEF StreamInv, StreamTypes
  <2> QED  BY <1>1, <1>6, <1>7, <1>8, <1>9, <2>1, <2>2 DEF StreamTypes
<1>11. Locked'
  <2> SUFFICES ASSUME NEW t \in Caller, sends'[t].at # "idle" PROVE mx' = t
    BY DEF Locked
  <2>1. CASE s = Stopper
    BY <1>5, <1>6, <2>1, Senders DEF Send, StreamInv, Locked, Player
  <2>2. CASE s # Stopper
    <3>1. mx = NoOne /\ mx' = s  BY <2>2 DEF Send
    <3>2. t = s  BY <1>5, <1>6, <3>1, Senders DEF StreamInv, Locked, Player
    <3> QED  BY <3>1, <3>2
  <2> QED  BY <2>1, <2>2
<1>12. \A p \in DOMAIN commands : commands[p] \in Commands /\ commands[p][2] <= begun
  BY DEF StreamInv, StreamTypes, Numbered
<1>13. \A p \in DOMAIN commands : commands[p][2] \in Nat  BY <1>12 DEF Commands
<1>14. \A t \in Player : sends[t].at = "line" => sends[t].command[2] \in Nat /\ sends[t].command[2] <= begun
  BY DEF StreamInv, StreamTypes, Its, Commands
<1>15. Numbered'
  <2>1. \A p \in DOMAIN commands : commands[p][2] <= begun'  BY <1>1, <1>12, <1>13
  <2>2. \A p \in DOMAIN commands : commands[p] # c  BY <1>1, <1>2, <1>12, <1>13
  <2>3. \A t \in Player : sends[t].at = "line" => sends[t].command # c  BY <1>1, <1>2, <1>14
  <2> QED  BY <1>3, <1>5, <1>6, <1>7, <2>1, <2>2, <2>3 DEF StreamInv, Numbered
<1> QED  BY <1>10, <1>11, <1>15 DEF Sound

\* a sender comes a step further with its command, or to its end
LEMMA SendsOn ==
  ASSUME StreamAssumption, StreamInv, NEW s \in Player, sends[s].at # "idle", NEW stage \in Stage,
         \/ stage.at = "end" /\ stage.command = sends[s].command
         \/ stage = NotSending,
         sends' = [sends EXCEPT ![s] = stage], UNCHANGED begun
  PROVE  /\ sends' \in [Sender -> Stage] /\ sends'[s] = stage /\ s # Timer /\ s \in Sender
         /\ Player \subseteq Sender /\ sends'[Timer] = sends[Timer] /\ sends[Timer].at \in {"idle", "ping"}
         /\ \A t \in Sender : t # s => sends'[t] = sends[t]
         /\ \A t \in Player : /\ sends'[t].at # "ping"
                              /\ sends'[t].at # "idle" => Its(t, sends[t].command)'
<1>1. sends \in [Sender -> Stage] /\ s \in Sender /\ Player \subseteq Sender /\ s # Timer /\ Timer \in Sender
  BY Senders DEF StreamInv, StreamTypes
<1>2. sends' \in [Sender -> Stage] /\ sends'[s] = stage /\ \A t \in Sender : t # s => sends'[t] = sends[t]
  BY <1>1
<1>3. NotSending.at = "idle"  BY DEF NotSending
<1>4. \A t \in Player : sends[t].at # "ping" /\ (sends[t].at # "idle" => Its(t, sends[t].command))
  BY DEF StreamInv, StreamTypes
<1>5. ASSUME NEW t \in Player
      PROVE  sends'[t].at # "ping" /\ (sends'[t].at # "idle" => Its(t, sends[t].command)')
  <2>1. CASE t = s  BY <1>2, <1>3, <1>4, <2>1 DEF Its
  <2>2. CASE t # s  BY <1>1, <1>2, <1>4, <2>2 DEF Its
  <2> QED  BY <2>1, <2>2
<1> QED  BY <1>1, <1>2, <1>5 DEF StreamInv, StreamTypes

LEMMA LineSound ==
  ASSUME StreamAssumption, StreamInv, NEW s \in Player, SendLine(s)
  PROVE  Sound' /\ Silent'
<1> DEFINE c == sends[s].command
           stage == [sends[s] EXCEPT !.at = "end"]
<1>1. sends[s].at = "line" /\ c \in Commands /\ Its(s, c)
  BY DEF SendLine, StreamInv, StreamTypes, Its
<1>2. stage \in Stage /\ stage.at = "end" /\ stage.command = c
  <2>1. sends[s] \in Stage  BY Senders DEF StreamInv, StreamTypes
  <2> QED  BY <2>1 DEF Stage
<1>3. sends' = [sends EXCEPT ![s] = stage]  BY DEF SendLine
<1>4. UNCHANGED <<mx, begun>> /\ commands' = Append(commands, c)  BY DEF SendLine
<1> HIDE DEF stage
<1>5. /\ sends' \in [Sender -> Stage] /\ sends'[s] = stage /\ s # Timer /\ s \in Sender
      /\ Player \subseteq Sender /\ sends'[Timer] = sends[Timer] /\ sends[Timer].at \in {"idle", "ping"}
      /\ \A t \in Sender : t # s => sends'[t] = sends[t]
      /\ \A t \in Player : /\ sends'[t].at # "ping"
                           /\ sends'[t].at # "idle" => Its(t, sends[t].command)'
  BY <1>1, <1>2, <1>3, <1>4, SendsOn
<1>6. Broadcast([is |-> "data", command |-> c])  BY DEF SendLine
<1>7. /\ streams' \subseteq Game /\ dead' \subseteq Game /\ joined' \in [Game -> Nat]
      /\ game' \in [Game -> Readings] /\ \A g \in Game : Fits(game'[g])
      /\ \A g \in Game \ (streams' \cup dead') : game'[g] = NewGame
  BY <1>1, <1>6, BroadcastFacts, ReadsKeep DEF StreamInv
<1>8. commands \in Seq(Commands) /\ begun \in Nat /\ mx \in Caller \cup {NoOne}  BY DEF StreamInv, StreamTypes
<1> HIDE DEF c
<1>9. /\ commands' \in Seq(Commands) /\ Len(commands') = Len(commands) + 1 /\ Len(commands) \in Nat
      /\ commands'[Len(commands) + 1] = c /\ \A p \in DOMAIN commands : commands'[p] = commands[p]
      /\ DOMAIN commands' = 1..Len(commands) + 1 /\ DOMAIN commands = 1..Len(commands)
  BY <1>1, <1>4, <1>8
<1>10. StreamTypes'
  BY <1>4, <1>5, <1>7, <1>8, <1>9 DEF StreamTypes
<1>11. Locked'  BY <1>1, <1>2, <1>4, <1>5 DEF StreamInv, Locked, Player
<1>12. Numbered'
  <2>1. \A p \in DOMAIN commands' : commands'[p][2] <= begun
    <3> TAKE p \in DOMAIN commands'
    <3>1. CASE p \in DOMAIN commands  BY <1>9, <3>1 DEF StreamInv, Numbered
    <3>2. CASE p = Len(commands) + 1  BY <1>1, <1>9, <3>2 DEF Its
    <3> QED  BY <1>9, <3>1, <3>2
  <2>2. \A p \in DOMAIN commands : commands[p] # c  BY <1>1 DEF StreamInv, Numbered, c
  <2>3. ASSUME NEW p \in DOMAIN commands', NEW q \in DOMAIN commands', commands'[p] = commands'[q]
        PROVE  p = q
    <3>1. p \in DOMAIN commands \/ p = Len(commands) + 1  BY <1>9
    <3>2. q \in DOMAIN commands \/ q = Len(commands) + 1  BY <1>9
    <3> QED  BY <1>9, <2>2, <2>3, <3>1, <3>2 DEF StreamInv, Numbered
  <2>4. ASSUME NEW t \in Player, sends'[t].at = "line"
        PROVE  t # s /\ sends'[t] = sends[t] /\ sends[t].at = "line" /\ sends[t].command # c
    <3>1. t # s  BY <1>2, <1>5, <2>4
    <3>2. sends'[t] = sends[t]  BY <1>5, <3>1
    <3> QED  BY <1>1, <2>4, <3>1, <3>2 DEF StreamInv, Numbered, c
  <2>5. ASSUME NEW t \in Player, sends'[t].at = "line", NEW p \in DOMAIN commands'
        PROVE  commands'[p] # sends'[t].command
    <3>1. p \in DOMAIN commands \/ p = Len(commands) + 1  BY <1>9
    <3> QED  BY <1>9, <2>4, <2>5, <3>1 DEF StreamInv, Numbered
  <2>6. \A t, u \in Player : sends'[t].at = "line" /\ sends'[u].at = "line"
                             /\ sends'[t].command = sends'[u].command => t = u
    BY <2>4 DEF StreamInv, Numbered
  <2> QED  BY <1>4, <2>1, <2>3, <2>5, <2>6 DEF Numbered
<1> QED  BY <1>7, <1>10, <1>11, <1>12 DEF Sound, Silent

LEMMA BlankSound ==
  ASSUME StreamAssumption, StreamInv, NEW s \in Player, SendBlank(s)
  PROVE  Sound' /\ Silent'
<1>1. sends[s].at = "end" /\ sends' = [sends EXCEPT ![s] = NotSending] /\ UNCHANGED <<commands, begun>>
  BY DEF SendBlank
<1>2. NotSending \in Stage /\ NotSending.at = "idle"  BY DEF NotSending, Stage, Commands
<1> HIDE DEF NotSending
<1>3. /\ sends' \in [Sender -> Stage] /\ sends'[s] = NotSending /\ s # Timer /\ s \in Sender
      /\ Player \subseteq Sender /\ sends'[Timer] = sends[Timer] /\ sends[Timer].at \in {"idle", "ping"}
      /\ \A t \in Sender : t # s => sends'[t] = sends[t]
      /\ \A t \in Player : /\ sends'[t].at # "ping"
                           /\ sends'[t].at # "idle" => Its(t, sends[t].command)'
  BY <1>1, <1>2, SendsOn
<1>4. Broadcast([is |-> "blank"])  BY DEF SendBlank
<1>5. /\ streams' \subseteq Game /\ dead' \subseteq Game /\ joined' \in [Game -> Nat]
      /\ game' \in [Game -> Readings] /\ \A g \in Game : Fits(game'[g])
      /\ \A g \in Game \ (streams' \cup dead') : game'[g] = NewGame
  BY <1>4, BroadcastFacts, ReadsKeep DEF StreamInv
<1>6. mx' \in Caller \cup {NoOne}  BY DEF SendBlank, StreamInv, StreamTypes
<1>7. StreamTypes'  BY <1>1, <1>3, <1>5, <1>6 DEF StreamInv, StreamTypes
<1>8. Locked'
  <2> SUFFICES ASSUME NEW t \in Caller, sends'[t].at # "idle" PROVE mx' = t
    BY DEF Locked
  <2>1. t # s /\ sends[t].at # "idle"  BY <1>2, <1>3 DEF Player
  <2>2. mx = t  BY <2>1 DEF StreamInv, Locked
  <2> QED  BY <2>1, <2>2 DEF SendBlank
<1>9. \A t \in Player : sends'[t].at = "line" => sends'[t] = sends[t]  BY <1>2, <1>3
<1>10. Numbered'  BY <1>1, <1>9 DEF StreamInv, Numbered
<1> QED  BY <1>5, <1>7, <1>8, <1>10 DEF Sound, Silent

LEMMA TimerSound ==
  ASSUME StreamAssumption, StreamInv, Ping \/ PingEnd
  PROVE  Sound' /\ Silent' /\ (\A t \in Player : sends'[t] = sends[t])
<1>1. PICK stage \in Stage : stage.at \in {"idle", "ping"} /\ sends' = [sends EXCEPT ![Timer] = stage]
  <2>1. CASE Ping
    <3>1. sends[Timer] \in Stage  BY Senders DEF StreamInv, StreamTypes
    <3>2. [sends[Timer] EXCEPT !.at = "ping"] \in Stage /\ [sends[Timer] EXCEPT !.at = "ping"].at = "ping"
      BY <3>1 DEF Stage
    <3> QED  BY <2>1, <3>2 DEF Ping
  <2>2. CASE PingEnd
    <3>1. NotSending \in Stage /\ NotSending.at = "idle"  BY DEF NotSending, Stage, Commands
    <3> QED  BY <2>2, <3>1 DEF PingEnd
  <2> QED  BY <2>1, <2>2
<1>2. Timer \in Sender /\ Timer \notin Player /\ Player \subseteq Sender /\ sends \in [Sender -> Stage]
  BY Senders DEF StreamInv, StreamTypes
<1>3. sends' \in [Sender -> Stage] /\ sends'[Timer] = stage /\ \A t \in Player : sends'[t] = sends[t]
  BY <1>1, <1>2
<1>4. UNCHANGED <<mx, commands, begun>>  BY DEF Ping, PingEnd
<1>5. PICK piece : piece \in {[is |-> "comment"], [is |-> "blanks"]} /\ Broadcast(piece)
  BY DEF Ping, PingEnd
<1>6. /\ streams' \subseteq Game /\ dead' \subseteq Game /\ joined' \in [Game -> Nat]
      /\ game' \in [Game -> Readings] /\ \A g \in Game : Fits(game'[g])
      /\ \A g \in Game \ (streams' \cup dead') : game'[g] = NewGame
  BY <1>5, BroadcastFacts, ReadsKeep DEF StreamInv
<1>7. \A t \in Player : /\ sends'[t].at # "ping"
                        /\ sends'[t].at # "idle" => Its(t, sends[t].command)'
  BY <1>3, <1>4 DEF StreamInv, StreamTypes, Its
<1>8. StreamTypes'  BY <1>1, <1>3, <1>4, <1>6, <1>7 DEF StreamInv, StreamTypes
<1>9. Locked'  BY <1>3, <1>4 DEF StreamInv, Locked, Player
<1>10. Numbered'  BY <1>3, <1>4 DEF StreamInv, Numbered
<1> QED  BY <1>3, <1>6, <1>8, <1>9, <1>10 DEF Sound, Silent

LEMMA GameSound ==
  ASSUME StreamInv, NEW g \in Game, Command(g) \/ GameEnds(g)
  PROVE  Sound' /\ Silent'
<1>1. UNCHANGED <<game, mx, sends, commands, begun>>  BY DEF Command, GameEnds
<1>2. streams' \subseteq Game /\ dead' \subseteq Game /\ streams' \cup dead' = streams \cup dead \cup {g}
  BY DEF Command, GameEnds, StreamInv, StreamTypes
<1>3. joined' \in [Game -> Nat]
  <2>1. Len(commands) \in Nat /\ joined \in [Game -> Nat]  BY DEF StreamInv, StreamTypes
  <2> QED  BY <2>1 DEF Command, GameEnds
<1>4. StreamTypes'  BY <1>1, <1>2, <1>3 DEF StreamInv, StreamTypes, Its
<1>5. Locked' /\ Numbered'  BY <1>1 DEF StreamInv, Locked, Numbered
<1>6. Silent'  BY <1>1, <1>2 DEF StreamInv, Silent
<1> QED  BY <1>4, <1>5, <1>6 DEF Sound

-----------------------------------------------------------------------------
LEMMA Heard ==
  ASSUME StreamInv, NEW g \in streams \ dead
  PROVE  /\ g \in Game /\ game[g] \in Readings /\ Fits(game[g]) /\ Listens(g) /\ joined[g] \in Nat
         /\ Len(game[g].lines) \in Nat /\ DOMAIN game[g].lines = 1..Len(game[g].lines)
         /\ game[g].ended \in Nat /\ game[g].ended <= Len(game[g].lines)
         /\ Open(g) \subseteq DOMAIN game[g].lines
         /\ \A i \in DOMAIN game[g].lines : game[g].lines[i] \in Commands
         /\ \A e \in game[g].events : e \subseteq DOMAIN game[g].lines
         /\ Len(commands) \in Nat /\ DOMAIN commands = 1..Len(commands) /\ joined[g] <= Len(commands)
<1>1. g \in Game  BY DEF StreamInv, StreamTypes
<1>2. game[g] \in Readings /\ Fits(game[g]) /\ joined[g] \in Nat /\ commands \in Seq(Commands)
  BY <1>1 DEF StreamInv, StreamTypes
<1>3. game[g].lines \in Seq(Commands) /\ game[g].ended \in Nat /\ game[g].ended <= Len(game[g].lines)
  BY <1>2 DEF Readings, Fits
<1>4. /\ Len(game[g].lines) \in Nat /\ DOMAIN game[g].lines = 1..Len(game[g].lines)
      /\ \A i \in DOMAIN game[g].lines : game[g].lines[i] \in Commands
      /\ Len(commands) \in Nat /\ DOMAIN commands = 1..Len(commands)
  BY <1>2, <1>3
<1>5. Open(g) \subseteq DOMAIN game[g].lines  BY <1>3, <1>4 DEF Open
<1>6. \A e \in game[g].events : e \subseteq DOMAIN game[g].lines
  <2>1. \A e \in game[g].events : e \subseteq 1..game[g].ended  BY <1>2 DEF Fits
  <2>2. 1..game[g].ended \subseteq DOMAIN game[g].lines  BY <1>3, <1>4
  <2> QED  BY <2>1, <2>2
<1>7. Listens(g) /\ joined[g] <= Len(commands)  BY DEF StreamInv, Listens
<1> QED  BY <1>1, <1>2, <1>3, <1>4, <1>5, <1>6, <1>7

LEMMA LineHeard ==
  ASSUME StreamAssumption, StreamInv, NEW s \in Player, SendLine(s), NEW g \in streams' \ dead'
  PROVE  Listens(g)'
<1> DEFINE lines == game[g].lines
           n == Len(commands) + 1
<1>0. PICK c : c = sends[s].command  OBVIOUS
<1>1. c \in Commands /\ Its(s, c) /\ sends[s].at = "line" /\ \A p \in DOMAIN commands : commands[p] # c
  BY <1>0 DEF SendLine, StreamInv, StreamTypes, Its, Numbered
<1>2. Broadcast([is |-> "data", command |-> c])  BY <1>0 DEF SendLine
<1>3. /\ g \in streams \ dead /\ game'[g] = Reads(game[g], [is |-> "data", command |-> c])
      /\ joined'[g] = joined[g]
  BY <1>1, <1>2, BroadcastFacts, ReadsKeep DEF StreamInv
<1>4. /\ g \in Game /\ game[g] \in Readings /\ Fits(game[g]) /\ Listens(g) /\ joined[g] \in Nat
      /\ Len(lines) \in Nat /\ DOMAIN lines = 1..Len(lines) /\ lines \in Seq(Commands)
      /\ game[g].ended \in Nat /\ game[g].ended <= Len(lines)
      /\ Open(g) \subseteq DOMAIN lines
      /\ \A e \in game[g].events : e \subseteq DOMAIN lines
      /\ Len(commands) \in Nat /\ DOMAIN commands = 1..Len(commands) /\ joined[g] <= Len(commands)
  BY <1>3, Heard DEF Readings
<1>5. /\ game'[g].comment = FALSE /\ game'[g].ended = game[g].ended /\ game'[g].events = game[g].events
      /\ game'[g].lines = IF game[g].comment THEN lines ELSE Append(lines, c)
  <2>1. PICK x : x = Reads(game[g], [is |-> "data", command |-> c])  OBVIOUS
  <2>2. /\ x.comment = FALSE /\ x.ended = game[g].ended /\ x.events = game[g].events
        /\ x.lines = IF game[g].comment THEN game[g].lines ELSE Append(game[g].lines, c)
    BY <1>1, <1>4, <2>1, DataFacts
  <2> QED  BY <1>3, <2>1, <2>2
<1>6. commands \in Seq(Commands) /\ commands' = Append(commands, c)
  BY <1>0 DEF StreamInv, StreamTypes, SendLine
<1>7. /\ Len(commands') = n /\ n \in Nat /\ DOMAIN commands' = DOMAIN commands \cup {n} /\ n \notin DOMAIN commands
      /\ commands'[n] = c /\ \A p \in DOMAIN commands : commands'[p] = commands[p] /\ p < n
  BY <1>1, <1>4, <1>6
<1>8. /\ DOMAIN lines \subseteq DOMAIN game'[g].lines
      /\ \A i \in DOMAIN lines : game'[g].lines[i] = lines[i]
  BY <1>1, <1>4, <1>5
<1>9. pinged \subseteq pinged' /\ (sends[Timer].at = "ping" => c \in pinged')  BY <1>0 DEF SendLine, Pinged
<1>10. /\ s # Timer /\ sends \in [Sender -> Stage] /\ s \in Sender /\ Timer \in Sender /\ Player \subseteq Sender
  BY Senders DEF StreamInv, StreamTypes
<1>11. /\ sends'[s].at = "end" /\ sends'[s].command = c
       /\ \A t \in Sender : t # s => sends'[t] = sends[t]
  <2>1. sends' = [sends EXCEPT ![s] = [sends[s] EXCEPT !.at = "end"]]  BY DEF SendLine
  <2>2. sends[s] \in Stage /\ sends[s].command = c  BY <1>0, <1>10
  <2>3. [sends[s] EXCEPT !.at = "end"].at = "end" /\ [sends[s] EXCEPT !.at = "end"].command = c
    BY <2>2 DEF Stage
  <2> QED  BY <1>10, <2>1, <2>3
<1>12. \A x : AboutToEnd(x) => AboutToEnd(x)'
  BY <1>1, <1>10, <1>11 DEF AboutToEnd, Player
<1>13. \A x : Excused(x) => Excused(x)'  BY <1>9 DEF Excused
<1>14. EndComes'  BY <1>11 DEF EndComes
<1>15. joined'[g] + 1..Len(commands') = (joined[g] + 1..Len(commands)) \cup {n}
  BY <1>3, <1>4, <1>7
<1> HIDE DEF n, lines
\* what was heard before is where it was
<1>16. ASSUME NEW i \in DOMAIN lines, NEW p \in DOMAIN commands'
       PROVE  IsSent(g, i, p)' <=> p \in DOMAIN commands /\ IsSent(g, i, p)
  <2>1. CASE p \in DOMAIN commands
    <3>1. commands'[p] = commands[p] /\ p # n  BY <1>7, <2>1
    <3>2. p \in joined'[g] + 1..Len(commands') <=> p \in joined[g] + 1..Len(commands)  BY <1>15, <3>1
    <3> QED  BY <1>8, <2>1, <3>1, <3>2 DEF IsSent, lines
  <2>2. CASE p = n
    <3>1. PICK q \in DOMAIN commands : IsSent(g, i, q)  BY <1>4 DEF Listens, InTheirOrder, lines
    <3>2. lines[i] = commands[q]  BY <3>1 DEF IsSent, lines
    <3>3. game'[g].lines[i] # commands'[p]  BY <1>1, <1>7, <1>8, <2>2, <3>2
    <3> QED  BY <1>7, <2>2, <3>3 DEF IsSent
  <2> QED  BY <1>7, <2>1, <2>2
<1>17. EachByItself(g)'
  <2> SUFFICES ASSUME NEW e \in game'[g].events, NEW i \in e, NEW j \in e, i # j
               PROVE  \E k \in e : Excused(game[g].lines[k])'
    BY DEF EachByItself
  <2>1. e \in game[g].events /\ e \subseteq DOMAIN lines  BY <1>4, <1>5
  <2>2. PICK k \in e : Excused(lines[k])  BY <1>4, <2>1 DEF Listens, EachByItself, lines
  <2>3. game'[g].lines[k] = lines[k]  BY <1>8, <2>1
  <2> QED  BY <1>13, <2>2, <2>3 DEF Excused
<1>18. CASE game[g].comment
  <2>1. game'[g].lines = lines /\ Open(g)' = Open(g)  BY <1>5, <1>18 DEF Open, lines
  <2>2. c \in pinged'  BY <1>4, <1>9, <1>18 DEF Listens
  <2>3. InTheirOrder(g)'
    <3>1. ASSUME NEW i \in DOMAIN lines PROVE \E p \in DOMAIN commands' : IsSent(g, i, p)'
      <4>1. PICK p \in DOMAIN commands : IsSent(g, i, p)  BY <1>4 DEF Listens, InTheirOrder, lines
      <4> QED  BY <1>7, <1>16, <4>1
    <3>2. ASSUME NEW i \in DOMAIN lines, NEW j \in 1..i - 1, NEW p \in DOMAIN commands', NEW q \in DOMAIN commands',
                 IsSent(g, j, p)', IsSent(g, i, q)'
          PROVE  p < q
      <4>1. j \in DOMAIN lines  BY <1>4
      <4>2. p \in DOMAIN commands /\ IsSent(g, j, p) /\ q \in DOMAIN commands /\ IsSent(g, i, q)
        BY <1>16, <3>2, <4>1
      <4> QED  BY <1>4, <4>2 DEF Listens, InTheirOrder, lines
    <3> QED  BY <2>1, <3>1, <3>2 DEF InTheirOrder
  <2>4. Arrived(g)'
    <3> SUFFICES ASSUME NEW p \in joined'[g] + 1..Len(commands')
                 PROVE  commands'[p] \in pinged' \/ \E i \in DOMAIN game'[g].lines : game'[g].lines[i] = commands'[p]
      BY DEF Arrived
    <3>1. CASE p = n  BY <1>7, <2>2, <3>1
    <3>2. CASE p # n
      <4>1. p \in joined[g] + 1..Len(commands) /\ p \in DOMAIN commands  BY <1>4, <1>15, <3>2
      <4>2. commands[p] \in pinged \/ \E i \in DOMAIN lines : lines[i] = commands[p]
        BY <1>4, <4>1 DEF Listens, Arrived, lines
      <4> QED  BY <1>7, <1>9, <2>1, <4>1, <4>2
    <3> QED  BY <3>1, <3>2
  <2>5. OpenExcused(g)'
    <3> SUFFICES ASSUME NEW i \in Open(g) PROVE (Excused(game[g].lines[i]) \/ AboutToEnd(game[g].lines[i]))'
      BY <2>1 DEF OpenExcused
    <3>1. Excused(lines[i]) \/ AboutToEnd(lines[i])  BY <1>4 DEF Listens, OpenExcused, lines
    <3>2. game'[g].lines[i] = lines[i]  BY <2>1
    <3> QED  BY <1>12, <1>13, <3>1, <3>2 DEF Excused, AboutToEnd
  <2>6. OpenTogether(g)'
    <3> SUFFICES ASSUME NEW i \in Open(g), NEW j \in Open(g), i # j
                 PROVE  \E k \in Open(g) : Excused(game[g].lines[k])'
      BY <2>1 DEF OpenTogether
    <3>1. PICK k \in Open(g) : Excused(lines[k])  BY <1>4 DEF Listens, OpenTogether, lines
    <3>2. game'[g].lines[k] = lines[k]  BY <2>1
    <3> QED  BY <1>13, <3>1, <3>2 DEF Excused
  <2> QED  BY <1>3, <1>4, <1>5, <1>7, <1>14, <1>17, <2>3, <2>4, <2>5, <2>6 DEF Listens, n
<1>19. CASE ~game[g].comment
  <2>0. PICK m : m = Len(lines) + 1  OBVIOUS
  <2>1. /\ game'[g].lines = Append(lines, c) /\ m \in Nat /\ m \notin DOMAIN lines
        /\ DOMAIN game'[g].lines = DOMAIN lines \cup {m} /\ game'[g].lines[m] = c
        /\ Open(g)' = Open(g) \cup {m} /\ m \notin Open(g) /\ \A i \in DOMAIN lines : i < m
    <3>1. game'[g].lines = Append(lines, c)  BY <1>5, <1>19
    <3>2. Len(game'[g].lines) = m /\ DOMAIN game'[g].lines = 1..m /\ game'[g].lines[m] = c
      BY <1>1, <1>4, <2>0, <3>1
    <3>3. Open(g) = game[g].ended + 1..Len(lines) /\ Open(g)' = game[g].ended + 1..m
      BY <1>5, <3>2 DEF Open, lines
    <3> QED  BY <1>4, <2>0, <3>1, <3>2, <3>3
  <2>2. ASSUME NEW p \in DOMAIN commands' PROVE IsSent(g, m, p)' <=> p = n
    <3>1. CASE p = n  BY <1>7, <1>15, <2>1, <3>1 DEF IsSent
    <3>2. CASE p # n
      <4>1. commands'[p] # c  BY <1>1, <1>7, <3>2
      <4> QED  BY <2>1, <3>2, <4>1 DEF IsSent
    <3> QED  BY <3>1, <3>2
  <2>3. InTheirOrder(g)'
    <3>1. ASSUME NEW i \in DOMAIN game'[g].lines PROVE \E p \in DOMAIN commands' : IsSent(g, i, p)'
      <4>1. CASE i = m  BY <1>7, <2>2, <4>1
      <4>2. CASE i \in DOMAIN lines
        <5>1. PICK p \in DOMAIN commands : IsSent(g, i, p)  BY <1>4, <4>2 DEF Listens, InTheirOrder, lines
        <5> QED  BY <1>7, <1>16, <4>2, <5>1
      <4> QED  BY <2>1, <4>1, <4>2
    <3>2. ASSUME NEW i \in DOMAIN game'[g].lines, NEW j \in 1..i - 1,
                 NEW p \in DOMAIN commands', NEW q \in DOMAIN commands', IsSent(g, j, p)', IsSent(g, i, q)'
          PROVE  p < q
      <4>1. j \in DOMAIN lines  BY <1>4, <2>0, <2>1
      <4>2. p \in DOMAIN commands /\ IsSent(g, j, p)  BY <1>16, <3>2, <4>1
      <4>3. CASE i = m
        <5>1. q = n  BY <2>2, <3>2, <4>3
        <5> QED  BY <1>7, <4>2, <5>1
      <4>4. CASE i \in DOMAIN lines
        <5>1. q \in DOMAIN commands /\ IsSent(g, i, q)  BY <1>16, <3>2, <4>4
        <5> QED  BY <1>4, <4>2, <4>4, <5>1 DEF Listens, InTheirOrder, lines
      <4> QED  BY <2>1, <4>3, <4>4
    <3> QED  BY <3>1, <3>2 DEF InTheirOrder
  <2>4. Arrived(g)'
    <3> SUFFICES ASSUME NEW p \in joined'[g] + 1..Len(commands')
                 PROVE  commands'[p] \in pinged' \/ \E i \in DOMAIN game'[g].lines : game'[g].lines[i] = commands'[p]
      BY DEF Arrived
    <3>1. CASE p = n  BY <1>7, <2>1, <3>1
    <3>2. CASE p # n
      <4>1. p \in joined[g] + 1..Len(commands) /\ p \in DOMAIN commands  BY <1>4, <1>15, <3>2
      <4>2. commands[p] \in pinged \/ \E i \in DOMAIN lines : lines[i] = commands[p]
        BY <1>4, <4>1 DEF Listens, Arrived, lines
      <4> QED  BY <1>7, <1>8, <1>9, <2>1, <4>1, <4>2
    <3> QED  BY <3>1, <3>2
  \* the session that writes holds the mutex, so no other one is about to end
  <2>5. ASSUME s # Stopper, NEW x PROVE ~AboutToEnd(x)
    <3>1. s \in Caller /\ mx = s  BY <1>1, <2>5 DEF Player, StreamInv, Locked
    <3> QED  BY <1>1, <3>1 DEF AboutToEnd, StreamInv, Locked
  <2>6. s = Stopper => c[1]  BY <1>1 DEF Its
  <2>7. OpenExcused(g)'
    <3> SUFFICES ASSUME NEW i \in Open(g) \cup {m} PROVE (Excused(game[g].lines[i]) \/ AboutToEnd(game[g].lines[i]))'
      BY <2>1 DEF OpenExcused
    <3>1. CASE i = m
      <4>1. game'[g].lines[i] = c  BY <2>1, <3>1
      <4>2. CASE s = Stopper  BY <2>6, <4>1, <4>2 DEF Excused
      <4>3. CASE s # Stopper  BY <1>11, <4>1, <4>3 DEF AboutToEnd, Player
      <4> QED  BY <4>2, <4>3
    <3>2. CASE i \in Open(g)
      <4>1. Excused(lines[i]) \/ AboutToEnd(lines[i])  BY <1>4, <3>2 DEF Listens, OpenExcused, lines
      <4>2. game'[g].lines[i] = lines[i]  BY <1>4, <1>8, <3>2
      <4> QED  BY <1>12, <1>13, <4>1, <4>2 DEF Excused, AboutToEnd
    <3> QED  BY <3>1, <3>2
  <2>8. OpenTogether(g)'
    <3> SUFFICES ASSUME NEW i \in Open(g) \cup {m}, NEW j \in Open(g) \cup {m}, i # j
                 PROVE  \E k \in Open(g) \cup {m} : Excused(game[g].lines[k])'
      BY <2>1 DEF OpenTogether
    <3>1. CASE s = Stopper  BY <2>1, <2>6, <3>1 DEF Excused
    <3>2. CASE s # Stopper
      <4>1. PICK k \in Open(g) : k = i \/ k = j  OBVIOUS
      <4>2. Excused(lines[k])  BY <1>4, <2>5, <3>2 DEF Listens, OpenExcused, lines
      <4>3. game'[g].lines[k] = lines[k]  BY <1>4, <1>8
      <4> QED  BY <1>13, <4>2, <4>3 DEF Excused
    <3> QED  BY <3>1, <3>2
  <2> QED  BY <1>3, <1>4, <1>5, <1>7, <1>14, <1>17, <2>3, <2>4, <2>7, <2>8 DEF Listens, n
<1> QED  BY <1>18, <1>19

LEMMA BlankHeard ==
  ASSUME StreamAssumption, StreamInv, NEW s \in Player, SendBlank(s), NEW g \in streams' \ dead'
  PROVE  Listens(g)'
<1>0. PICK c : c = sends[s].command  OBVIOUS
<1>1. sends[s].at = "end" /\ sends' = [sends EXCEPT ![s] = NotSending] /\ UNCHANGED commands
  BY DEF SendBlank
<1>2. Broadcast([is |-> "blank"])  BY DEF SendBlank
<1>3. g \in streams \ dead /\ game'[g] = Reads(game[g], [is |-> "blank"]) /\ joined'[g] = joined[g]
  BY <1>2, BroadcastFacts, ReadsKeep DEF StreamInv
<1>4. /\ g \in Game /\ game[g] \in Readings /\ Fits(game[g]) /\ Listens(g)
      /\ Len(game[g].lines) \in Nat /\ game[g].ended \in Nat
  BY <1>3, Heard
<1>5. /\ game'[g].lines = game[g].lines /\ game'[g].comment = FALSE
      /\ game[g].comment => game'[g].ended = game[g].ended /\ game'[g].events = game[g].events
      /\ ~game[g].comment => game'[g].ended = Len(game[g].lines)
      /\ game'[g].events = game[g].events \/ game'[g].events = game[g].events \cup {Open(g)}
  <2>1. PICK x : x = EndOfLine(game[g])  OBVIOUS
  <2>2. /\ x.lines = game[g].lines /\ x.comment = FALSE
        /\ game[g].comment => x.ended = game[g].ended /\ x.events = game[g].events
        /\ ~game[g].comment => x.ended = Len(game[g].lines)
        /\ x.events = game[g].events \/ x.events = game[g].events \cup {game[g].ended + 1..Len(game[g].lines)}
    BY <1>4, <2>1, EndOfLineFacts
  <2>3. game'[g] = x  BY <1>3, <1>4, <2>1, BlankFacts
  <2> QED  BY <2>2, <2>3 DEF Open
<1>6. pinged \subseteq pinged' /\ (sends[Timer].at = "ping" => c \in pinged')
  BY <1>0 DEF SendBlank, Pinged
<1>7. /\ sends'[Timer] = sends[Timer]
      /\ \A t \in Player : t # s => sends'[t] = sends[t]
  <2>1. /\ s # Timer /\ sends \in [Sender -> Stage] /\ Timer \in Sender /\ Player \subseteq Sender
    BY Senders DEF StreamInv, StreamTypes
  <2> QED  BY <1>1, <2>1
<1>8. InTheirOrder(g)' /\ Arrived(g)'
  <2>1. InTheirOrder(g)'  BY <1>1, <1>3, <1>4, <1>5 DEF Listens, InTheirOrder, IsSent
  <2>2. Arrived(g)'  BY <1>1, <1>3, <1>4, <1>5, <1>6 DEF Listens, Arrived
  <2> QED  BY <2>1, <2>2
<1>9. EachByItself(g)'
  <2> SUFFICES ASSUME NEW e \in game'[g].events, NEW i \in e, NEW j \in e, i # j
               PROVE  \E k \in e : Excused(game[g].lines[k])'
    BY DEF EachByItself
  <2>1. PICK k \in e : Excused(game[g].lines[k])
    <3>1. CASE e \in game[g].events  BY <1>4, <3>1 DEF Listens, EachByItself
    <3>2. CASE e = Open(g)  BY <1>4, <3>2 DEF Listens, OpenTogether
    <3> QED  BY <1>5, <3>1, <3>2
  <2> QED  BY <1>5, <1>6, <2>1 DEF Excused
<1>10. CASE ~game[g].comment
  <2>1. Open(g)' = {}  BY <1>4, <1>5, <1>10 DEF Open
  <2> QED  BY <1>1, <1>3, <1>4, <1>5, <1>8, <1>9, <2>1 DEF Listens, OpenExcused, OpenTogether
<1>11. CASE game[g].comment
  <2>1. Open(g)' = Open(g)  BY <1>5, <1>11 DEF Open
  <2>2. sends[Timer].at = "ping" /\ c \in pinged'  BY <1>4, <1>6, <1>11 DEF Listens
  <2>3. EndComes'  BY <1>7, <2>2 DEF EndComes
  <2>4. OpenExcused(g)'
    <3> SUFFICES ASSUME NEW i \in Open(g) PROVE (Excused(game[g].lines[i]) \/ AboutToEnd(game[g].lines[i]))'
      BY <2>1 DEF OpenExcused
    <3>1. Excused(game[g].lines[i]) \/ AboutToEnd(game[g].lines[i])  BY <1>4 DEF Listens, OpenExcused
    <3>2. CASE Excused(game[g].lines[i])  BY <1>5, <1>6, <3>2 DEF Excused
    <3>3. CASE AboutToEnd(game[g].lines[i])
      <4>1. PICK t \in Caller : sends[t].at = "end" /\ sends[t].command = game[g].lines[i]  BY <3>3 DEF AboutToEnd
      <4>2. CASE t = s  BY <1>0, <1>5, <2>2, <4>1, <4>2 DEF Excused
      <4>3. CASE t # s  BY <1>5, <1>7, <4>1, <4>3 DEF AboutToEnd, Player
      <4> QED  BY <4>2, <4>3
    <3> QED  BY <3>1, <3>2, <3>3
  <2>5. OpenTogether(g)'
    BY <1>4, <1>5, <1>6, <2>1 DEF Listens, OpenTogether, Excused
  <2> QED  BY <1>1, <1>3, <1>4, <1>5, <1>8, <1>9, <2>3, <2>4, <2>5 DEF Listens
<1> QED  BY <1>10, <1>11

LEMMA TimerHeard ==
  ASSUME StreamAssumption, StreamInv, Ping \/ PingEnd, NEW g \in streams' \ dead'
  PROVE  Listens(g)'
<1>1. UNCHANGED <<commands, pinged>> /\ \A t \in Player : sends'[t] = sends[t]
  BY TimerSound DEF Ping, PingEnd
<1>2. /\ g \in streams \ dead /\ joined'[g] = joined[g]
      /\ Ping => game'[g] = Reads(game[g], [is |-> "comment"])
      /\ PingEnd => game'[g] = Reads(game[g], [is |-> "blanks"])
  <2>1. CASE Ping
    <3>1. Broadcast([is |-> "comment"])  BY <2>1 DEF Ping
    <3>2. ~PingEnd  BY <2>1 DEF Ping, PingEnd
    <3> QED  BY <3>1, <3>2, BroadcastFacts, ReadsKeep DEF StreamInv
  <2>2. CASE PingEnd
    <3>1. Broadcast([is |-> "blanks"])  BY <2>2 DEF PingEnd
    <3>2. ~Ping  BY <2>2 DEF Ping, PingEnd
    <3> QED  BY <3>1, <3>2, BroadcastFacts, ReadsKeep DEF StreamInv
  <2> QED  BY <2>1, <2>2
<1>3. /\ g \in Game /\ game[g] \in Readings /\ Fits(game[g]) /\ Listens(g)
      /\ Len(game[g].lines) \in Nat /\ game[g].ended \in Nat
  BY <1>2, Heard
<1>4. game'[g].lines = game[g].lines
  <2>1. CASE Ping
    <3>1. game'[g] = [game[g] EXCEPT !.comment = TRUE]  BY <1>2, <1>3, <2>1, BlankFacts
    <3> QED  BY <1>3, <3>1 DEF Readings
  <2>2. CASE PingEnd
    <3>1. game'[g] = EndOfLine(EndOfLine(game[g]))  BY <1>2, <1>3, <2>2, BlankFacts
    <3> QED  BY <1>3, <3>1, BlanksFacts
  <2> QED  BY <2>1, <2>2
<1>5. InTheirOrder(g)' /\ Arrived(g)'
  <2>1. InTheirOrder(g)'  BY <1>1, <1>2, <1>3, <1>4 DEF Listens, InTheirOrder, IsSent
  <2>2. Arrived(g)'  BY <1>1, <1>2, <1>3, <1>4 DEF Listens, Arrived
  <2> QED  BY <2>1, <2>2
<1>6. CASE Ping
  <2>1. game'[g] = [game[g] EXCEPT !.comment = TRUE]  BY <1>2, <1>3, <1>6, BlankFacts
  <2>2. game'[g].ended = game[g].ended /\ game'[g].events = game[g].events
    BY <1>3, <2>1 DEF Readings
  <2>3. sends'[Timer].at = "ping"
    <3>1. Timer \in Sender /\ sends \in [Sender -> Stage] /\ sends[Timer] \in Stage
      BY Senders DEF StreamInv, StreamTypes
    <3>2. sends' = [sends EXCEPT ![Timer] = [sends[Timer] EXCEPT !.at = "ping"]]  BY <1>6 DEF Ping
    <3> QED  BY <3>1, <3>2 DEF Stage
  <2>4. Open(g)' = Open(g) /\ EndComes'  BY <1>4, <2>2, <2>3 DEF Open, EndComes
  <2>5. EachByItself(g)' /\ OpenTogether(g)'
    BY <1>1, <1>3, <1>4, <2>2, <2>4 DEF Listens, EachByItself, OpenTogether, Excused
  <2>6. OpenExcused(g)'
    BY <1>1, <1>3, <1>4, <2>4 DEF Listens, OpenExcused, Excused, AboutToEnd, Player
  <2> QED  BY <1>1, <1>2, <1>3, <1>5, <2>3, <2>4, <2>5, <2>6 DEF Listens
<1>7. CASE PingEnd
  <2>1. game'[g] = EndOfLine(EndOfLine(game[g]))  BY <1>2, <1>3, <1>7, BlankFacts
  <2>2. /\ game'[g].comment = FALSE /\ game'[g].ended = Len(game[g].lines)
        /\ game'[g].events = game[g].events
           \/ game'[g].events = game[g].events \cup {game[g].ended + 1..Len(game[g].lines)}
    BY <1>3, <2>1, BlanksFacts
  <2>3. Open(g)' = {}  BY <1>3, <1>4, <2>2 DEF Open
  <2>4. EachByItself(g)'
    <3> SUFFICES ASSUME NEW e \in game'[g].events, NEW i \in e, NEW j \in e, i # j
                 PROVE  \E k \in e : Excused(game[g].lines[k])'
      BY DEF EachByItself
    <3>1. PICK k \in e : Excused(game[g].lines[k])
      <4>1. CASE e \in game[g].events  BY <1>3, <4>1 DEF Listens, EachByItself
      <4>2. CASE e = Open(g)  BY <1>3, <4>2 DEF Listens, OpenTogether
      <4> QED  BY <2>2, <4>1, <4>2 DEF Open
    <3> QED  BY <1>1, <1>4, <3>1 DEF Excused
  <2> QED  BY <1>1, <1>2, <1>3, <1>5, <2>2, <2>3, <2>4 DEF Listens, OpenExcused, OpenTogether
<1> QED  BY <1>6, <1>7

LEMMA GameHeard ==
  ASSUME StreamInv, NEW h \in Game, Command(h) \/ GameEnds(h), NEW g \in streams' \ dead'
  PROVE  Listens(g)'
<1>1. UNCHANGED <<game, mx, sends, commands, pinged>>  BY DEF Command, GameEnds
<1>2. g \in Game /\ joined \in [Game -> Nat] /\ Len(commands) \in Nat
  BY GameSound DEF StreamInv, StreamTypes, Sound
<1>3. CASE g \in streams \ dead
  <2>1. joined'[g] = joined[g]  BY <1>2, <1>3 DEF Command, GameEnds
  <2>2. Listens(g)  BY <1>3 DEF StreamInv
  <2> QED  BY <1>1, <2>1, <2>2 DEF Listens, InTheirOrder, Arrived, OpenExcused, OpenTogether, EachByItself,
                                  Open, EndComes, IsSent, AboutToEnd, Excused
<1>4. CASE g \notin streams \ dead
  <2>1. g = h /\ Command(h)  BY <1>4 DEF Command, GameEnds
  <2>2. game[g] = NewGame /\ joined'[g] = Len(commands)  BY <1>2, <2>1 DEF StreamInv, Command
  <2>3. /\ game'[g].comment = FALSE /\ game'[g].lines = <<>> /\ game'[g].ended = 0 /\ game'[g].events = {}
    BY <1>1, <2>2 DEF NewGame
  <2>4. Open(g)' = {} /\ DOMAIN game'[g].lines = {} /\ joined'[g] + 1..Len(commands') = {}
    BY <1>1, <1>2, <2>2, <2>3 DEF Open
  <2> QED  BY <1>1, <1>2, <2>2, <2>3, <2>4
           DEF Listens, InTheirOrder, Arrived, OpenExcused, OpenTogether, EachByItself
<1> QED  BY <1>3, <1>4

-----------------------------------------------------------------------------
LEMMA StreamStep == ASSUME StreamAssumption, StreamInv, [StreamNext]_stream_vars PROVE StreamInv'
<1>1. ASSUME Sound', Silent', \A g \in streams' \ dead' : Listens(g)'  PROVE StreamInv'
  BY <1>1 DEF Sound, Silent, StreamInv
<1>2. ASSUME NEW s \in Player, Send(s) PROVE StreamInv'
  <2>1. UNCHANGED <<streams, dead, game, commands, joined, pinged>> /\ sends[s].at = "idle"  BY <1>2 DEF Send
  <2>2. Silent'  BY <2>1 DEF StreamInv, Silent
  <2>3. /\ sends'[Timer] = sends[Timer] /\ \A t \in Player : sends[t].at = "end" => sends'[t] = sends[t]
    <3>1. s # Timer /\ sends \in [Sender -> Stage] /\ Timer \in Sender /\ Player \subseteq Sender
      BY Senders DEF StreamInv, StreamTypes
    <3> QED  BY <1>2, <2>1, <3>1 DEF Send
  <2>4. ASSUME NEW g \in streams' \ dead' PROVE Listens(g)'
    <3>1. Listens(g)  BY <2>1, <2>4 DEF StreamInv
    <3>2. EndComes => EndComes'  BY <2>3 DEF EndComes
    <3>3. \A x : AboutToEnd(x) => AboutToEnd(x)'  BY <2>3 DEF AboutToEnd, Player
    <3>4. OpenExcused(g)'
      <4> SUFFICES ASSUME NEW i \in Open(g) PROVE (Excused(game[g].lines[i]) \/ AboutToEnd(game[g].lines[i]))'
        BY <2>1 DEF OpenExcused, Open
      <4>1. Excused(game[g].lines[i]) \/ AboutToEnd(game[g].lines[i])  BY <3>1 DEF Listens, OpenExcused
      <4> QED  BY <2>1, <3>3, <4>1 DEF Excused, AboutToEnd
    <3> QED  BY <2>1, <2>3, <3>1, <3>2, <3>4 DEF Listens, InTheirOrder, Arrived, OpenTogether, EachByItself,
                                  Open, IsSent, Excused
  <2> QED  BY <1>1, <1>2, <2>2, <2>4, SendSound
<1>3. ASSUME NEW s \in Player, SendLine(s) PROVE StreamInv'  BY <1>1, <1>3, LineSound, LineHeard
<1>4. ASSUME NEW s \in Player, SendBlank(s) PROVE StreamInv'  BY <1>1, <1>4, BlankSound, BlankHeard
<1>5. CASE Ping \/ PingEnd  BY <1>1, <1>5, TimerSound, TimerHeard
<1>6. ASSUME NEW h \in Game, Command(h) \/ GameEnds(h) PROVE StreamInv'  BY <1>1, <1>6, GameSound, GameHeard
<1>7. CASE UNCHANGED stream_vars
  BY <1>7 DEF stream_vars, StreamInv, StreamTypes, Its, Locked, Numbered, Listens, InTheirOrder, Arrived,
     OpenExcused, OpenTogether, EachByItself, Open, EndComes, IsSent, AboutToEnd, Excused
<1> QED  BY <1>2, <1>3, <1>4, <1>5, <1>6, <1>7 DEF StreamNext, Player

LEMMA StreamWhole == ASSUME StreamAssumption, StreamInv PROVE CommandsWhole
<1> SUFFICES ASSUME \A s \in Sender : sends[s].at = "idle", NEW g \in streams \ dead
             PROVE  NothingLost(g) /\ InTheirOrder(g) /\ EachByItself(g)
  BY DEF CommandsWhole
<1>1. Listens(g) /\ game[g].ended \in Nat /\ Len(game[g].lines) \in Nat /\ game[g].ended <= Len(game[g].lines)
      /\ DOMAIN game[g].lines = 1..Len(game[g].lines)
  BY Heard
<1>2. ~EndComes  BY Senders DEF EndComes
<1>3. Open(g) = {}  BY <1>1, <1>2 DEF Listens
<1>4. game[g].ended = Len(game[g].lines)
  <2>1. Len(game[g].lines) \notin Open(g)  BY <1>3
  <2> QED  BY <1>1, <2>1 DEF Open
<1>5. NothingLost(g)  BY <1>1, <1>4 DEF Listens, Arrived, NothingLost
<1> QED  BY <1>1, <1>5 DEF Listens

\* CommandsWhole, for any sessions, games and number of commands.
THEOREM GamesGetTheirCommands == ASSUME StreamAssumption PROVE StreamSpec => []CommandsWhole
<1>1. StreamInit => StreamInv  BY StreamStart
<1>2. StreamInv /\ [StreamNext]_stream_vars => StreamInv'  BY StreamStep
<1>3. StreamInv => CommandsWhole  BY StreamWhole
<1> QED  BY <1>1, <1>2, <1>3, PTL DEF StreamSpec
=============================================================================
