------------------------ MODULE SaveControl_proofs ------------------------
(***************************************************************************)
(* Proofs about Save and Revert: for every set of editors, every way their *)
(* callbacks are written and every number of mounts, edits and calls, the  *)
(* bar speaks for the editor on top, unsaved data is marked, and the game  *)
(* reloads only what the server has.                                       *)
(***************************************************************************)
EXTENDS SaveControl, SequenceTheorems, TLAPS

(***************************************************************************)
(* What the steps do to the stack and to the link, by positions.           *)
(***************************************************************************)
Req(op, i, by) == [op |-> op, inst |-> i, val |-> doc[i], by |-> by]
Grows(s, t, x) == /\ Len(s) \in Nat /\ Len(t) = Len(s) + 1
                  /\ DOMAIN s = 1..Len(s) /\ DOMAIN t = 1..Len(s) + 1 /\ t # <<>>
                  /\ t[Len(s) + 1] = x /\ \A k \in 1..Len(s) : t[k] = s[k]
Shrinks(s, t, x) == /\ Len(t) \in Nat /\ Len(s) = Len(t) + 1
                    /\ DOMAIN s = 1..Len(t) + 1 /\ DOMAIN t = 1..Len(t)
                    /\ s[1] = x /\ \A k \in 1..Len(t) : t[k] = s[k + 1]
LosesAt(s, t, n) == /\ Len(t) \in Nat /\ Len(s) = Len(t) + 1
                    /\ DOMAIN s = 1..Len(t) + 1 /\ DOMAIN t = 1..Len(t) /\ n \in 1..Len(t) + 1
                    /\ \A k \in 1..Len(t) : t[k] = IF k < n THEN s[k] ELSE s[k + 1]

LEMMA Appended ==
  ASSUME NEW S, NEW s \in Seq(S), NEW x \in S
  PROVE  Append(s, x) \in Seq(S) /\ Grows(s, Append(s, x), x)
<1>1. Len(s) \in Nat /\ DOMAIN s = 1..Len(s)
  BY LenProperties
<1>2. Append(s, x) \in Seq(S) /\ Len(Append(s, x)) = Len(s) + 1
  BY AppendProperties
<1>3. DOMAIN Append(s, x) = 1..Len(s) + 1
  BY <1>2, LenProperties
<1> QED
  BY <1>1, <1>2, <1>3, AppendProperties DEF Grows

LEMMA Tailed ==
  ASSUME NEW S, NEW s \in Seq(S), s # <<>>
  PROVE  Tail(s) \in Seq(S) /\ Shrinks(s, Tail(s), Head(s)) /\ Head(s) \in S
<1>1. Len(s) \in Nat /\ Len(s) > 0
  BY EmptySeq, LenProperties
<1>2. Tail(s) \in Seq(S) /\ Len(Tail(s)) = Len(s) - 1
  BY HeadTailProperties
<1>3. DOMAIN s = 1..Len(s) /\ DOMAIN Tail(s) = 1..Len(s) - 1
  BY <1>2, LenProperties
<1> QED
  BY <1>1, <1>2, <1>3, HeadTailProperties DEF Shrinks

LEMMA RemovedAt ==
  ASSUME NEW S, NEW s \in Seq(S), NEW n \in 1..Len(s)
  PROVE  RemoveAt(s, n) \in Seq(S) /\ LosesAt(s, RemoveAt(s, n), n)
<1> DEFINE a == SubSeq(s, 1, n - 1)
           b == SubSeq(s, n + 1, Len(s))
<1>1. Len(s) \in Nat /\ n \in Nat /\ n >= 1 /\ n <= Len(s)
  BY LenProperties
<1>2. a \in Seq(S) /\ Len(a) = n - 1 /\ \A k \in 1..n - 1 : a[k] = s[k]
  BY <1>1, SubSeqProperties
<1>3. b \in Seq(S) /\ Len(b) = Len(s) - n /\ \A k \in 1..Len(s) - n : b[k] = s[n + k]
  BY <1>1, SubSeqProperties
<1> HIDE DEF a, b
<1>4. /\ a \o b \in Seq(S) /\ Len(a \o b) = Len(s) - 1
      /\ \A k \in 1..Len(s) - 1 : (a \o b)[k] = IF k <= n - 1 THEN a[k] ELSE b[k - (n - 1)]
  <2>1. Len(a) + Len(b) = Len(s) - 1
    BY <1>1, <1>2, <1>3
  <2>2. /\ a \o b \in Seq(S) /\ Len(a \o b) = Len(a) + Len(b)
        /\ \A k \in 1..Len(a) + Len(b) :
             (a \o b)[k] = IF k <= Len(a) THEN a[k] ELSE b[k - Len(a)]
    BY <1>2, <1>3, ConcatProperties
  <2> QED
    BY <1>2, <2>1, <2>2
<1>5. \A k \in 1..Len(s) - 1 : (a \o b)[k] = IF k < n THEN s[k] ELSE s[k + 1]
  <2> TAKE k \in 1..Len(s) - 1
  <2>1. CASE k < n
    BY <1>1, <1>2, <1>4, <2>1
  <2>2. CASE ~(k < n)
    <3>1. k - (n - 1) \in 1..Len(s) - n /\ n + (k - (n - 1)) = k + 1
      BY <1>1, <2>2
    <3> QED
      BY <1>1, <1>3, <1>4, <2>2, <3>1
  <2> QED
    BY <2>1, <2>2
<1>6. RemoveAt(s, n) = a \o b
  BY DEF RemoveAt, a, b
<1>7. DOMAIN s = 1..Len(s) /\ DOMAIN (a \o b) = 1..Len(s) - 1
  BY <1>4, LenProperties
<1>8. LosesAt(s, a \o b, n)
  BY <1>1, <1>4, <1>5, <1>7 DEF LosesAt
<1> QED
  BY <1>4, <1>6, <1>8

\* A control is found where it is.
LEMMA Found ==
  ASSUME TypeOK, Stacked, NEW i \in Inst, Registered(i)
  PROVE  LET k == SelectInSeq(stack, LAMBDA j : j = i)
         IN k \in 1..Len(stack) /\ stack[k] = i
<1>1. PICK k \in 1..Len(stack) : stack[k] = i
  BY DEF Registered, TypeOK
<1>2. \A l \in 1..Len(stack) : stack[l] = i => l = k
  <2> SUFFICES ASSUME NEW l \in 1..Len(stack), stack[l] = i, l # k PROVE FALSE
    OBVIOUS
  <2>1. l < k \/ k < l
    OBVIOUS
  <2>2. i[2] \in Nat
    BY KindAssumption DEF Inst
  <2>3. DOMAIN stack = 1..Len(stack)
    BY LenProperties DEF TypeOK
  <2>4. stack[l][2] < stack[k][2] \/ stack[k][2] < stack[l][2]
    BY <2>1, <2>3 DEF Stacked
  <2> QED
    BY <1>1, <2>2, <2>4
<1>3. {l \in 1..Len(stack) : stack[l] = i} = {k}
  BY <1>1, <1>2
<1> QED
  <2>1. SelectInSeq(stack, LAMBDA j : j = i) = Min({k})
    BY <1>3 DEF SelectInSeq
  <2>2. Min({k}) = k
    BY DEF Min
  <2> QED
    BY <1>1, <2>1, <2>2

\* A call that is sent, one that is served, a control that leaves the stack, the
\* one on top.
LEMMA Sending ==
  ASSUME TypeOK, NEW i \in Inst, NEW op \in {"put", "load", "reload"},
         NEW by \in {"save", "revert", "mount", "unmount", "reload"}
  PROVE  /\ Req(op, i, by) \in Call
         /\ Send(op, i, by) \in Seq(Call) /\ Grows(link, Send(op, i, by), Req(op, i, by))
<1>1. Req(op, i, by) \in Call
  BY DEF Req, Call, TypeOK
<1> QED
  BY <1>1, Appended DEF Send, Req, TypeOK

LEMMA Serving ==
  ASSUME TypeOK, NEW r, Served(r)
  PROVE  /\ r \in Call /\ link' \in Seq(Call) /\ Shrinks(link, link', r)
<1>1. link \in Seq(Call)
  BY DEF TypeOK
<1> QED
  BY <1>1, Tailed, LenProperties DEF Served

LEMMA Leaving ==
  ASSUME TypeOK, Stacked, NEW i \in Inst, Registered(i), RemoveMe(i)
  PROVE  \E n \in 1..Len(stack) :
           /\ stack' \in Seq(Inst) /\ LosesAt(stack, stack', n) /\ stack[n] = i
           /\ IF n = Len(stack) THEN UpdateUI ELSE UNCHANGED ui
<1> DEFINE n == SelectInSeq(stack, LAMBDA j : j = i)
<1>1. n \in 1..Len(stack) /\ stack[n] = i
  BY Found
<1>2. stack \in Seq(Inst) /\ n # 0
  BY <1>1 DEF TypeOK
<1>3. /\ stack' = RemoveAt(stack, n)
      /\ IF n = Len(stack) THEN UpdateUI ELSE UNCHANGED ui
  BY <1>2 DEF RemoveMe
<1> HIDE DEF n
<1> QED
  BY <1>1, <1>2, <1>3, RemovedAt

LEMMA Top ==
  ASSUME TypeOK, stack # <<>>
  PROVE  Len(stack) \in Nat \ {0} /\ Last(stack) = stack[Len(stack)] /\ Last(stack) \in Inst
<1>1. stack \in Seq(Inst)
  BY DEF TypeOK
<1>2. Len(stack) \in Nat \ {0}
  BY <1>1, EmptySeq
<1> QED
  BY <1>1, <1>2 DEF Last

LEMMA Members ==
  ASSUME TypeOK
  PROVE  /\ \A k \in DOMAIN stack : stack[k] \in Inst
         /\ \A q \in DOMAIN link : link[q] \in Call
<1>1. stack \in Seq(Inst) /\ link \in Seq(Call)
  BY DEF TypeOK
<1> QED
  BY <1>1, LenProperties

LEMMA Fields ==
  /\ \A j \in Inst : j[2] \in Nat /\ EditorOf(j) \in Editor
  /\ \A c \in Call : c.inst \in Inst /\ c.inst[2] \in Nat /\ c.val \in Nat
<1>1. \A j \in Inst : j[2] \in Nat /\ EditorOf(j) \in Editor
  BY KindAssumption DEF Inst, EditorOf
<1>2. \A c \in Call : c.inst \in Inst /\ c.val \in Nat
  BY DEF Call
<1> QED
  BY <1>1, <1>2

\* A control says that its state changed.
LEMMA Notifying ==
  ASSUME TypeOK, Bar, NEW i \in Inst, stack' = stack, changed' \in [Inst -> BOOLEAN],
         \A j \in Inst : j # i => changed'[j] = changed[j], NotifyMe(i)
  PROVE  /\ ui' \in [show : BOOLEAN, enabled : BOOLEAN] /\ Bar'
         /\ stack # <<>> /\ Last(stack) = i => (ui'.enabled <=> changed'[i])
         /\ ~(stack # <<>> /\ Last(stack) = i) => ui' = ui
<1>1. CASE stack # <<>> /\ Last(stack) = i
  <2>1. ui' = [show |-> stack' # <<>>, enabled |-> CanSave(stack', changed')]
    BY <1>1 DEF NotifyMe, UpdateUI
  <2>2. CanSave(stack', changed') \in BOOLEAN /\ (CanSave(stack', changed') <=> changed'[i])
    BY <1>1 DEF CanSave
  <2>3. /\ ui'.show = (stack' # <<>>) /\ ui'.enabled = CanSave(stack', changed')
        /\ ui' \in [show : BOOLEAN, enabled : BOOLEAN]
    BY <2>1, <2>2
  <2> QED
    BY <1>1, <2>2, <2>3 DEF Bar
<1>2. CASE ~(stack # <<>> /\ Last(stack) = i)
  <2>1. ui' = ui /\ ui \in [show : BOOLEAN, enabled : BOOLEAN]
    BY <1>2 DEF NotifyMe, TypeOK
  <2>2. stack # <<>> => changed'[Last(stack)] = changed[Last(stack)]
    BY <1>2, Top
  <2> QED
    BY <1>2, <2>1, <2>2 DEF Bar, CanSave
<1> QED
  BY <1>1, <1>2

\* Calls are added to the link: what is safe stays so, and a put of the newest
\* control of an editor comes after all of that editor that are on the way.
Begins(s, t) == /\ Len(s) \in Nat /\ Len(t) \in Nat /\ Len(s) <= Len(t)
                /\ DOMAIN s = 1..Len(s) /\ DOMAIN t = 1..Len(t)
                /\ \A k \in 1..Len(s) : t[k] = s[k]

LEMMA SafeStays ==
  ASSUME Begins(link, link'), stored' = stored, excused \subseteq excused'
  PROVE  /\ \A e, v, n : Safe(e, v, n) => Safe(e, v, n)'
         /\ \A j : doc'[j] = doc[j] /\ SafeDoc(j) => SafeDoc(j)'
<1>1. \A e, v, n : Safe(e, v, n) => Safe(e, v, n)'
  BY DEF Begins, Safe, PutAt
<1>2. \A j : doc'[j] = doc[j] /\ SafeDoc(j) => SafeDoc(j)'
  BY DEF Begins, SafeDoc, Safe, PutAt
<1> QED
  BY <1>1, <1>2

LEMMA NewPut ==
  ASSUME TypeOK, Rising, Ahead, NEW k \in DOMAIN stack, Begins(link, link'),
         \A q \in DOMAIN link' : q \notin DOMAIN link /\ link'[q].op = "put" =>
           /\ q = Len(link) + 1 /\ Newest(k) /\ changed[stack[k]]
           /\ Same(link'[q].inst, stack[k]) /\ link'[q].val = doc[stack[k]],
         UNCHANGED <<doc, edits, stored>>
  PROVE  Rising'
<1> SUFFICES ASSUME NEW q \in DOMAIN link', link'[q].op = "put"
             PROVE  /\ link'[q].val <= edits + 1
                    /\ stored[EditorOf(link'[q].inst)] <= link'[q].val
                    /\ \A p \in DOMAIN link' :
                         p < q /\ link'[p].op = "put" /\ Same(link'[p].inst, link'[q].inst)
                           => link'[p].val <= link'[q].val
  BY DEF Rising, PutAt, Same
<1>1. CASE q \in DOMAIN link
  BY <1>1 DEF Rising, PutAt, Same, Begins
<1>2. CASE q \notin DOMAIN link
  <2>1. /\ q = Len(link) + 1 /\ Newest(k) /\ changed[stack[k]]
        /\ Same(link'[q].inst, stack[k]) /\ link'[q].val = doc[stack[k]]
    BY <1>2
  <2>2. \A p \in DOMAIN link' : p < q => p \in DOMAIN link /\ link'[p] = link[p]
    BY <2>1 DEF Begins
  <2>3. stack[k] \in Inst
    BY Members
  <2> QED
    BY <2>1, <2>2, <2>3 DEF Ahead, PutAt, Same, Rising
<1> QED
  BY <1>1, <1>2

(***************************************************************************)
(* The steps of the editors.                                               *)
(***************************************************************************)
LEMMA MountKeeps ==
  ASSUME IInv, NEW e \in Editor, Mount(e)
  PROVE  IInv'
<1>1. TypeOK /\ Stacked /\ Bar /\ Loads /\ Buried /\ Rising /\ Ahead /\ AllSafe
  BY DEF IInv
<1>2. PICK i \in Inst : /\ EditorOf(i) = e /\ i[2] = mounts + 1
                       /\ live' = live \cup {i} /\ stack' = Append(stack, i)
                       /\ Sent("load", i, "mount")
                       /\ hidden' = IF KindOf(i) = "swallows" THEN hidden \cup {i} ELSE hidden
  <2>1. <<e, mounts + 1>> \in Inst
    BY <1>1, KindAssumption DEF Mount, TypeOK, Inst
  <2> QED
    BY <2>1 DEF EditorOf, KindOf, Mount
<1>3. stack' \in Seq(Inst) /\ Grows(stack, stack', i)
  BY <1>1, <1>2, Appended DEF TypeOK
<1>4. PICK r \in Call : /\ link' \in Seq(Call) /\ Grows(link, link', r)
                       /\ r.op = "load" /\ r.inst = i /\ r.by = "mount"
  <2>1. link' = Send("load", i, "mount")
    BY <1>2 DEF Sent
  <2>2. LET r == Req("load", i, "mount") IN r.op = "load" /\ r.inst = i /\ r.by = "mount"
    BY DEF Req
  <2> QED
    BY <1>1, <2>1, <2>2, Sending
<1>5. /\ doc[i] = 0 /\ ~changed[i] /\ i \notin hidden
  BY <1>1, <1>2 DEF Stacked, TypeOK
<1>6. UNCHANGED <<changed, doc, edits, stored, excused>> /\ mounts' = mounts + 1
  BY DEF Mount, data
<1>7. \A j \in live : ~Same(j, i)
  BY <1>2 DEF Mount, Same
<1>8. ui' = [show |-> TRUE, enabled |-> FALSE] /\ Last(stack') = i
  <2>1. stack' # <<>> /\ Last(stack') = i
    BY <1>3 DEF Last, Grows
  <2> QED
    BY <1>5, <1>6, <2>1 DEF Mount, UpdateUI, CanSave
<1>10. TypeOK'
  BY <1>1, <1>2, <1>3, <1>4, <1>6, <1>8 DEF TypeOK
<1>11. Stacked'
  <2> USE Members, Fields
  <2>0. mounts \in Nat
    BY <1>1 DEF TypeOK
  <2>1. \A k \in DOMAIN stack' : stack'[k][2] <= mounts'
    BY <1>1, <1>2, <1>3, <1>6, <2>0 DEF Stacked, Grows
  <2>2. \A k, l \in DOMAIN stack' : k < l => stack'[k][2] < stack'[l][2]
    BY <1>1, <1>2, <1>3, <2>0 DEF Stacked, Grows
  <2>3. \A j \in live' : \E k \in DOMAIN stack' : stack'[k] = j
    BY <1>1, <1>2, <1>3, <1>6 DEF Stacked, Registered, Grows
  <2>4. \A j \in live' : \A k \in DOMAIN stack' : Same(stack'[k], j) => stack'[k][2] <= j[2]
    <3> SUFFICES ASSUME NEW j \in live', NEW k \in DOMAIN stack', Same(stack'[k], j)
                 PROVE  stack'[k][2] <= j[2]
      OBVIOUS
    <3>1. CASE j = i
      BY <1>2, <1>6, <2>1, <3>1
    <3>2. CASE j # i
      <4>1. j \in live /\ stack'[k] # i
        BY <1>2, <1>7, <3>2 DEF Same
      <4>2. k \in DOMAIN stack /\ stack'[k] = stack[k]
        BY <1>3, <4>1 DEF Grows
      <4> QED
        BY <1>1, <4>1, <4>2 DEF Stacked
    <3> QED
      BY <3>1, <3>2
  <2>5. \A q \in DOMAIN link' : link'[q].inst[2] <= mounts'
    BY <1>1, <1>2, <1>4, <1>6, <2>0 DEF Stacked, Grows
  <2>6. \A j \in Inst : j[2] > mounts' => ~changed'[j] /\ doc'[j] = 0 /\ j \notin hidden'
    BY <1>1, <1>2, <1>6, <2>0 DEF Stacked, TypeOK
  <2> QED
    BY <2>1, <2>2, <2>3, <2>4, <2>5, <2>6 DEF Stacked, Registered, Same
<1>12. Bar'
  BY <1>3, <1>8 DEF Bar, Grows
<1>13. Loads'
  <2>1. \A j \in hidden' : /\ KindOf(j) = "swallows"
                           /\ \E q \in DOMAIN link' : link'[q].op = "load" /\ link'[q].inst = j
    BY <1>1, <1>2, <1>4, <1>6 DEF Loads, Grows
  <2>2. ASSUME NEW q \in DOMAIN link', link'[q].by = "mount"
        PROVE  /\ link'[q].op = "load"
               /\ \A p \in DOMAIN link' : p < q => link'[p].inst # link'[q].inst
    <3>1. CASE q \in DOMAIN link
      BY <1>1, <1>4, <2>2, <3>1 DEF Loads, Grows
    <3>2. CASE q \notin DOMAIN link
      <4>1. \A p \in DOMAIN link : link[p].inst[2] # i[2]
        BY <1>1, <1>2, Members, Fields DEF Stacked, TypeOK
      <4> QED
        BY <1>4, <3>2, <4>1 DEF Grows
    <3> QED
      BY <3>1, <3>2
  <2>3. \A q \in DOMAIN link' : link'[q].by = "mount" =>
          (KindOf(link'[q].inst) = "swallows" =>
             ~changed'[link'[q].inst] /\ link'[q].inst \in hidden')
    BY <1>1, <1>2, <1>4, <1>5, <1>6 DEF Loads, Grows
  <2>4. \A k \in DOMAIN stack' : stack'[k] \notin live' =>
          KindOf(stack'[k]) = "swallows" /\ (changed'[stack'[k]] => stack'[k] \in hidden')
    BY <1>1, <1>2, <1>3, <1>6 DEF Loads, Grows
  <2> QED
    BY <2>1, <2>2, <2>3, <2>4 DEF Loads
<1>14. Buried'
  <2> SUFFICES ASSUME NEW k \in DOMAIN stack', NEW l \in DOMAIN stack', k < l,
                      Same(stack'[k], stack'[l]), changed'[stack'[k]],
                      stack'[l] \in live'
               PROVE  /\ stack'[l] \in hidden'
                      /\ \E p, q \in DOMAIN link' :
                           /\ p < q /\ link'[p].op = "load" /\ link'[p].inst = stack'[k]
                           /\ link'[q].by = "mount" /\ link'[q].inst = stack'[l]
    BY DEF Buried
  <2>1. k \in DOMAIN stack /\ stack'[k] = stack[k]
    BY <1>3 DEF Grows
  <2>2. CASE stack'[l] = i
    <3>1. stack[k] \notin live /\ changed[stack[k]]
      BY <1>6, <1>7, <2>1, <2>2
    <3>2. stack[k] \in hidden /\ KindOf(stack[k]) = "swallows"
      BY <1>1, <2>1, <3>1 DEF Loads
    <3>3. PICK p \in DOMAIN link : link[p].op = "load" /\ link[p].inst = stack[k]
      BY <1>1, <3>2 DEF Loads
    <3>4. KindOf(i) = KindOf(stack[k])
      BY <2>1, <2>2 DEF KindOf, Same
    <3>5. p \in DOMAIN link' /\ link'[p] = link[p] /\ p < Len(link) + 1
      BY <1>4 DEF Grows
    <3>6. Len(link) + 1 \in DOMAIN link' /\ link'[Len(link) + 1] = r
      BY <1>4 DEF Grows
    <3> QED
      BY <1>2, <1>4, <2>1, <2>2, <3>2, <3>3, <3>4, <3>5, <3>6
  <2>3. CASE stack'[l] # i
    <3>1. l \in DOMAIN stack /\ stack'[l] = stack[l] /\ stack[l] \in live
      BY <1>2, <1>3, <2>3 DEF Grows
    <3>2. /\ stack[l] \in hidden
          /\ \E p, q \in DOMAIN link :
               /\ p < q /\ link[p].op = "load" /\ link[p].inst = stack[k]
               /\ link[q].by = "mount" /\ link[q].inst = stack[l]
      BY <1>1, <1>6, <2>1, <3>1 DEF Buried
    <3> QED
      BY <1>2, <1>4, <2>1, <3>1, <3>2 DEF Grows
  <2> QED
    BY <2>2, <2>3
<1>15. Rising'
  BY <1>1, <1>4, <1>6 DEF Rising, PutAt, Grows
<1>16. Ahead'
  <2> SUFFICES ASSUME NEW k \in DOMAIN stack', Newest(k)', changed'[stack'[k]]
               PROVE  /\ stored'[EditorOf(stack'[k])] <= doc'[stack'[k]]
                      /\ \A q \in DOMAIN link' :
                           link'[q].op = "put" /\ Same(link'[q].inst, stack'[k])
                             => link'[q].val <= doc'[stack'[k]]
    BY DEF Ahead, PutAt, Same
  <2>1. k \in DOMAIN stack /\ stack'[k] = stack[k]
    BY <1>3, <1>5, <1>6 DEF Grows
  <2>2. Newest(k)
    BY <1>3, <2>1 DEF Newest, Grows
  <2> QED
    BY <1>1, <1>4, <1>6, <2>1, <2>2 DEF Ahead, PutAt, Grows, Same
<1>17. AllSafe'
  <2>1. \A f, v, n : n <= Len(link) + 1 /\ Safe(f, v, n) => Safe(f, v, n)'
    BY <1>1, <1>4, <1>6 DEF Safe, PutAt, Grows
  <2>2. \A j : SafeDoc(j) => SafeDoc(j)'
    BY <1>1, <1>4, <1>6 DEF SafeDoc, Safe, PutAt, Grows
  <2>3. SafeDoc(i)'
    BY <1>1, <1>2, <1>5, <1>6 DEF SafeDoc, Safe, TypeOK
  <2>4. \A k \in DOMAIN stack' : changed'[stack'[k]] \/ SafeDoc(stack[k])'
    BY <1>1, <1>3, <1>6, <2>2, <2>3 DEF AllSafe, Grows
  <2>5. \A q \in DOMAIN link' : link'[q].op = "reload" =>
          Safe(EditorOf(link[q].inst), link[q].val, q)'
    BY <1>1, <1>4, <1>6, <2>1 DEF AllSafe, Grows
  <2> QED
    BY <1>8, <2>3, <2>4, <2>5 DEF AllSafe
<1> QED
  BY <1>10, <1>11, <1>12, <1>13, <1>14, <1>15, <1>16, <1>17 DEF IInv

LEMMA EditKeeps ==
  ASSUME IInv, NEW i \in Inst, Edit(i)
  PROVE  IInv'
<1>1. TypeOK /\ Stacked /\ Bar /\ Loads /\ Buried /\ Rising /\ Ahead /\ AllSafe
  BY DEF IInv
<1>2. /\ UNCHANGED <<live, mounts, hidden, stored, link, stack>>
      /\ i \in live /\ edits' = edits + 1 /\ doc' = [doc EXCEPT ![i] = edits + 2]
      /\ changed' = IF i \in hidden THEN changed ELSE [changed EXCEPT ![i] = TRUE]
      /\ excused' = IF i \in hidden THEN excused \cup {edits + 2} ELSE excused
  BY DEF Edit
<1>3. /\ edits \in Nat /\ doc \in [Inst -> Nat] /\ changed \in [Inst -> BOOLEAN]
      /\ stored \in [Editor -> Nat]
  BY <1>1 DEF TypeOK
<1>4. /\ ui' \in [show : BOOLEAN, enabled : BOOLEAN] /\ Bar'
      /\ stack # <<>> /\ Last(stack) = i => (ui'.enabled <=> changed'[i])
      /\ ~(stack # <<>> /\ Last(stack) = i) => ui' = ui
  <2>1. NotifyMe(i) /\ stack' = stack /\ changed' \in [Inst -> BOOLEAN]
    BY <1>2, <1>3 DEF Edit
  <2>2. \A j \in Inst : j # i => changed'[j] = changed[j]
    BY <1>2, <1>3
  <2> QED
    BY <1>1, <2>1, <2>2, Notifying
<1>5. /\ doc'[i] = edits + 2 /\ \A j \in Inst : j # i => doc'[j] = doc[j]
      /\ \A j \in Inst : j # i \/ i \in hidden => changed'[j] = changed[j]
      /\ i \notin hidden => changed'[i]
  BY <1>2, <1>3
<1>6. TypeOK'
  <2>1. changed' \in [Inst -> BOOLEAN] /\ doc' \in [Inst -> Nat]
    BY <1>2, <1>3
  <2> QED
    BY <1>1, <1>2, <1>3, <1>4, <2>1 DEF TypeOK
<1>7. Stacked'
  <2>1. i[2] <= mounts
    BY <1>1, <1>2 DEF Stacked, Registered
  <2>2. \A j \in Inst : j[2] > mounts => j # i
    BY <1>1, <2>1, Fields DEF TypeOK
  <2> QED
    BY <1>1, <1>2, <1>5, <2>2 DEF Stacked, Registered
<1>9. Loads'
  <2>1. \A q \in DOMAIN link' : link'[q].by = "mount" =>
          /\ link'[q].op = "load"
          /\ \A p \in DOMAIN link' : p < q => link'[p].inst # link'[q].inst
          /\ (KindOf(link'[q].inst) = "swallows" =>
                ~changed'[link'[q].inst] /\ link'[q].inst \in hidden')
    BY <1>1, <1>2, <1>5, Members, Fields DEF Loads
  <2>2. \A k \in DOMAIN stack' : stack'[k] \notin live' =>
          KindOf(stack'[k]) = "swallows" /\ (changed'[stack'[k]] => stack'[k] \in hidden')
    BY <1>1, <1>2, <1>5, Members DEF Loads
  <2> QED
    BY <1>1, <1>2, <2>1, <2>2 DEF Loads
<1>10. Buried'
  <2> SUFFICES ASSUME NEW k \in DOMAIN stack, NEW l \in DOMAIN stack, k < l,
                      Same(stack[k], stack[l]), changed'[stack[k]], ~changed[stack[k]]
               PROVE  FALSE
    BY <1>1, <1>2 DEF Buried
  <2>1. stack[k] = i
    BY <1>1, <1>5, Members
  <2>2. stack[l][2] <= i[2] /\ i[2] < stack[l][2]
    BY <1>1, <1>2, <2>1 DEF Stacked, Same
  <2> QED
    BY <1>1, <2>2, Members, Fields
<1>11. Rising'
  <2>1. \A f \in Editor : stored'[f] <= edits' + 1
    BY <1>1, <1>2, <1>3 DEF Rising
  <2>2. \A j \in Inst : doc'[j] <= edits' + 1
    BY <1>1, <1>2, <1>3, <1>5 DEF Rising
  <2>3. \A q \in DOMAIN link : link[q].val <= edits + 1 => link[q].val <= edits' + 1
    BY <1>1, <1>2, <1>3, Members, Fields
  <2> QED
    BY <1>1, <1>2, <2>1, <2>2, <2>3 DEF Rising, PutAt
<1>12. Ahead'
  <2> SUFFICES ASSUME NEW k \in DOMAIN stack, Newest(k), changed'[stack[k]]
               PROVE  /\ stored[EditorOf(stack[k])] <= doc'[stack[k]]
                      /\ \A q \in DOMAIN link : PutAt(q, EditorOf(stack[k]))
                           => link[q].val <= doc'[stack[k]]
    BY <1>2 DEF Ahead, Newest, PutAt
  <2>1. CASE stack[k] = i
    <3>1. stored[EditorOf(i)] <= edits + 1 /\ stored[EditorOf(i)] \in Nat
      BY <1>1, <1>3, Fields DEF Rising
    <3>2. \A q \in DOMAIN link : link[q].op = "put" => link[q].val <= edits + 1 /\ link[q].val \in Nat
      BY <1>1, Members, Fields DEF Rising
    <3> QED
      BY <1>3, <1>5, <2>1, <3>1, <3>2 DEF PutAt
  <2>2. CASE stack[k] # i
    BY <1>1, <1>5, <2>2, Members DEF Ahead
  <2> QED
    BY <2>1, <2>2
<1>13. AllSafe'
  <2>1. \A f, v, n : Safe(f, v, n) => Safe(f, v, n)'
    BY <1>2 DEF Safe, PutAt
  <2>2. \A j \in Inst : (j # i /\ SafeDoc(j)) \/ (j = i /\ i \in hidden) => SafeDoc(j)'
    BY <1>2, <1>5 DEF SafeDoc, Safe, PutAt
  <2>3. \A k \in DOMAIN stack : changed'[stack[k]] \/ SafeDoc(stack[k])'
    BY <1>1, <1>2, <1>5, <2>2, Members DEF AllSafe
  <2>4. stack # <<>> /\ ~ui'.enabled => SafeDoc(Last(stack))'
    <3>1. CASE stack # <<>> /\ Last(stack) = i
      BY <1>2, <1>4, <1>5, <2>2, <3>1
    <3>2. CASE stack # <<>> /\ Last(stack) # i
      BY <1>1, <1>2, <1>4, <2>2, <3>2, Top DEF AllSafe
    <3> QED
      BY <3>1, <3>2
  <2>5. \A q \in DOMAIN link : link[q].op = "reload" =>
          Safe(EditorOf(link[q].inst), link[q].val, q)'
    BY <1>1, <1>2, <2>1 DEF AllSafe
  <2> QED
    BY <1>2, <2>3, <2>4, <2>5 DEF AllSafe
<1> QED
  BY <1>4, <1>6, <1>7, <1>9, <1>10, <1>11, <1>12, <1>13 DEF IInv

LEMMA UnmountKeeps ==
  ASSUME IInv, NEW i \in Inst, Unmount(i)
  PROVE  IInv'
<1>1. TypeOK /\ Stacked /\ Bar /\ Loads /\ Buried /\ Rising /\ Ahead /\ AllSafe
  BY DEF IInv
<1>2. /\ UNCHANGED <<changed, mounts, hidden, doc, edits, stored, excused>>
      /\ i \in live /\ live' = live \ {i}
  BY DEF Unmount, data
<1>3. CASE i \in hidden
  <2>1. UNCHANGED <<stack, ui, link>>
    BY <1>3 DEF Unmount
  <2>2. KindOf(i) = "swallows"
    BY <1>1, <1>3 DEF Loads
  <2>3. TypeOK' /\ Stacked' /\ Bar'
    BY <1>1, <1>2, <2>1 DEF TypeOK, Stacked, Registered, Bar
  <2>4. Loads'
    BY <1>1, <1>2, <1>3, <2>1, <2>2 DEF Loads
  <2>5. Buried'
    BY <1>1, <1>2, <2>1 DEF Buried
  <2>6. Rising' /\ Ahead'
    BY <1>1, <1>2, <2>1 DEF Rising, Ahead, Newest, PutAt
  <2>7. AllSafe'
    BY <1>1, <1>2, <2>1 DEF AllSafe, SafeDoc, Safe, PutAt
  <2> QED
    BY <2>3, <2>4, <2>5, <2>6, <2>7 DEF IInv
<1>4. CASE i \notin hidden
  <2>1. PICK n \in 1..Len(stack) :
          /\ stack' \in Seq(Inst) /\ LosesAt(stack, stack', n) /\ stack[n] = i
          /\ IF n = Len(stack) THEN UpdateUI ELSE UNCHANGED ui
    <3>1. Registered(i) /\ RemoveMe(i)
      BY <1>1, <1>2, <1>4 DEF Unmount, Stacked
    <3> QED
      BY <1>1, <3>1, Leaving
  <2>2. /\ link' \in Seq(Call) /\ Begins(link, link')
        /\ \A q \in DOMAIN link' : q \notin DOMAIN link =>
             /\ q = Len(link) + 1 /\ changed[i] /\ link'[q].op = "put"
             /\ link'[q].inst = i /\ link'[q].val = doc[i] /\ link'[q].by = "unmount"
    <3>1. CASE changed[i]
      <4>1. link' = Send("put", i, "unmount")
        BY <1>4, <3>1 DEF Unmount, Sent
      <4>2. link' \in Seq(Call) /\ Grows(link, link', Req("put", i, "unmount"))
        BY <1>1, <4>1, Sending
      <4>3. LET r == Req("put", i, "unmount")
            IN r.op = "put" /\ r.inst = i /\ r.val = doc[i] /\ r.by = "unmount"
        BY DEF Req
      <4> QED
        BY <3>1, <4>2, <4>3 DEF Grows, Begins
    <3>2. CASE ~changed[i]
      <4>1. link' = link
        BY <1>4, <3>2 DEF Unmount
      <4> QED
        BY <1>1, <4>1, LenProperties DEF Begins, TypeOK
    <3> QED
      BY <3>1, <3>2
  <2>3. \A l \in DOMAIN stack : Same(stack[l], i) => l <= n
    <3> SUFFICES ASSUME NEW l \in DOMAIN stack, Same(stack[l], i), n < l PROVE FALSE
      BY <2>1 DEF LosesAt
    <3>1. stack[l][2] <= i[2] /\ i[2] < stack[l][2]
      BY <1>1, <1>2, <2>1 DEF Stacked, LosesAt
    <3> QED
      BY <1>1, <3>1, Members, Fields
  <2> DEFINE Up(k) == IF k < n THEN k ELSE k + 1
  <2>4. /\ \A k \in DOMAIN stack' : Up(k) \in DOMAIN stack \ {n} /\ stack'[k] = stack[Up(k)]
        /\ \A k, l \in DOMAIN stack' : k < l => Up(k) < Up(l)
        /\ \A m \in DOMAIN stack \ {n} : \E k \in DOMAIN stack' : Up(k) = m
    <3>1. \A k \in DOMAIN stack' : Up(k) \in DOMAIN stack \ {n} /\ stack'[k] = stack[Up(k)]
      BY <2>1 DEF LosesAt
    <3>2. \A k, l \in DOMAIN stack' : k < l => Up(k) < Up(l)
      BY <2>1 DEF LosesAt
    <3>3. \A m \in DOMAIN stack \ {n} : m < n => m \in DOMAIN stack' /\ Up(m) = m
      BY <2>1 DEF LosesAt
    <3>4. \A m \in DOMAIN stack \ {n} : ~(m < n) => m - 1 \in DOMAIN stack' /\ Up(m - 1) = m
      BY <2>1 DEF LosesAt
    <3> QED
      BY <3>1, <3>2, <3>3, <3>4
  <2> HIDE DEF Up
  <2>5. \A m \in DOMAIN stack \ {n} : stack[m] # i
    <3> SUFFICES ASSUME NEW m \in DOMAIN stack \ {n}, stack[m] = i PROVE FALSE
      OBVIOUS
    <3>1. n < m \/ m < n
      BY <2>1 DEF LosesAt
    <3>2. i[2] < i[2]
      BY <1>1, <2>1, <3>1 DEF Stacked, LosesAt
    <3> QED
      BY <3>2, Fields
  <2>6. /\ ui' \in [show : BOOLEAN, enabled : BOOLEAN] /\ Bar'
        /\ stack' # <<>> /\ ~ui'.enabled =>
             ~changed[Last(stack')] \/ (~ui.enabled /\ stack # <<>> /\ Last(stack') = Last(stack))
    <3>1. CASE n = Len(stack)
      <4>1. ui' = [show |-> stack' # <<>>, enabled |-> CanSave(stack', changed')]
        BY <2>1, <3>1 DEF UpdateUI
      <4>2. CanSave(stack', changed') \in BOOLEAN
        <5>1. stack' # <<>> => Last(stack') \in Inst
          BY <2>1, EmptySeq, LenProperties DEF Last
        <5> QED
          BY <1>1, <1>2, <5>1 DEF CanSave, TypeOK
      <4>3. ui'.show = (stack' # <<>>) /\ ui'.enabled = CanSave(stack', changed')
        BY <4>1
      <4> QED
        BY <1>2, <4>1, <4>2, <4>3 DEF Bar, CanSave
    <3>2. CASE n # Len(stack)
      <4>1. Len(stack') \in DOMAIN stack' /\ stack'[Len(stack')] = stack[Len(stack)]
        BY <2>1, <3>2 DEF LosesAt
      <4>2. stack' # <<>> /\ stack # <<>> /\ Last(stack') = Last(stack) /\ ui' = ui
        BY <2>1, <3>2, <4>1, EmptySeq, LenProperties DEF Last
      <4> QED
        BY <1>1, <1>2, <4>2 DEF Bar, CanSave, TypeOK
    <3> QED
      BY <3>1, <3>2
  <2>13. TypeOK'
    BY <1>1, <1>2, <2>1, <2>2, <2>6 DEF TypeOK
  <2>7. Stacked'
    <3>1. \A k \in DOMAIN stack' : stack'[k][2] <= mounts
      BY <1>1, <2>4 DEF Stacked
    <3>2. \A k, l \in DOMAIN stack' : k < l => stack'[k][2] < stack'[l][2]
      BY <1>1, <2>4 DEF Stacked
    <3>3. \A j \in live' : \E k \in DOMAIN stack' : stack'[k] = j
      <4> SUFFICES ASSUME NEW j \in live, j # i PROVE \E k \in DOMAIN stack' : stack'[k] = j
        BY <1>2
      <4>1. PICK m \in DOMAIN stack : stack[m] = j
        BY <1>1 DEF Stacked, Registered
      <4>2. m # n
        BY <2>1, <4>1
      <4> QED
        BY <2>4, <4>1, <4>2
    <3>4. \A j \in live' : \A k \in DOMAIN stack' : Same(stack'[k], j) => stack'[k][2] <= j[2]
      BY <1>1, <1>2, <2>4 DEF Stacked
    <3>5. \A q \in DOMAIN link' : link'[q].inst[2] <= mounts
      <4>1. i[2] <= mounts
        BY <1>1, <1>2 DEF Stacked, Registered
      <4> QED
        BY <1>1, <2>2, <4>1 DEF Stacked, Begins
    <3> QED
      BY <1>1, <1>2, <3>1, <3>2, <3>3, <3>4, <3>5 DEF Stacked, Registered, Same
  <2>8. Loads'
    <3>1. \A q \in DOMAIN link : q \in DOMAIN link' /\ link'[q] = link[q]
      BY <2>2 DEF Begins
    <3>2. \A q \in DOMAIN link' : link'[q].by = "mount" => q \in DOMAIN link
      BY <2>2
    <3>3. \A q \in DOMAIN link : \A p \in DOMAIN link' : p < q => p \in DOMAIN link
      BY <2>2 DEF Begins
    <3>4. \A j \in hidden : /\ KindOf(j) = "swallows"
                            /\ \E q \in DOMAIN link' : link'[q].op = "load" /\ link'[q].inst = j
      BY <1>1, <3>1 DEF Loads
    <3>5. \A q \in DOMAIN link' : link'[q].by = "mount" =>
            /\ link'[q].op = "load"
            /\ \A p \in DOMAIN link' : p < q => link'[p].inst # link'[q].inst
            /\ (KindOf(link'[q].inst) = "swallows" =>
                  ~changed[link'[q].inst] /\ link'[q].inst \in hidden)
      BY <1>1, <3>1, <3>2, <3>3 DEF Loads
    <3>6. \A k \in DOMAIN stack' : stack'[k] \notin live' =>
            KindOf(stack'[k]) = "swallows" /\ (changed[stack'[k]] => stack'[k] \in hidden)
      BY <1>1, <1>2, <2>4, <2>5 DEF Loads
    <3> QED
      BY <1>2, <3>4, <3>5, <3>6 DEF Loads
  <2>9. Buried'
    <3> SUFFICES ASSUME NEW k \in DOMAIN stack', NEW l \in DOMAIN stack', k < l,
                        Same(stack'[k], stack'[l]), changed[stack'[k]], stack'[l] \in live
                 PROVE  /\ stack'[l] \in hidden
                        /\ \E p, q \in DOMAIN link' :
                             /\ p < q /\ link'[p].op = "load" /\ link'[p].inst = stack'[k]
                             /\ link'[q].by = "mount" /\ link'[q].inst = stack'[l]
      BY <1>2 DEF Buried
    <3>1. PICK p, q \in DOMAIN link :
            /\ p < q /\ link[p].op = "load" /\ link[p].inst = stack'[k]
            /\ link[q].by = "mount" /\ link[q].inst = stack'[l] /\ stack'[l] \in hidden
      BY <1>1, <2>4 DEF Buried
    <3> QED
      BY <2>2, <3>1 DEF Begins
  <2>10. Rising'
    <3>1. n \in DOMAIN stack /\ Newest(n)
      BY <2>1, <2>3 DEF Newest, LosesAt, Same
    <3> QED
      BY <1>1, <1>2, <2>1, <2>2, <3>1, NewPut DEF Same
  <2>11. Ahead'
    <3> SUFFICES ASSUME NEW k \in DOMAIN stack', Newest(k)', changed[stack'[k]]
                 PROVE  /\ stored[EditorOf(stack'[k])] <= doc[stack'[k]]
                        /\ \A q \in DOMAIN link' :
                             link'[q].op = "put" /\ Same(link'[q].inst, stack'[k])
                               => link'[q].val <= doc[stack'[k]]
      BY <1>2 DEF Ahead, PutAt, Same
    <3>1. Up(k) \in DOMAIN stack /\ stack'[k] = stack[Up(k)] /\ Up(k) # n
      BY <2>4
    <3>2. ~Same(stack[Up(k)], i)
      <4> SUFFICES ASSUME Same(stack[Up(k)], i) PROVE FALSE
        OBVIOUS
      <4>1. Up(k) < n
        BY <2>1, <2>3, <3>1 DEF LosesAt
      <4> QED
        BY <1>1, <1>2, <1>4, <2>1, <3>1, <4>1 DEF Buried, LosesAt
    <3>3. Newest(Up(k))
      <4> SUFFICES ASSUME NEW m \in DOMAIN stack, Same(stack[Up(k)], stack[m]) PROVE m <= Up(k)
        BY DEF Newest
      <4>1. PICK l \in DOMAIN stack' : Up(l) = m
        BY <2>1, <2>4, <3>2
      <4>2. l <= k
        BY <2>4, <3>1, <4>1 DEF Newest
      <4> QED
        BY <2>1, <2>4, <4>1, <4>2 DEF LosesAt
    <3> QED
      BY <1>1, <2>2, <3>1, <3>2, <3>3 DEF Ahead, PutAt, Same, Begins
  <2>12. AllSafe'
    <3>1. \A f, v, m : Safe(f, v, m) => Safe(f, v, m)'
      BY <1>2, <2>2, SafeStays
    <3>2. \A j : SafeDoc(j) => SafeDoc(j)'
      BY <1>2, <2>2, SafeStays
    <3>3. \A k \in DOMAIN stack' : changed[stack'[k]] \/ SafeDoc(stack[k])'
      <4> TAKE k \in DOMAIN stack'
      <4>1. PICK j : j = stack'[k] /\ j = stack[Up(k)] /\ Up(k) \in DOMAIN stack
        BY <2>4
      <4>2. changed[j] \/ SafeDoc(j)
        BY <1>1, <4>1 DEF AllSafe
      <4>3. changed[j] \/ SafeDoc(j)'
        BY <3>2, <4>2
      <4> QED
        BY <4>1, <4>3
    <3>4. stack' # <<>> /\ ~ui'.enabled => SafeDoc(Last(stack))'
      <4> SUFFICES ASSUME stack' # <<>>, ~ui'.enabled PROVE SafeDoc(Last(stack))'
        OBVIOUS
      <4>1. PICK j : j = Last(stack')
        OBVIOUS
      <4>2. SafeDoc(j) \/ SafeDoc(j)'
        <5>1. CASE changed[j]
          BY <1>1, <2>6, <4>1, <5>1 DEF AllSafe
        <5>2. CASE ~changed[j]
          <6>1. PICK k \in DOMAIN stack' : stack'[k] = j
            BY <2>1, <4>1, EmptySeq, LenProperties DEF Last
          <6> QED
            BY <3>3, <4>1, <5>2, <6>1
        <5> QED
          BY <5>1, <5>2
      <4> QED
        BY <3>2, <4>1, <4>2
    <3>5. \A q \in DOMAIN link' : link'[q].op = "reload" =>
            Safe(EditorOf(link[q].inst), link[q].val, q)'
      BY <1>1, <2>2, <3>1 DEF AllSafe, Begins
    <3> QED
      BY <1>2, <3>3, <3>4, <3>5 DEF AllSafe
  <2> QED
    BY <2>6, <2>13, <2>7, <2>8, <2>9, <2>10, <2>11, <2>12 DEF IInv
<1> QED
  BY <1>3, <1>4

(***************************************************************************)
(* The steps of the buttons.  What a save and a reload do: the control on  *)
(* top puts what it shows if the buttons are on, then may come the reload; *)
(* the buttons are off.                                                    *)
(***************************************************************************)
SavesFrom(i) ==
  /\ i = Last(stack) /\ stack # <<>> /\ link' \in Seq(Call) /\ Begins(link, link')
  /\ \A q \in DOMAIN link' : q \notin DOMAIN link =>
       /\ link'[q].op \in {"put", "reload"} /\ link'[q].by # "mount"
       /\ link'[q].inst = i /\ link'[q].val = doc[i]
       /\ link'[q].op = "put" => ui.enabled /\ q = Len(link) + 1
       /\ ui.enabled => /\ link'[Len(link) + 1].op = "put" /\ link'[Len(link) + 1].inst = i
                        /\ link'[Len(link) + 1].val = doc[i]
                        /\ q = Len(link) + 1 \/ Len(link) + 1 < q
  /\ ui.enabled => Len(link) + 1 \in DOMAIN link'
  /\ changed' = changed \/ (ui.enabled /\ changed' = [changed EXCEPT ![i] = FALSE])
  /\ ui'.show = ui.show /\ ~ui'.enabled /\ ui' \in [show : BOOLEAN, enabled : BOOLEAN]
  /\ UNCHANGED <<live, mounts, stack, hidden, doc, edits, stored, excused>>

LEMMA StartSaveIs ==
  ASSUME TypeOK, Bar, stack # <<>>, ui.enabled, stack' = stack, StartSave(Last(stack))
  PROVE  /\ changed' = changed \/ changed' = [changed EXCEPT ![Last(stack)] = FALSE]
         /\ ui'.show = ui.show /\ ~ui'.enabled /\ ui' \in [show : BOOLEAN, enabled : BOOLEAN]
<1>1. Last(stack) \in Inst /\ changed \in [Inst -> BOOLEAN]
  BY Top DEF TypeOK
<1>2. CASE KindOf(Last(stack)) = "forgets"
  <2>1. changed' = [changed EXCEPT ![Last(stack)] = FALSE] /\ NotifyMe(Last(stack))
    BY <1>2 DEF StartSave
  <2>2. ui' = [show |-> stack' # <<>>, enabled |-> CanSave(stack', changed')]
    BY <2>1 DEF NotifyMe, UpdateUI
  <2>3. CanSave(stack', changed') = FALSE
    BY <1>1, <2>1 DEF CanSave
  <2>4. ui'.show = (stack' # <<>>) /\ ui'.enabled = FALSE
    BY <2>2, <2>3
  <2> QED
    BY <2>1, <2>2, <2>3, <2>4 DEF Bar
<1>3. CASE KindOf(Last(stack)) # "forgets"
  BY <1>3 DEF StartSave, TypeOK
<1> QED
  BY <1>2, <1>3

LEMMA Saving ==
  ASSUME TypeOK, Bar, SaveClicked \/ ReloadClient
  PROVE  \E i \in Inst : SavesFrom(i)
<1>1. stack # <<>> /\ stack' = stack
  BY DEF SaveClicked, ReloadClient, Bar, CanSave
<1>2. PICK i \in Inst : i = Last(stack)
  BY <1>1, Top
<1>3. UNCHANGED <<live, mounts, stack, hidden, doc, edits, stored, excused>>
  BY DEF SaveClicked, ReloadClient, data
<1>4. ui.enabled => /\ changed' = changed \/ changed' = [changed EXCEPT ![i] = FALSE]
                    /\ ui'.show = ui.show /\ ~ui'.enabled
                    /\ ui' \in [show : BOOLEAN, enabled : BOOLEAN]
  <2>1. ui.enabled => StartSave(Last(stack))
    BY DEF SaveClicked, ReloadClient
  <2> QED
    BY <1>1, <1>2, <2>1, StartSaveIs
<1>5. PICK c \in Call : /\ c.op = "put" /\ c.inst = i /\ c.val = doc[i] /\ c.by = "save"
                        /\ Send("put", i, "save") \in Seq(Call)
                        /\ Grows(link, Send("put", i, "save"), c)
  <2>1. LET r == Req("put", i, "save")
        IN r.op = "put" /\ r.inst = i /\ r.val = doc[i] /\ r.by = "save"
    BY DEF Req
  <2> QED
    BY <2>1, Sending
<1>6. PICK d : /\ d \in Call /\ d.op = "reload" /\ d.inst = i /\ d.val = doc[i] /\ d.by = "reload"
               /\ d = [op |-> "reload", inst |-> i, val |-> doc[i], by |-> "reload"]
  BY <1>2 DEF Call, TypeOK
<1>7. CASE SaveClicked
  <2>1. link' = Send("put", i, "save") /\ ui.enabled
    BY <1>2, <1>7 DEF SaveClicked, Sent
  <2>2. link' \in Seq(Call) /\ Grows(link, link', c)
    BY <1>5, <2>1
  <2> QED
    BY <1>1, <1>2, <1>3, <1>4, <1>5, <2>1, <2>2 DEF SavesFrom, Begins, Grows
<1>8. CASE ReloadClient /\ ui.enabled
  <2>1. PICK s : s = Send("put", i, "save")
    OBVIOUS
  <2>2. s \in Seq(Call) /\ Grows(link, s, c)
    BY <1>5, <2>1
  <2>3. link' = Append(s, d)
    BY <1>2, <1>6, <1>8, <2>1 DEF ReloadClient
  <2>4. link' \in Seq(Call) /\ Grows(s, link', d)
    BY <1>6, <2>2, <2>3, Appended
  <2> QED
    BY <1>1, <1>2, <1>3, <1>4, <1>5, <1>6, <1>8, <2>2, <2>4 DEF SavesFrom, Begins, Grows
<1>9. CASE ReloadClient /\ ~ui.enabled
  <2>1. link' = Append(link, d) /\ UNCHANGED <<changed, ui>>
    BY <1>2, <1>6, <1>9 DEF ReloadClient
  <2>2. link' \in Seq(Call) /\ Grows(link, link', d)
    BY <1>6, <2>1, Appended DEF TypeOK
  <2>3. ui' \in [show : BOOLEAN, enabled : BOOLEAN] /\ ui'.show = ui.show /\ ~ui'.enabled
    BY <1>9, <2>1 DEF TypeOK
  <2> QED
    BY <1>1, <1>2, <1>3, <1>6, <1>9, <2>1, <2>2, <2>3 DEF SavesFrom, Begins, Grows
<1> QED
  BY <1>7, <1>8, <1>9

LEMMA SavingKeeps ==
  ASSUME IInv, NEW i \in Inst, SavesFrom(i)
  PROVE  IInv'
<1>1. TypeOK /\ Stacked /\ Bar /\ Loads /\ Buried /\ Rising /\ Ahead /\ AllSafe
  BY DEF IInv
<1>2. UNCHANGED <<live, mounts, stack, hidden, doc, edits, stored, excused>>
  BY DEF SavesFrom
<1>3. /\ Begins(link, link') /\ link' \in Seq(Call)
      /\ \A q \in DOMAIN link : q \in DOMAIN link' /\ link'[q] = link[q]
      /\ \A q \in DOMAIN link' : q \notin DOMAIN link =>
           /\ link'[q].op \in {"put", "reload"} /\ link'[q].by # "mount"
           /\ link'[q].inst = i /\ link'[q].val = doc[i]
           /\ link'[q].op = "put" => ui.enabled /\ q = Len(link) + 1
  BY DEF SavesFrom, Begins
<1>4. changed' \in [Inst -> BOOLEAN] /\ \A j \in Inst : changed'[j] => changed[j]
  BY <1>1 DEF SavesFrom, TypeOK
<1>5. PICK t \in DOMAIN stack : stack[t] = i /\ t = Len(stack) /\ \A k \in DOMAIN stack : k <= t
  BY <1>1, Top, LenProperties DEF SavesFrom, TypeOK
<1>6. TypeOK'
  BY <1>1, <1>2, <1>3, <1>4 DEF TypeOK, SavesFrom
<1>7. Stacked'
  <2>1. i[2] <= mounts
    BY <1>1, <1>5 DEF Stacked
  <2>2. \A q \in DOMAIN link' : link'[q].inst[2] <= mounts
    BY <1>1, <1>3, <2>1 DEF Stacked
  <2>3. \A j \in Inst : j[2] > mounts => ~changed'[j] /\ doc[j] = 0 /\ j \notin hidden
    BY <1>1, <1>4 DEF Stacked
  <2> QED
    BY <1>1, <1>2, <2>2, <2>3 DEF Stacked, Registered
<1>8. Bar'
  BY <1>1, <1>2 DEF Bar, SavesFrom
<1>9. Loads'
  <2>1. \A q \in DOMAIN link' : link'[q].by = "mount" => q \in DOMAIN link
    BY <1>3
  <2>2. \A q \in DOMAIN link : \A p \in DOMAIN link' : p < q => p \in DOMAIN link
    BY <1>3 DEF Begins
  <2>3. \A j \in hidden : /\ KindOf(j) = "swallows"
                          /\ \E q \in DOMAIN link' : link'[q].op = "load" /\ link'[q].inst = j
    BY <1>1, <1>3 DEF Loads
  <2>4. \A q \in DOMAIN link' : link'[q].by = "mount" =>
          /\ link'[q].op = "load"
          /\ \A p \in DOMAIN link' : p < q => link'[p].inst # link'[q].inst
          /\ (KindOf(link'[q].inst) = "swallows" =>
                ~changed'[link'[q].inst] /\ link'[q].inst \in hidden)
    BY <1>1, <1>3, <1>4, <2>1, <2>2, Members, Fields DEF Loads
  <2>5. \A k \in DOMAIN stack : stack[k] \notin live =>
          KindOf(stack[k]) = "swallows" /\ (changed'[stack[k]] => stack[k] \in hidden)
    BY <1>1, <1>4, Members DEF Loads
  <2> QED
    BY <1>2, <2>3, <2>4, <2>5 DEF Loads
<1>10. Buried'
  <2> SUFFICES ASSUME NEW k \in DOMAIN stack, NEW l \in DOMAIN stack, k < l,
                      Same(stack[k], stack[l]), changed'[stack[k]], stack[l] \in live
               PROVE  /\ stack[l] \in hidden
                      /\ \E p, q \in DOMAIN link' :
                           /\ p < q /\ link'[p].op = "load" /\ link'[p].inst = stack[k]
                           /\ link'[q].by = "mount" /\ link'[q].inst = stack[l]
    BY <1>2 DEF Buried
  <2>1. PICK p, q \in DOMAIN link :
          /\ p < q /\ link[p].op = "load" /\ link[p].inst = stack[k]
          /\ link[q].by = "mount" /\ link[q].inst = stack[l] /\ stack[l] \in hidden
    BY <1>1, <1>4, Members DEF Buried
  <2> QED
    BY <1>3, <2>1
<1>11. Rising'
  <2>1. Newest(t) /\ (ui.enabled => changed[stack[t]])
    BY <1>1, <1>5 DEF Newest, Bar, CanSave, SavesFrom
  <2> QED
    BY <1>1, <1>2, <1>3, <1>5, <2>1, NewPut DEF Same
<1>12. Ahead'
  <2> SUFFICES ASSUME NEW k \in DOMAIN stack, Newest(k), changed'[stack[k]]
               PROVE  /\ stored[EditorOf(stack[k])] <= doc[stack[k]]
                      /\ \A q \in DOMAIN link' :
                           link'[q].op = "put" /\ Same(link'[q].inst, stack[k])
                             => link'[q].val <= doc[stack[k]]
    BY <1>2 DEF Ahead, Newest, PutAt, Same
  <2>1. changed[stack[k]]
    BY <1>4, Members, <1>1
  <2>2. Same(i, stack[k]) => k = t
    BY <1>5 DEF Newest, Same
  <2>3. doc[i] \in Nat
    BY <1>1 DEF TypeOK
  <2> QED
    BY <1>1, <1>3, <1>5, <2>1, <2>2, <2>3 DEF Ahead, PutAt, Same
<1>13. AllSafe'
  <2>1. /\ \A f, v, n : Safe(f, v, n) => Safe(f, v, n)'
        /\ \A j : SafeDoc(j) => SafeDoc(j)'
    BY <1>2, <1>3, SafeStays
  <2>2. ui.enabled => SafeDoc(i)'
    BY <1>2 DEF SavesFrom, SafeDoc, Safe, PutAt, Begins
  <2>3. ~ui.enabled => SafeDoc(i)
    BY <1>1 DEF AllSafe, SavesFrom
  <2>4. SafeDoc(i)'
    BY <2>1, <2>2, <2>3
  <2>5. \A k \in DOMAIN stack : changed'[stack[k]] \/ SafeDoc(stack[k])'
    <3> TAKE k \in DOMAIN stack
    <3>1. PICK j \in Inst : j = stack[k]
      BY <1>1, Members
    <3>2. j = i \/ changed'[j] = changed[j]
      BY <1>1 DEF SavesFrom, TypeOK
    <3>3. changed[j] \/ SafeDoc(j)'
      BY <1>1, <2>1, <3>1 DEF AllSafe
    <3> QED
      BY <1>2, <2>4, <3>1, <3>2, <3>3
  <2>6. ASSUME NEW q \in DOMAIN link', link'[q].op = "reload"
        PROVE  Safe(EditorOf(link[q].inst), link[q].val, q)'
    <3>1. CASE q \in DOMAIN link
      BY <1>1, <1>3, <2>1, <2>6, <3>1 DEF AllSafe
    <3>2. CASE q \notin DOMAIN link /\ ui.enabled
      <4>1. /\ Len(link) + 1 < q /\ Len(link) + 1 \in DOMAIN link'
            /\ link'[Len(link) + 1].op = "put" /\ link'[Len(link) + 1].inst = i
            /\ link'[Len(link) + 1].val = doc[i]
            /\ link'[q].inst = i /\ link'[q].val = doc[i]
        BY <2>6, <3>2 DEF SavesFrom
      <4> QED
        BY <4>1 DEF Safe, PutAt
    <3>3. CASE q \notin DOMAIN link /\ ~ui.enabled
      <4>1. Len(link) + 1 <= q /\ link'[q].inst = i /\ link'[q].val = doc[i]
        BY <1>3, <3>3 DEF Begins
      <4>2. Safe(EditorOf(i), doc[i], Len(link) + 1)
        BY <2>3, <3>3 DEF SafeDoc
      <4>3. Safe(EditorOf(i), doc[i], q)
        BY <1>3, <4>1, <4>2 DEF Safe, Begins
      <4>4. PICK f, v : f = EditorOf(i) /\ v = doc[i]
        OBVIOUS
      <4>5. Safe(f, v, q)'
        BY <2>1, <4>3, <4>4
      <4> QED
        BY <4>1, <4>4, <4>5
    <3> QED
      BY <3>1, <3>2, <3>3
  <2> QED
    BY <1>2, <2>4, <2>5, <2>6 DEF AllSafe, SavesFrom
<1> QED
  BY <1>6, <1>7, <1>8, <1>9, <1>10, <1>11, <1>12, <1>13 DEF IInv

LEMMA RevertKeeps ==
  ASSUME IInv, RevertClicked
  PROVE  IInv'
<1>1. TypeOK /\ Stacked /\ Bar /\ Loads /\ Buried /\ Rising /\ Ahead /\ AllSafe
  BY DEF IInv
<1>2. UNCHANGED <<live, mounts, stack, doc, edits, stored>> /\ stack # <<>> /\ ui.enabled
  BY <1>1 DEF RevertClicked, Bar, CanSave
<1>3. PICK i \in Inst : i = Last(stack)
  BY <1>1, <1>2, Top
<1>4. PICK r \in Call : /\ link' \in Seq(Call) /\ Grows(link, link', r)
                       /\ r.op = "load" /\ r.inst = i /\ r.by = "revert"
  <2>1. link' = Send("load", i, "revert")
    BY <1>3 DEF RevertClicked, Sent
  <2>2. LET c == Req("load", i, "revert") IN c.op = "load" /\ c.inst = i /\ c.by = "revert"
    BY DEF Req
  <2> QED
    BY <1>1, <2>1, <2>2, Sending
<1>5. /\ excused' = excused \cup {doc[i]}
      /\ changed' \in [Inst -> BOOLEAN] /\ \A j \in Inst : changed'[j] => changed[j]
      /\ \A j \in Inst : j # i => changed'[j] = changed[j]
      /\ ui' \in [show : BOOLEAN, enabled : BOOLEAN] /\ Bar'
      /\ hidden \subseteq hidden' /\ hidden' \subseteq hidden \cup {i}
      /\ i \in hidden' => i \in hidden \/ KindOf(i) = "swallows"
      /\ changed'[i] => i \in hidden'
  <2>0. changed \in [Inst -> BOOLEAN] /\ ui \in [show : BOOLEAN, enabled : BOOLEAN]
    BY <1>1 DEF TypeOK
  <2>1. excused' = excused \cup {doc[i]}
    BY <1>3 DEF RevertClicked, Excuse
  <2>2. CASE KindOf(i) = "swallows"
    <3>1. /\ changed' = changed /\ ui' = [ui EXCEPT !.enabled = FALSE]
          /\ hidden' = hidden \cup {i}
      BY <1>3, <2>2 DEF RevertClicked
    <3>2. ui' \in [show : BOOLEAN, enabled : BOOLEAN] /\ Bar'
      BY <1>1, <1>2, <2>0, <3>1 DEF Bar
    <3> QED
      BY <2>0, <2>1, <2>2, <3>1, <3>2
  <2>3. CASE KindOf(i) # "swallows"
    <3>1. /\ changed' = [changed EXCEPT ![i] = FALSE] /\ NotifyMe(i)
          /\ hidden' = hidden
      BY <1>3, <2>3 DEF RevertClicked
    <3>2. /\ changed' \in [Inst -> BOOLEAN] /\ ~changed'[i]
          /\ \A j \in Inst : j # i => changed'[j] = changed[j]
      BY <2>0, <3>1
    <3>3. ui' \in [show : BOOLEAN, enabled : BOOLEAN] /\ Bar'
      BY <1>1, <1>2, <3>1, <3>2, Notifying
    <3> QED
      BY <2>0, <2>1, <3>1, <3>2, <3>3
  <2> QED
    BY <2>2, <2>3
<1>6. /\ Begins(link, link')
      /\ \A q \in DOMAIN link : q \in DOMAIN link' /\ link'[q] = link[q]
      /\ \A q \in DOMAIN link' : q \notin DOMAIN link => q = Len(link) + 1 /\ link'[q] = r
      /\ Len(link) + 1 \in DOMAIN link' /\ link'[Len(link) + 1] = r
  BY <1>4 DEF Grows, Begins
<1>7. PICK t \in DOMAIN stack : stack[t] = i
  BY <1>1, <1>2, <1>3, Top, LenProperties DEF TypeOK
<1>8. TypeOK'
  BY <1>1, <1>2, <1>4, <1>5 DEF TypeOK
<1>9. Stacked'
  <2>1. i[2] <= mounts /\ i[2] \in Nat /\ mounts \in Nat
    BY <1>1, <1>7, Fields DEF Stacked, TypeOK
  <2>2. \A q \in DOMAIN link' : link'[q].inst[2] <= mounts
    BY <1>1, <1>4, <1>6, <2>1 DEF Stacked
  <2>3. \A j \in Inst : j[2] > mounts => ~changed'[j] /\ doc[j] = 0 /\ j \notin hidden'
    BY <1>1, <1>5, <2>1 DEF Stacked
  <2> QED
    BY <1>1, <1>2, <2>2, <2>3 DEF Stacked, Registered
<1>10. Loads'
  <2>1. \A q \in DOMAIN link' : link'[q].by = "mount" => q \in DOMAIN link
    BY <1>4, <1>6
  <2>2. \A q \in DOMAIN link : \A p \in DOMAIN link' : p < q => p \in DOMAIN link
    BY <1>6 DEF Begins
  <2>3. \A j \in hidden' : /\ KindOf(j) = "swallows"
                           /\ \E q \in DOMAIN link' : link'[q].op = "load" /\ link'[q].inst = j
    BY <1>1, <1>4, <1>5, <1>6 DEF Loads
  <2>4. \A q \in DOMAIN link' : link'[q].by = "mount" =>
          /\ link'[q].op = "load"
          /\ \A p \in DOMAIN link' : p < q => link'[p].inst # link'[q].inst
          /\ (KindOf(link'[q].inst) = "swallows" =>
                ~changed'[link'[q].inst] /\ link'[q].inst \in hidden')
    BY <1>1, <1>5, <1>6, <2>1, <2>2, Members, Fields DEF Loads
  <2>5. \A k \in DOMAIN stack : stack[k] \notin live =>
          KindOf(stack[k]) = "swallows" /\ (changed'[stack[k]] => stack[k] \in hidden')
    BY <1>1, <1>5, Members DEF Loads
  <2> QED
    BY <1>2, <2>3, <2>4, <2>5 DEF Loads
<1>11. Buried'
  <2> SUFFICES ASSUME NEW k \in DOMAIN stack, NEW l \in DOMAIN stack, k < l,
                      Same(stack[k], stack[l]), changed'[stack[k]], stack[l] \in live
               PROVE  /\ stack[l] \in hidden'
                      /\ \E p, q \in DOMAIN link' :
                           /\ p < q /\ link'[p].op = "load" /\ link'[p].inst = stack[k]
                           /\ link'[q].by = "mount" /\ link'[q].inst = stack[l]
    BY <1>2 DEF Buried
  <2>1. PICK p, q \in DOMAIN link :
          /\ p < q /\ link[p].op = "load" /\ link[p].inst = stack[k]
          /\ link[q].by = "mount" /\ link[q].inst = stack[l] /\ stack[l] \in hidden
    BY <1>1, <1>5, Members DEF Buried
  <2> QED
    BY <1>5, <1>6, <2>1
<1>12. Rising'
  BY <1>1, <1>2, <1>4, <1>6, <1>7, NewPut
<1>13. Ahead'
  <2> SUFFICES ASSUME NEW k \in DOMAIN stack, Newest(k), changed'[stack[k]]
               PROVE  /\ stored[EditorOf(stack[k])] <= doc[stack[k]]
                      /\ \A q \in DOMAIN link' :
                           link'[q].op = "put" /\ Same(link'[q].inst, stack[k])
                             => link'[q].val <= doc[stack[k]]
    BY <1>2 DEF Ahead, Newest, PutAt, Same
  <2>1. changed[stack[k]]
    BY <1>1, <1>5, Members
  <2> QED
    BY <1>1, <1>4, <1>6, <2>1 DEF Ahead, PutAt, Same
<1>14. AllSafe'
  <2>1. /\ \A f, v, n : Safe(f, v, n) => Safe(f, v, n)'
        /\ \A j : SafeDoc(j) => SafeDoc(j)'
    BY <1>2, <1>5, <1>6, SafeStays
  <2>2. SafeDoc(i)'
    BY <1>2, <1>5 DEF SafeDoc, Safe
  <2>3. \A k \in DOMAIN stack : changed'[stack[k]] \/ SafeDoc(stack[k])'
    <3> TAKE k \in DOMAIN stack
    <3>1. PICK j \in Inst : j = stack[k]
      BY <1>1, Members
    <3>2. changed[j] \/ SafeDoc(j)'
      BY <1>1, <2>1, <3>1 DEF AllSafe
    <3> QED
      BY <1>2, <1>5, <2>2, <3>1, <3>2
  <2>4. \A q \in DOMAIN link' : link'[q].op = "reload" =>
          Safe(EditorOf(link[q].inst), link[q].val, q)'
    BY <1>1, <1>4, <1>6, <2>1 DEF AllSafe
  <2> QED
    BY <1>2, <1>3, <2>2, <2>3, <2>4 DEF AllSafe
<1> QED
  BY <1>5, <1>8, <1>9, <1>10, <1>11, <1>12, <1>13, <1>14 DEF IInv

(***************************************************************************)
(* The answers.  What all of them do: the oldest call is gone; a put that  *)
(* was served is what the server has, one that failed is excused; what a   *)
(* control is told clears its flag, and what it shows then is safe.        *)
(***************************************************************************)
Answers(r) ==
  LET i == r.inst
      e == EditorOf(r.inst)
  IN /\ r \in Call /\ link' \in Seq(Call) /\ Shrinks(link, link', r)
     /\ UNCHANGED <<live, mounts, stack, edits>>
     /\ stored' \in [Editor -> Nat] /\ doc' \in [Inst -> Nat]
     /\ \A f \in Editor : \/ stored'[f] = stored[f]
                          \/ r.op = "put" /\ f = e /\ stored'[f] = r.val
     /\ excused \subseteq excused'
     /\ r.op = "put" => stored'[e] = r.val \/ r.val \in excused'
     /\ \A j \in Inst : j # i \/ r.op # "load" => doc'[j] = doc[j]
     /\ doc'[i] \in {0, doc[i], stored[e]}
     /\ IF r.op = "load" THEN hidden' = hidden \ {i} ELSE hidden' = hidden
     /\ \/ Finish(i) /\ (doc'[i] <= stored'[e] \/ doc'[i] \in excused')
        \/ /\ UNCHANGED <<changed, ui>>
           /\ \/ UNCHANGED doc
              \/ ~changed[i] /\ (doc'[i] <= stored'[e] \/ doc'[i] \in excused')
           /\ r.op = "load" => KindOf(i) = "swallows" /\ r.by = "mount"

LEMMA Answering ==
  ASSUME IInv, NEW r,
         PutDone(r) \/ PutFails(r) \/ LoadDone(r) \/ LoadFails(r) \/ ReloadDone(r)
  PROVE  Answers(r)
<1>1. TypeOK /\ Loads
  BY DEF IInv
<1>2. Served(r)
  BY DEF PutDone, PutFails, LoadDone, LoadFails, ReloadDone
<1>3. r \in Call /\ link' \in Seq(Call) /\ Shrinks(link, link', r)
  BY <1>1, <1>2, Serving
<1>4. r.inst \in Inst /\ EditorOf(r.inst) \in Editor /\ r.val \in Nat
  BY <1>3, Fields
<1>5. /\ doc \in [Inst -> Nat] /\ stored \in [Editor -> Nat] /\ hidden \subseteq Inst
  BY <1>1 DEF TypeOK
<1>6. r.op = "load" /\ KindOf(r.inst) = "swallows" /\ r.by = "mount" => ~changed[r.inst]
  BY <1>1, <1>3 DEF Loads, Shrinks
<1>7. CASE PutDone(r)
  BY <1>3, <1>4, <1>5, <1>7 DEF PutDone, Answers, Excuse
<1>8. CASE PutFails(r)
  BY <1>3, <1>4, <1>5, <1>8 DEF PutFails, Answers, Excuse
<1>9. CASE LoadDone(r)
  BY <1>3, <1>4, <1>5, <1>6, <1>9 DEF LoadDone, Answers, Excuse
<1>10. CASE LoadFails(r)
  BY <1>3, <1>4, <1>5, <1>6, <1>10 DEF LoadFails, Answers, Excuse
<1>11. CASE ReloadDone(r)
  BY <1>3, <1>4, <1>5, <1>11 DEF ReloadDone, Answers, data
<1> QED
  BY <1>7, <1>8, <1>9, <1>10, <1>11

\* What was safe n calls behind is safe one call closer.
LEMMA SafeMoves ==
  ASSUME TypeOK, Rising, NEW r, Answers(r)
  PROVE  /\ \A f \in Editor : stored[f] <= stored'[f]
         /\ \A q \in 1..Len(link') : \A f \in Editor, v \in Nat :
              Safe(f, v, q + 1) => Safe(f, v, q)'
         /\ \A j \in Inst : doc'[j] = doc[j] /\ SafeDoc(j) => SafeDoc(j)'
<1>1. /\ Shrinks(link, link', r) /\ r \in Call /\ link[1] = r /\ 1 \in DOMAIN link
      /\ stored \in [Editor -> Nat] /\ stored' \in [Editor -> Nat] /\ doc \in [Inst -> Nat]
      /\ excused \subseteq excused'
      /\ r.op = "put" => stored'[EditorOf(r.inst)] = r.val \/ r.val \in excused'
      /\ \A f \in Editor : \/ stored'[f] = stored[f]
                           \/ r.op = "put" /\ f = EditorOf(r.inst) /\ stored'[f] = r.val
  BY DEF Answers, Shrinks, TypeOK
<1>2. \A f \in Editor : stored[f] <= stored'[f]
  BY <1>1 DEF Rising
<1>3. ASSUME NEW n \in Nat, n <= Len(link') + 1, NEW f \in Editor, NEW v \in Nat, Safe(f, v, n + 1)
      PROVE  Safe(f, v, n)'
  <2>1. CASE v <= stored[f]
    BY <1>1, <1>2, <2>1 DEF Safe
  <2>2. CASE v \in excused
    BY <1>1, <2>2 DEF Safe
  <2>3. ASSUME NEW q \in DOMAIN link, q < n + 1, PutAt(q, f), link[q].val = v
        PROVE  Safe(f, v, n)'
    <3>1. CASE q = 1
      BY <1>1, <2>3, <3>1 DEF Safe, PutAt
    <3>2. CASE q # 1
      <4>1. q - 1 \in DOMAIN link' /\ link'[q - 1] = link[q] /\ q - 1 < n
        BY <1>1, <2>3, <3>2 DEF Shrinks
      <4> QED
        BY <2>3, <4>1 DEF Safe, PutAt
    <3> QED
      BY <3>1, <3>2
  <2> QED
    BY <1>3, <2>1, <2>2, <2>3 DEF Safe
<1>4. ASSUME NEW j \in Inst, doc'[j] = doc[j], SafeDoc(j) PROVE SafeDoc(j)'
  <2>1. PICK f \in Editor, v \in Nat, n \in Nat : f = EditorOf(j) /\ v = doc[j] /\ n = Len(link') + 1
    BY <1>1, Fields DEF Shrinks
  <2>2. Safe(f, v, n + 1)
    BY <1>1, <1>4, <2>1 DEF SafeDoc, Shrinks
  <2>3. Safe(f, v, n)'
    BY <1>3, <2>1, <2>2
  <2> QED
    BY <1>4, <2>1, <2>3 DEF SafeDoc
<1>5. \A q \in 1..Len(link') : q \in Nat /\ q <= Len(link') + 1
  BY <1>1 DEF Shrinks
<1> QED
  BY <1>2, <1>3, <1>4, <1>5

LEMMA AnswerKeeps ==
  ASSUME IInv, NEW r, Answers(r)
  PROVE  IInv'
<1>1. TypeOK /\ Stacked /\ Bar /\ Loads /\ Buried /\ Rising /\ Ahead /\ AllSafe
  BY DEF IInv
<1>2. PICK i \in Inst, e \in Editor : i = r.inst /\ e = EditorOf(r.inst)
  BY Fields DEF Answers
<1>3. /\ r \in Call /\ link' \in Seq(Call) /\ Shrinks(link, link', r)
      /\ UNCHANGED <<live, mounts, stack, edits>>
      /\ stored' \in [Editor -> Nat] /\ doc' \in [Inst -> Nat]
      /\ \A j \in Inst : j # i \/ r.op # "load" => doc'[j] = doc[j]
      /\ doc'[i] \in {0, doc[i], stored[e]}
      /\ IF r.op = "load" THEN hidden' = hidden \ {i} ELSE hidden' = hidden
      /\ excused \subseteq excused'
  BY <1>2 DEF Answers
<1>4. \/ Finish(i) /\ (doc'[i] <= stored'[e] \/ doc'[i] \in excused')
      \/ /\ UNCHANGED <<changed, ui>>
         /\ \/ UNCHANGED doc
            \/ ~changed[i] /\ (doc'[i] <= stored'[e] \/ doc'[i] \in excused')
         /\ r.op = "load" => KindOf(i) = "swallows" /\ r.by = "mount"
  BY <1>2 DEF Answers
<1>5. /\ changed' \in [Inst -> BOOLEAN] /\ \A j \in Inst : changed'[j] => changed[j]
      /\ \A j \in Inst : j # i => changed'[j] = changed[j]
      /\ ui' \in [show : BOOLEAN, enabled : BOOLEAN] /\ Bar'
      /\ stack # <<>> /\ ~ui'.enabled => ~ui.enabled \/ (Last(stack) = i /\ ~changed'[i])
  <2>1. changed \in [Inst -> BOOLEAN] /\ ui \in [show : BOOLEAN, enabled : BOOLEAN]
    BY <1>1 DEF TypeOK
  <2>2. CASE Finish(i)
    <3>1. changed' = [changed EXCEPT ![i] = FALSE] /\ NotifyMe(i)
      BY <2>2 DEF Finish
    <3>2. /\ changed' \in [Inst -> BOOLEAN] /\ ~changed'[i]
          /\ \A j \in Inst : j # i => changed'[j] = changed[j]
      BY <2>1, <3>1
    <3>3. /\ ui' \in [show : BOOLEAN, enabled : BOOLEAN] /\ Bar'
          /\ ~(stack # <<>> /\ Last(stack) = i) => ui' = ui
      BY <1>1, <1>3, <3>1, <3>2, Notifying
    <3> QED
      BY <2>1, <3>2, <3>3
  <2>3. CASE UNCHANGED <<changed, ui>>
    BY <1>1, <1>3, <2>1, <2>3 DEF Bar, CanSave
  <2> QED
    BY <1>4, <2>2, <2>3
<1>6. /\ 1 \in DOMAIN link /\ link[1] = r
      /\ \A q \in DOMAIN link' : q + 1 \in DOMAIN link /\ link'[q] = link[q + 1]
      /\ \A q \in DOMAIN link : q # 1 => q - 1 \in DOMAIN link' /\ link'[q - 1] = link[q]
  BY <1>3 DEF Shrinks
<1>7. TypeOK'
  BY <1>1, <1>3, <1>5 DEF TypeOK
<1>8. Stacked'
  <2>1. i[2] <= mounts /\ i[2] \in Nat /\ mounts \in Nat
    BY <1>1, <1>2, <1>6, Fields DEF Stacked, TypeOK
  <2>2. \A q \in DOMAIN link' : link'[q].inst[2] <= mounts
    BY <1>1, <1>6 DEF Stacked
  <2>3. \A j \in Inst : j[2] > mounts => ~changed'[j] /\ doc'[j] = 0 /\ j \notin hidden'
    <3> TAKE j \in Inst
    <3>1. j[2] > mounts => j # i
      BY <2>1, Fields
    <3>2. j[2] > mounts => ~changed[j] /\ doc[j] = 0 /\ j \notin hidden
      BY <1>1 DEF Stacked
    <3> QED
      BY <1>3, <1>5, <3>1, <3>2
  <2> QED
    BY <1>1, <1>3, <2>2, <2>3 DEF Stacked, Registered
<1>9. r.op = "load" => ~changed'[i]
  <2>1. CASE Finish(i)
    BY <1>1, <2>1 DEF Finish, TypeOK
  <2>2. CASE UNCHANGED <<changed, ui>> /\ (r.op = "load" => KindOf(i) = "swallows" /\ r.by = "mount")
    BY <1>1, <1>2, <1>6, <2>2 DEF Loads
  <2> QED
    BY <1>4, <2>1, <2>2
<1>10. \A q \in DOMAIN link' : link'[q].by = "mount" => link'[q].inst # i
  BY <1>1, <1>2, <1>3, <1>6 DEF Loads, Shrinks
<1>11. Loads'
  <2>1. ASSUME NEW j \in hidden'
        PROVE  /\ KindOf(j) = "swallows"
               /\ \E q \in DOMAIN link' : link'[q].op = "load" /\ link'[q].inst = j
    <3>1. j \in hidden /\ (r.op = "load" => j # i)
      BY <1>3, <2>1
    <3>2. PICK q \in DOMAIN link : link[q].op = "load" /\ link[q].inst = j
      BY <1>1, <3>1 DEF Loads
    <3> QED
      BY <1>1, <1>2, <1>6, <3>1, <3>2 DEF Loads
  <2>2. ASSUME NEW q \in DOMAIN link', link'[q].by = "mount"
        PROVE  /\ link'[q].op = "load"
               /\ KindOf(link'[q].inst) = "swallows" =>
                    ~changed'[link'[q].inst] /\ link'[q].inst \in hidden'
    <3>1. link'[q].inst # i /\ link'[q].inst \in Inst
      BY <1>6, <1>10, <2>2, Members, Fields, <1>1
    <3> QED
      BY <1>1, <1>3, <1>5, <1>6, <2>2, <3>1 DEF Loads
  <2>3. ASSUME NEW q \in DOMAIN link', link'[q].by = "mount", NEW p \in DOMAIN link', p < q
        PROVE  link'[p].inst # link'[q].inst
    <3>1. /\ p + 1 < q + 1 /\ p + 1 \in DOMAIN link /\ q + 1 \in DOMAIN link
          /\ link'[p] = link[p + 1] /\ link'[q] = link[q + 1]
      BY <1>3, <2>3 DEF Shrinks
    <3> QED
      BY <1>1, <2>3, <3>1 DEF Loads
  <2>4. \A k \in DOMAIN stack : stack[k] \notin live =>
          KindOf(stack[k]) = "swallows" /\ (changed'[stack[k]] => stack[k] \in hidden')
    BY <1>1, <1>3, <1>5, <1>9, Members DEF Loads
  <2> QED
    BY <1>3, <2>1, <2>2, <2>3, <2>4 DEF Loads
<1>12. Buried'
  <2> SUFFICES ASSUME NEW k \in DOMAIN stack, NEW l \in DOMAIN stack, k < l,
                      Same(stack[k], stack[l]), changed'[stack[k]], stack[l] \in live
               PROVE  /\ stack[l] \in hidden'
                      /\ \E p, q \in DOMAIN link' :
                           /\ p < q /\ link'[p].op = "load" /\ link'[p].inst = stack[k]
                           /\ link'[q].by = "mount" /\ link'[q].inst = stack[l]
    BY <1>3 DEF Buried
  <2>1. PICK p, q \in DOMAIN link :
          /\ p < q /\ link[p].op = "load" /\ link[p].inst = stack[k]
          /\ link[q].by = "mount" /\ link[q].inst = stack[l] /\ stack[l] \in hidden
    BY <1>1, <1>5, Members DEF Buried
  <2>2. p # 1
    BY <1>2, <1>6, <1>9, <2>1
  <2>3. /\ q # 1 /\ p - 1 \in DOMAIN link' /\ q - 1 \in DOMAIN link' /\ p - 1 < q - 1
        /\ link'[p - 1] = link[p] /\ link'[q - 1] = link[q]
    BY <1>3, <2>1, <2>2 DEF Shrinks
  <2>4. stack[l] # i
    BY <1>10, <2>1, <2>3
  <2> QED
    BY <1>3, <2>1, <2>3, <2>4
<1>13. /\ \A f \in Editor : stored[f] <= stored'[f]
       /\ \A f \in Editor : \/ stored'[f] = stored[f]
                            \/ r.op = "put" /\ f = e /\ stored'[f] = r.val
  BY <1>1, <1>2, SafeMoves DEF Answers
<1>14. Rising'
  <2>1. \A f \in Editor : stored'[f] <= edits + 1
    BY <1>1, <1>6, <1>13 DEF Rising
  <2>2. \A j \in Inst : doc'[j] <= edits + 1
    <3>1. edits \in Nat
      BY <1>1 DEF TypeOK
    <3> QED
      BY <1>1, <1>2, <1>3, <3>1 DEF Rising
  <2>3. ASSUME NEW q \in DOMAIN link', link'[q].op = "put"
        PROVE  /\ link'[q].val <= edits + 1
               /\ stored'[EditorOf(link'[q].inst)] <= link'[q].val
               /\ \A p \in DOMAIN link' :
                    p < q /\ link'[p].op = "put" /\ Same(link'[p].inst, link'[q].inst)
                      => link'[p].val <= link'[q].val
    <3>1. q + 1 \in DOMAIN link /\ link'[q] = link[q + 1] /\ 1 < q + 1
      BY <1>3 DEF Shrinks
    <3>2. link[q + 1].val <= edits + 1 /\ stored[EditorOf(link[q + 1].inst)] <= link[q + 1].val
      BY <1>1, <2>3, <3>1 DEF Rising
    <3>3. EditorOf(link[q + 1].inst) \in Editor
      BY <1>1, <3>1, Members, Fields
    <3>4. stored'[EditorOf(link'[q].inst)] <= link'[q].val
      BY <1>1, <1>2, <1>6, <1>13, <2>3, <3>1, <3>2, <3>3 DEF Rising, PutAt
    <3>5. \A p \in DOMAIN link' : p < q =>
            p + 1 \in DOMAIN link /\ link'[p] = link[p + 1] /\ p + 1 < q + 1
      BY <1>3, <3>1 DEF Shrinks
    <3> QED
      BY <1>1, <2>3, <3>1, <3>2, <3>4, <3>5 DEF Rising, PutAt, Same
  <2> QED
    BY <1>3, <2>1, <2>2, <2>3 DEF Rising, PutAt, Same
<1>15. Ahead'
  <2> SUFFICES ASSUME NEW k \in DOMAIN stack, Newest(k), changed'[stack[k]]
               PROVE  /\ stored'[EditorOf(stack[k])] <= doc'[stack[k]]
                      /\ \A q \in DOMAIN link' :
                           link'[q].op = "put" /\ Same(link'[q].inst, stack[k])
                             => link'[q].val <= doc'[stack[k]]
    BY <1>3 DEF Ahead, Newest, PutAt, Same
  <2>1. stack[k] \in Inst /\ EditorOf(stack[k]) \in Editor
    BY <1>1, Members, Fields
  <2>2. changed[stack[k]] /\ doc'[stack[k]] = doc[stack[k]]
    BY <1>3, <1>5, <1>9, <2>1
  <2>3. /\ stored[EditorOf(stack[k])] <= doc[stack[k]]
        /\ \A q \in DOMAIN link : link[q].op = "put" /\ Same(link[q].inst, stack[k])
             => link[q].val <= doc[stack[k]]
    BY <1>1, <2>2 DEF Ahead, PutAt, Same
  <2>4. stored'[EditorOf(stack[k])] <= doc[stack[k]]
    BY <1>2, <1>6, <1>13, <2>1, <2>3 DEF Same
  <2> QED
    BY <1>6, <2>2, <2>3, <2>4
<1>16. AllSafe'
  <2>1. \A j \in Inst : doc'[j] = doc[j] /\ SafeDoc(j) => SafeDoc(j)'
    BY <1>1, SafeMoves
  <2>2. doc'[i] <= stored'[e] \/ doc'[i] \in excused' => SafeDoc(i)'
    BY <1>2 DEF SafeDoc, Safe
  <2>3. ~changed'[i] /\ (changed[i] \/ SafeDoc(i)) => SafeDoc(i)'
    <3>1. CASE Finish(i) /\ (doc'[i] <= stored'[e] \/ doc'[i] \in excused')
      BY <2>2, <3>1
    <3>2. CASE /\ UNCHANGED <<changed, ui>>
               /\ \/ UNCHANGED doc
                  \/ ~changed[i] /\ (doc'[i] <= stored'[e] \/ doc'[i] \in excused')
      BY <2>1, <2>2, <3>2
    <3> QED
      BY <1>4, <3>1, <3>2
  <2>4. \A k \in DOMAIN stack : changed'[stack[k]] \/ SafeDoc(stack[k])'
    <3> TAKE k \in DOMAIN stack
    <3>1. PICK j \in Inst : j = stack[k]
      BY <1>1, Members
    <3>2. changed[j] \/ SafeDoc(j)
      BY <1>1, <3>1 DEF AllSafe
    <3>3. changed'[j] \/ SafeDoc(j)'
      <4>1. CASE j = i
        BY <2>3, <3>2, <4>1
      <4>2. CASE j # i
        BY <1>3, <1>5, <2>1, <3>2, <4>2
      <4> QED
        BY <4>1, <4>2
    <3> QED
      BY <1>3, <3>1, <3>3
  <2>5. stack # <<>> /\ ~ui'.enabled => SafeDoc(Last(stack))'
    <3> SUFFICES ASSUME stack # <<>>, ~ui'.enabled PROVE SafeDoc(Last(stack))'
      OBVIOUS
    <3>1. PICK j \in Inst : j = Last(stack)
      BY <1>1, Top
    <3>2. CASE j = i /\ ~changed'[i]
      <4>1. \E k \in DOMAIN stack : stack[k] = i
        BY <1>1, <3>1, <3>2, Top, LenProperties DEF TypeOK
      <4>2. changed[i] \/ SafeDoc(i)
        BY <1>1, <4>1 DEF AllSafe
      <4>3. SafeDoc(j)'
        BY <2>3, <3>2, <4>2
      <4> QED
        BY <1>3, <3>1, <4>3
    <3>3. CASE ~ui.enabled
      <4>1. SafeDoc(j)
        BY <1>1, <3>1, <3>3 DEF AllSafe
      <4>2. CASE doc'[j] = doc[j]
        <5>1. SafeDoc(j)'
          BY <2>1, <4>1, <4>2
        <5> QED
          BY <1>3, <3>1, <5>1
      <4>3. CASE doc'[j] # doc[j]
        <5>1. j = i
          BY <1>3, <4>3
        <5>2. doc'[i] <= stored'[e] \/ doc'[i] \in excused'
          BY <1>4, <4>3, <5>1
        <5>3. SafeDoc(j)'
          BY <2>2, <5>1, <5>2
        <5> QED
          BY <1>3, <3>1, <5>3
      <4> QED
        BY <4>2, <4>3
    <3> QED
      BY <1>5, <3>1, <3>2, <3>3
  <2>6. ASSUME NEW q \in DOMAIN link', link'[q].op = "reload"
        PROVE  Safe(EditorOf(link[q].inst), link[q].val, q)'
    <3>1. q + 1 \in DOMAIN link /\ link'[q] = link[q + 1] /\ q \in 1..Len(link')
      BY <1>3 DEF Shrinks
    <3>2. PICK f \in Editor, v \in Nat : f = EditorOf(link[q + 1].inst) /\ v = link[q + 1].val
      BY <1>1, <3>1, Members, Fields
    <3>3. Safe(f, v, q + 1)
      BY <1>1, <2>6, <3>1, <3>2 DEF AllSafe
    <3>4. Safe(f, v, q)'
      BY <1>1, <3>1, <3>3, SafeMoves
    <3> QED
      BY <3>1, <3>2, <3>4
  <2> QED
    BY <1>3, <2>4, <2>5, <2>6 DEF AllSafe
<1> QED
  BY <1>5, <1>7, <1>8, <1>11, <1>12, <1>14, <1>15, <1>16 DEF IInv

(***************************************************************************)
(* The theorems.                                                           *)
(***************************************************************************)
LEMMA InitIInv == Init => IInv
<1> SUFFICES ASSUME Init PROVE IInv
  OBVIOUS
<1>1. TypeOK
  BY DEF Init, TypeOK
<1>2. DOMAIN stack = {} /\ DOMAIN link = {}
  BY DEF Init
<1>3. Stacked
  BY <1>2 DEF Init, Stacked
<1>4. Bar
  BY DEF Init, Bar
<1>5. Loads /\ Buried
  BY <1>2 DEF Init, Loads, Buried
<1>6. Rising
  BY <1>2 DEF Init, Rising
<1>7. Ahead /\ AllSafe
  BY <1>2 DEF Init, Ahead, AllSafe
<1> QED
  BY <1>1, <1>3, <1>4, <1>5, <1>6, <1>7 DEF IInv

LEMMA IInvStep == IInv /\ [Next]_vars => IInv'
<1> SUFFICES ASSUME IInv, [Next]_vars PROVE IInv'
  OBVIOUS
<1>1. ASSUME NEW e \in Editor, Mount(e) PROVE IInv'
  BY <1>1, MountKeeps
<1>2. ASSUME NEW i \in Inst, Edit(i) PROVE IInv'
  BY <1>2, EditKeeps
<1>3. ASSUME NEW i \in Inst, Unmount(i) PROVE IInv'
  BY <1>3, UnmountKeeps
<1>4. CASE SaveClicked \/ ReloadClient
  <2>1. PICK i \in Inst : SavesFrom(i)
    BY <1>4, Saving DEF IInv
  <2> QED
    BY <2>1, SavingKeeps
<1>5. CASE RevertClicked
  BY <1>5, RevertKeeps
<1>6. ASSUME NEW r, PutDone(r) \/ PutFails(r) \/ LoadDone(r) \/ LoadFails(r) \/ ReloadDone(r)
      PROVE  IInv'
  BY <1>6, Answering, AnswerKeeps
<1>7. CASE UNCHANGED vars
  <2>1. UNCHANGED <<live, mounts, stack, changed, hidden, doc, edits, stored, link, ui, excused>>
    BY <1>7 DEF vars
  <2>2. TypeOK' /\ Stacked' /\ Bar' /\ Loads' /\ Buried'
    BY <2>1 DEF IInv, TypeOK, Stacked, Registered, Bar, Loads, Buried
  <2>3. Rising' /\ Ahead' /\ AllSafe'
    BY <2>1 DEF IInv, Rising, Ahead, Newest, PutAt, AllSafe, SafeDoc, Safe
  <2> QED
    BY <2>2, <2>3 DEF IInv
<1> QED
  BY <1>1, <1>2, <1>3, <1>4, <1>5, <1>6, <1>7 DEF Next

LEMMA Always == Spec => []IInv
  BY InitIInv, IInvStep, PTL DEF Spec

\* The bar is shown exactly while an editor is registered, it offers to save only
\* what the editor on top has changed, and every open editor is registered once.
THEOREM TheBarIsTrue == Spec => []BarIsTrue
<1>1. IInv => BarIsTrue
  <2> SUFFICES ASSUME IInv PROVE BarIsTrue
    OBVIOUS
  <2>1. TypeOK /\ Stacked /\ Bar
    BY DEF IInv
  <2>2. live \subseteq Range(stack)
    BY <2>1 DEF Stacked, Registered, Range
  <2>3. IsInjective(stack)
    <3> SUFFICES ASSUME NEW k \in DOMAIN stack, NEW l \in DOMAIN stack,
                        stack[k] = stack[l], k # l
                 PROVE  FALSE
      BY DEF IsInjective
    <3>1. k < l \/ l < k
      BY <2>1, LenProperties DEF TypeOK
    <3>2. stack[k][2] < stack[k][2]
      BY <2>1, <3>1 DEF Stacked
    <3> QED
      BY <2>1, <3>2, Members, Fields
  <2> QED
    BY <2>1, <2>2, <2>3 DEF Bar, BarIsTrue
<1> QED
  BY <1>1, Always, PTL

\* What an open editor shows is on the server, on its way there, marked changed,
\* or one of the exceptions.
THEOREM NothingUnsavedIsForgotten == Spec => []UnsavedIsFlagged
<1>1. IInv => UnsavedIsFlagged
  <2> SUFFICES ASSUME IInv, NEW i \in live
               PROVE  \/ doc[i] <= stored[EditorOf(i)] \/ changed[i] \/ doc[i] \in excused
                      \/ \E r \in Range(link) : EditorOf(r.inst) = EditorOf(i)
    BY DEF UnsavedIsFlagged
  <2>1. PICK k \in DOMAIN stack : stack[k] = i
    BY DEF IInv, Stacked, Registered
  <2>2. changed[i] \/ SafeDoc(i)
    BY <2>1 DEF IInv, AllSafe
  <2> QED
    BY <2>2 DEF SafeDoc, Safe, PutAt, Range
<1> QED
  BY <1>1, Always, PTL

\* The game reloads when the server has what the editor on top showed at the
\* click, or newer data, or one of the exceptions.
THEOREM TheGameReloadsTheEdits == Spec => []ReloadSeesEdits
<1>1. IInv => ReloadSeesEdits
  <2> SUFFICES ASSUME IInv, link # <<>>, Head(link).op = "reload"
               PROVE  \/ stored[EditorOf(Head(link).inst)] >= Head(link).val
                      \/ Head(link).val \in excused
    BY DEF ReloadSeesEdits
  <2>1. TypeOK /\ AllSafe
    BY DEF IInv
  <2>2. 1 \in DOMAIN link /\ link[1] = Head(link) /\ DOMAIN link = 1..Len(link)
    BY <2>1, EmptySeq, LenProperties DEF TypeOK
  <2>3. Safe(EditorOf(link[1].inst), link[1].val, 1)
    BY <2>1, <2>2 DEF AllSafe
  <2>4. stored[EditorOf(link[1].inst)] \in Nat /\ link[1].val \in Nat
    BY <2>1, <2>2, Members, Fields DEF TypeOK
  <2> QED
    BY <2>1, <2>2, <2>3, <2>4, LenProperties DEF Safe, TypeOK
<1> QED
  BY <1>1, Always, PTL
=============================================================================
