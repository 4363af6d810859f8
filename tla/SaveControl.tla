---------------------------- MODULE SaveControl ----------------------------
(***************************************************************************)
(* Save and Revert in the status bar (components/StatusBar.vue) and the    *)
(* editors that register there.  Each mounted editor has a control on a    *)
(* stack; the buttons work for the control on top and are refreshed when   *)
(* that one says so.  An editor marks its control changed when its data is *)
(* edited; saving, loading and leaving the editor are asynchronous.        *)
(*                                                                         *)
(* Three ways to write the callbacks occur (Kind):                         *)
(*   awaits    on_save returns the promise of the put (SpellsEditor,       *)
(*             ShopsEditor)                                                *)
(*   forgets   on_save starts the put and returns nothing (ItemsEditor,    *)
(*             CharacterEditor)                                            *)
(*   swallows  on_save waits and hides a failure; on_revert waits for the  *)
(*             load, and meanwhile the editor has no control (save_state   *)
(*             is null) (EnemiesEditor)                                    *)
(* The others start a load in on_revert and wait for nothing.              *)
(*                                                                         *)
(* The link takes calls in order (RpcLink).  Serving a call and bringing   *)
(* its answer is one step: an edit in between is an edit before.           *)
(***************************************************************************)
EXTENDS Naturals, Sequences, SequencesExt

CONSTANTS Editor, Kind,        \* [Editor -> {"awaits", "forgets", "swallows"}]
          MaxMounts, MaxEdits, \* bounds: mounts of all editors, edits in all
          MaxLink              \* bound: calls under way when the user acts

ASSUME KindAssumption == /\ Kind \in [Editor -> {"awaits", "forgets", "swallows"}]
                         /\ MaxMounts \in Nat /\ MaxEdits \in Nat /\ MaxLink \in Nat

Inst == Editor \X (1..MaxMounts)  \* one for each time an editor is mounted, numbered
EditorOf(i) == i[1]
KindOf(i) == Kind[EditorOf(i)]
\* versions of the data: 0 nothing loaded, 1 what the server has at first
Version == 0..MaxEdits + 1
Request == [op : {"put", "load", "reload"}, inst : Inst, val : Version,
            by : {"save", "revert", "mount", "unmount", "reload"}]

VARIABLES
  live,     \* mounted editors
  mounts,   \* number of mounts so far
  stack,    \* SaveStateStack
  changed,  \* #changed, per control
  hidden,   \* editors whose save_state is null while they load
  doc,      \* the version each editor shows
  edits,    \* number of edits; the next version is edits + 2
  stored,   \* the version the server has, per editor's file
  link,     \* calls on the way to the server
  ui,       \* what updateSaveUI last set: the bar shown, its buttons enabled
  excused   \* history: versions that the control does not speak for: a put of it
            \* failed, it was reverted or replaced by a load, a save ended
            \* after it was made
vars == <<live, mounts, stack, changed, hidden, doc, edits, stored, link, ui, excused>>
data == <<doc, edits, stored, excused>>

Init ==
  /\ live = {} /\ mounts = 0 /\ stack = <<>>
  /\ changed = [i \in Inst |-> FALSE] /\ hidden = {}
  /\ doc = [i \in Inst |-> 0] /\ edits = 0 /\ stored = [e \in Editor |-> 1]
  /\ link = <<>> /\ ui = [show |-> FALSE, enabled |-> FALSE] /\ excused = {}
-----------------------------------------------------------------------------
(***************************************************************************)
(* The stack of controls.  Every editor sets both callbacks when it        *)
(* registers, so can_save and can_revert are one condition.                *)
(***************************************************************************)
CanSave(s, chg) == s # <<>> /\ chg[Last(s)]
\* updateSaveUI
UpdateUI == ui' = [show |-> stack' # <<>>, enabled |-> CanSave(stack', changed')]
\* notify_me; after the step's stack' and changed'
NotifyMe(i) == IF stack' # <<>> /\ Last(stack') = i THEN UpdateUI ELSE UNCHANGED ui

\* broken variant: the buttons are not refreshed when the top goes
RemoveMe_Silent(i) ==
  LET k == SelectInSeq(stack, LAMBDA j : j = i)
  IN IF k = 0 THEN UNCHANGED <<stack, ui>>
     ELSE /\ stack' = RemoveAt(stack, k)
          /\ IF k = 1 THEN UpdateUI ELSE UNCHANGED ui
\* remove_me
RemoveMe(i) ==
  LET k == SelectInSeq(stack, LAMBDA j : j = i)
  IN IF k = 0 THEN UNCHANGED <<stack, ui>>
     ELSE /\ stack' = RemoveAt(stack, k)
          /\ IF k = Len(stack) THEN UpdateUI ELSE UNCHANGED ui

Excuse(versions) == excused' = excused \cup versions

Send(op, i, by) == Append(link, [op |-> op, inst |-> i, val |-> doc[i], by |-> by])
Sent(op, i, by) == link' = Send(op, i, by)
-----------------------------------------------------------------------------
(***************************************************************************)
(* The editors.                                                            *)
(***************************************************************************)
\* onMounted: register, set the callbacks, load the file
Mount(e) ==
  LET i == <<e, mounts + 1>>
  IN /\ mounts < MaxMounts /\ Len(link) < MaxLink
     /\ \A j \in live : EditorOf(j) # e
     /\ live' = live \cup {i} /\ mounts' = mounts + 1
     /\ stack' = Append(stack, i)
     /\ hidden' = IF Kind[e] = "swallows" THEN hidden \cup {i} ELSE hidden
     /\ UNCHANGED changed /\ UpdateUI
     /\ Sent("load", i, "mount")
     /\ UNCHANGED data

\* broken variant: only the control on top is marked
Edit_TopOnly(i) ==
  /\ i \in live /\ edits < MaxEdits
  /\ edits' = edits + 1 /\ doc' = [doc EXCEPT ![i] = edits + 2]
  /\ changed' = [changed EXCEPT ![i] = @ \/ Last(stack) = i]
  /\ UNCHANGED stack /\ NotifyMe(i)
  /\ UNCHANGED <<live, mounts, hidden, stored, link, excused>>
\* the data is edited, its watcher marks the control
Edit(i) ==
  /\ i \in live /\ edits < MaxEdits
  /\ edits' = edits + 1 /\ doc' = [doc EXCEPT ![i] = edits + 2]
  /\ changed' = IF i \in hidden THEN changed ELSE [changed EXCEPT ![i] = TRUE]
  /\ excused' = IF i \in hidden THEN excused \cup {edits + 2} ELSE excused
  /\ UNCHANGED stack /\ NotifyMe(i)
  /\ UNCHANGED <<live, mounts, hidden, stored, link>>

\* onUnmounted: the control saves what is changed and leaves the stack; an
\* editor that has no control at the moment leaves it there
Unmount(i) ==
  /\ i \in live /\ Len(link) < MaxLink
  /\ live' = live \ {i}
  /\ IF i \in hidden
     THEN UNCHANGED <<stack, ui, link>>
     ELSE /\ IF changed[i] THEN Sent("put", i, "unmount") ELSE UNCHANGED link
          /\ UNCHANGED changed /\ RemoveMe(i)
  /\ UNCHANGED <<changed, mounts, hidden, data>>
-----------------------------------------------------------------------------
(***************************************************************************)
(* The buttons.                                                            *)
(***************************************************************************)
\* do_save of the control on top up to its await; the buttons are off.  A
\* callback that returns nothing ends it at once.
StartSave(i) ==
  IF KindOf(i) = "forgets"
  THEN /\ changed' = [changed EXCEPT ![i] = FALSE]
       /\ NotifyMe(i)
  ELSE UNCHANGED changed /\ ui' = [ui EXCEPT !.enabled = FALSE]

SaveClicked ==
  /\ ui.enabled /\ Len(link) < MaxLink
  /\ UNCHANGED stack
  /\ Sent("put", Last(stack), "save") /\ StartSave(Last(stack))
  /\ UNCHANGED <<live, mounts, hidden, data>>

\* do_revert up to its await
RevertClicked ==
  LET i == Last(stack)
  IN /\ ui.enabled /\ Len(link) < MaxLink
     /\ UNCHANGED stack
     /\ Sent("load", i, "revert")
     /\ IF KindOf(i) = "swallows"
        THEN /\ UNCHANGED changed /\ ui' = [ui EXCEPT !.enabled = FALSE]
             /\ hidden' = hidden \cup {i}
        ELSE /\ changed' = [changed EXCEPT ![i] = FALSE] /\ NotifyMe(i)
             /\ UNCHANGED hidden
     /\ Excuse({doc[i]})
     /\ UNCHANGED <<live, mounts, doc, edits, stored>>

\* broken variant: the game is told first
ReloadClient_First ==
  /\ stack # <<>> /\ Len(link) < MaxLink
  /\ UNCHANGED stack
  /\ LET i == Last(stack)
         r == [op |-> "reload", inst |-> i, val |-> doc[i], by |-> "reload"]
     IN IF ui.enabled
        THEN /\ link' = link \o <<r, [r EXCEPT !.op = "put", !.by = "save"]>> /\ StartSave(i)
        ELSE link' = Append(link, r) /\ UNCHANGED <<changed, ui>>
  /\ UNCHANGED <<live, mounts, hidden, data>>
\* reload_client: starts a save and does not wait for it
ReloadClient ==
  /\ stack # <<>> /\ Len(link) < MaxLink
  /\ UNCHANGED stack
  /\ LET i == Last(stack)
         r == [op |-> "reload", inst |-> i, val |-> doc[i], by |-> "reload"]
     IN IF ui.enabled
        THEN link' = Append(Send("put", i, "save"), r) /\ StartSave(i)
        ELSE link' = Append(link, r) /\ UNCHANGED <<changed, ui>>
  /\ UNCHANGED <<live, mounts, hidden, data>>
-----------------------------------------------------------------------------
(***************************************************************************)
(* The server takes a call and the editor gets the answer.                 *)
(***************************************************************************)
Served(r) == link # <<>> /\ Head(link) = r /\ link' = Tail(link)

\* the rest of do_save or do_revert
Finish(i) == changed' = [changed EXCEPT ![i] = FALSE] /\ NotifyMe(i)

\* the put arrived; do_save clears the flag whatever was edited meanwhile
PutDone(r) ==
  LET i == r.inst
      e == EditorOf(i)
  IN /\ r.op = "put" /\ Served(r)
     /\ stored' = [stored EXCEPT ![e] = r.val]
     /\ UNCHANGED stack
     /\ IF r.by = "save" /\ KindOf(i) # "forgets"
        THEN Finish(i) /\ Excuse({doc[i]} \ {r.val})
        ELSE UNCHANGED <<changed, ui, excused>>
     /\ UNCHANGED <<live, mounts, hidden, doc, edits>>

\* an error answer or a lost connection; only "swallows" ends its save as if
\* nothing had happened
PutFails(r) ==
  LET i == r.inst
  IN /\ r.op = "put" /\ Served(r)
     /\ UNCHANGED stack
     /\ IF r.by = "save" /\ KindOf(i) = "swallows"
        THEN Finish(i) /\ Excuse({r.val, doc[i]})
        ELSE UNCHANGED <<changed, ui>> /\ Excuse({r.val})
     /\ UNCHANGED <<live, mounts, hidden, doc, edits, stored>>

\* the data arrives; "swallows" gets its control back, and only its do_revert
\* clears the flag
LoadDone(r) ==
  LET i == r.inst
      e == EditorOf(i)
  IN /\ r.op = "load" /\ Served(r)
     /\ doc' = [doc EXCEPT ![i] = stored[e]]
     /\ hidden' = hidden \ {i}
     /\ UNCHANGED stack
     /\ IF KindOf(i) = "swallows" /\ r.by = "mount" THEN UNCHANGED <<changed, ui>> ELSE Finish(i)
     /\ Excuse({doc[i]} \ {stored[e]})
     /\ UNCHANGED <<live, mounts, edits, stored>>

\* no file and nothing imported: the editor starts with empty data, or, with
\* "swallows", keeps what it has
LoadFails(r) ==
  LET i == r.inst
  IN /\ r.op = "load" /\ Served(r)
     /\ doc' = IF KindOf(i) = "swallows" THEN doc ELSE [doc EXCEPT ![i] = 0]
     /\ hidden' = hidden \ {i}
     /\ UNCHANGED stack
     /\ IF KindOf(i) = "swallows" /\ r.by = "mount" THEN UNCHANGED <<changed, ui>> ELSE Finish(i)
     /\ Excuse({doc[i]})
     /\ UNCHANGED <<live, mounts, edits, stored>>

ReloadDone(r) ==
  /\ r.op = "reload" /\ Served(r)
  /\ UNCHANGED <<live, mounts, stack, changed, hidden, ui, data>>

Next ==
  \/ \E e \in Editor : Mount(e)
  \/ \E i \in Inst : Edit(i) \/ Unmount(i)
  \/ SaveClicked \/ RevertClicked \/ ReloadClient
  \/ \E r \in Range(link) : PutDone(r) \/ PutFails(r) \/ LoadDone(r) \/ LoadFails(r)
                            \/ ReloadDone(r)

Spec == Init /\ [][Next]_vars
-----------------------------------------------------------------------------
(***************************************************************************)
(* What the user and the editors rely on.                                  *)
(***************************************************************************)
(***************************************************************************)
(* BarIsTrue: the buttons are shown exactly while some editor is           *)
(* registered, and offer to save only when the editor on top has changes;  *)
(* an editor that is open is registered, once, wherever in the stack.      *)
(***************************************************************************)
BarIsTrue == /\ ui.show = (stack # <<>>) /\ (ui.enabled => CanSave(stack, changed))
             /\ live \subseteq Range(stack) /\ IsInjective(stack)

(***************************************************************************)
(* UnsavedIsFlagged: an editor whose data is newer than what the server    *)
(* has is marked changed, so that the bar offers to save it and leaving saves  *)
(* it.  Exceptions the code has: a call that failed, data edited while a   *)
(* save of it was under way, data edited while EnemiesEditor loads.        *)
(***************************************************************************)
UnsavedIsFlagged ==
  \A i \in live :
    \/ doc[i] <= stored[EditorOf(i)] \/ changed[i] \/ doc[i] \in excused
    \/ \E r \in Range(link) : EditorOf(r.inst) = EditorOf(i)

(***************************************************************************)
(* ReloadSeesEdits: the game is told to reload when the server has what    *)
(* the editor on top showed at the click, or newer data, although          *)
(* reload_client does not wait for its save.  The same exceptions apply.    *)
(***************************************************************************)
ReloadSeesEdits ==
  link # <<>> /\ Head(link).op = "reload" =>
    LET r == Head(link)
    IN stored[EditorOf(r.inst)] >= r.val \/ r.val \in excused
-----------------------------------------------------------------------------
(***************************************************************************)
(* The inductive invariant behind the theorems of SaveControl_proofs.      *)
(***************************************************************************)
Call == [op : {"put", "load", "reload"}, inst : Inst, val : Nat,
         by : {"save", "revert", "mount", "unmount", "reload"}]
TypeOK ==
  /\ live \subseteq Inst /\ mounts \in Nat /\ stack \in Seq(Inst)
  /\ changed \in [Inst -> BOOLEAN] /\ hidden \subseteq Inst
  /\ doc \in [Inst -> Nat] /\ edits \in Nat /\ stored \in [Editor -> Nat]
  /\ link \in Seq(Call) /\ ui \in [show : BOOLEAN, enabled : BOOLEAN]

Same(i, j) == EditorOf(i) = EditorOf(j)
Registered(i) == \E k \in DOMAIN stack : stack[k] = i
PutAt(q, e) == link[q].op = "put" /\ EditorOf(link[q].inst) = e

\* Controls are stacked in the order of the mounts; the newest of an editor may
\* be the one that is open, and no call is of an editor yet to be mounted.
Stacked ==
  /\ \A k \in DOMAIN stack : stack[k][2] <= mounts
  /\ \A k, l \in DOMAIN stack : k < l => stack[k][2] < stack[l][2]
  /\ \A i \in live : Registered(i)
  /\ \A i \in live : \A k \in DOMAIN stack : Same(stack[k], i) => stack[k][2] <= i[2]
  /\ \A q \in DOMAIN link : link[q].inst[2] <= mounts
  /\ \A i \in Inst : i[2] > mounts => ~changed[i] /\ doc[i] = 0 /\ i \notin hidden
Bar == ui.show = (stack # <<>>) /\ (ui.enabled => CanSave(stack, changed))

\* Editors without a control wait for a load.  A control left behind by such an
\* editor is marked changed only as long as it waits.
Loads ==
  /\ \A i \in hidden : /\ KindOf(i) = "swallows"
                         /\ \E q \in DOMAIN link : link[q].op = "load" /\ link[q].inst = i
  /\ \A q \in DOMAIN link : link[q].by = "mount" =>
       /\ link[q].op = "load" /\ \A p \in DOMAIN link : p < q => link[p].inst # link[q].inst
       /\ KindOf(link[q].inst) = "swallows" =>
            ~changed[link[q].inst] /\ link[q].inst \in hidden
  /\ \A k \in DOMAIN stack : stack[k] \notin live =>
       KindOf(stack[k]) = "swallows" /\ (changed[stack[k]] => stack[k] \in hidden)
\* A changed control below another of its editor does not come up again: that
\* one is left behind too, or waits for its first load behind the load of this.
Buried ==
  \A k, l \in DOMAIN stack : k < l /\ Same(stack[k], stack[l]) /\ changed[stack[k]] =>
    \/ stack[l] \notin live
    \/ /\ stack[l] \in hidden
       /\ \E p, q \in DOMAIN link :
            /\ p < q /\ link[p].op = "load" /\ link[p].inst = stack[k]
            /\ link[q].by = "mount" /\ link[q].inst = stack[l]

\* What the server has of a file never gets older: the puts on the way are in
\* the order of the edits, and what is changed is newer than all of them.
Rising ==
  /\ \A e \in Editor : stored[e] <= edits + 1
  /\ \A i \in Inst : doc[i] <= edits + 1
  /\ \A q \in DOMAIN link : link[q].op = "put" =>
       /\ link[q].val <= edits + 1 /\ stored[EditorOf(link[q].inst)] <= link[q].val
       /\ \A p \in DOMAIN link : p < q /\ PutAt(p, EditorOf(link[q].inst)) =>
            link[p].val <= link[q].val
Newest(k) == \A l \in DOMAIN stack : Same(stack[k], stack[l]) => l <= k
Ahead ==
  \A k \in DOMAIN stack : Newest(k) /\ changed[stack[k]] =>
    LET e == EditorOf(stack[k])
    IN /\ stored[e] <= doc[stack[k]]
       /\ \A q \in DOMAIN link : PutAt(q, e) => link[q].val <= doc[stack[k]]

\* A version is safe when the server has it or a newer one, a put brings it
\* there, or it is one of the exceptions.  Unmarked data is safe, and so is
\* marked data on top while the buttons are off, and what a reload follows.
Safe(e, v, n) == \/ v <= stored[e] \/ v \in excused
                 \/ \E q \in DOMAIN link : q < n /\ PutAt(q, e) /\ link[q].val = v
SafeDoc(i) == Safe(EditorOf(i), doc[i], Len(link) + 1)
AllSafe ==
  /\ \A k \in DOMAIN stack : changed[stack[k]] \/ SafeDoc(stack[k])
  /\ stack # <<>> /\ ~ui.enabled => SafeDoc(Last(stack))
  /\ \A q \in DOMAIN link : link[q].op = "reload" =>
       Safe(EditorOf(link[q].inst), link[q].val, q)

IInv == TypeOK /\ Stacked /\ Bar /\ Loads /\ Buried /\ Rising /\ Ahead /\ AllSafe
=============================================================================
