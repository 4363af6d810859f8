-------------------------- MODULE MultiactionEditor --------------------------
(***************************************************************************)
(* components/MultiactionEditor.vue: the script of a wall.  One list of    *)
(* actions serves all events, each action has the events it is run for,    *)
(* and jumps lead to a place so many actions further on.  The panel shows  *)
(* a list for each event.  MapEditor.vue takes the script with Apply and   *)
(* gives another when another wall is chosen.                              *)
(***************************************************************************)
EXTENDS Integers, Sequences, SequencesExt, FiniteSets, FiniteSetsExt

CONSTANTS ActionEvents, MaxActions, MaxScriptEdits

VARIABLES
  script,         \* actionList and stringTable
  focused_item,   \* the action in the form: one of the list, or one that was
  opened_events,
  walls           \* the map: a script per wall, its texts, and the wall shown

script_vars == <<script, focused_item, opened_events, walls>>

\* kind: "jump" (TMA_IFJMP), "text" (TMA_TEXT) or "other"; parm is parm2, textindex, or
\* all that the forms of the others change.  id says which action it is.
create_action_instance(id, kind, event) ==
  [id |-> id, kind |-> kind, flags |-> {event}, parm |-> IF kind = "other" THEN 0 ELSE 1]
NoAction == [id |-> 0]
Ref(a) == [id |-> a.id]
List == script.actionList
Ids(list) == {list[i].id : i \in DOMAIN list}
PlaceOf(list, id) == CHOOSE i \in DOMAIN list : list[i].id = id
event_list(list, e) == SelectSeq(list, LAMBDA a : e \in a.flags)       \* prepareList
Target(list, i) ==
  IF list[i].kind = "jump" /\ i + list[i].parm \in DOMAIN list THEN list[i + list[i].parm].id ELSE 0

\* focused_item.value: an action of the list is changed in the list
Here == focused_item # NoAction /\ focused_item.id \in Ids(List)
f == IF Here THEN List[PlaceOf(List, focused_item.id)] ELSE focused_item
Edited(a) ==
  /\ walls.edits < MaxScriptEdits /\ walls' = [walls EXCEPT !.edits = @ + 1]
  /\ IF Here THEN script' = [script EXCEPT !.actionList[PlaceOf(List, f.id)] = a] /\ UNCHANGED focused_item
     ELSE focused_item' = a /\ UNCHANGED script
Reordered(list) ==
  /\ walls.edits < MaxScriptEdits /\ walls' = [walls EXCEPT !.edits = @ + 1]
  /\ script' = [script EXCEPT !.actionList = list]

\* slip: offsets are taken again only from the actions before the change
JumpGuard_Back(old, new) ==
  [i \in DOMAIN new |->
     LET t == Target(old, PlaceOf(old, new[i].id))
     IN IF t \in Ids(new) /\ PlaceOf(new, t) > i THEN [new[i] EXCEPT !.parm = PlaceOf(new, t) - i] ELSE new[i]]
\* JumpGuard: jumps are led to where their targets are now
JumpGuard(old, new) ==
  [i \in DOMAIN new |->
     LET t == Target(old, PlaceOf(old, new[i].id))
     IN IF t \in Ids(new) THEN [new[i] EXCEPT !.parm = PlaceOf(new, t) - i] ELSE new[i]]

\* what the user does
open_close(e) ==
  /\ event_list(List, e) # <<>>
  /\ opened_events' = (opened_events \ {e}) \union ({e} \ opened_events)
  /\ focused_item' = IF focused_item # NoAction /\ f.flags \intersect opened_events' = {} THEN NoAction ELSE focused_item
  /\ UNCHANGED <<script, walls>>
Item_click ==
  /\ \E e \in opened_events : \E i \in DOMAIN List : e \in List[i].flags /\ focused_item' = Ref(List[i])
  /\ UNCHANGED <<script, opened_events, walls>>

add_new_item(kind, e) ==
  LET a == create_action_instance(walls.made + 1, kind, e)
  IN /\ walls.made < MaxActions /\ walls' = [walls EXCEPT !.made = @ + 1]
     /\ opened_events' = opened_events \union {e}
     /\ script' = [script EXCEPT !.actionList = Append(@, a)] /\ focused_item' = Ref(a)

\* no longer run for one event; erased when for none, and the form closes 10 ms later
erase_item(i, e) ==
  LET a == [List[i] EXCEPT !.flags = @ \ {e}]
  IN /\ e \in List[i].flags \intersect opened_events /\ UNCHANGED opened_events
     /\ IF a.flags # {} THEN Reordered([List EXCEPT ![i] = a]) /\ UNCHANGED focused_item
        ELSE /\ Reordered(JumpGuard(List, RemoveAt(List, i)))
             /\ focused_item' = IF focused_item # NoAction /\ f.id = a.id THEN a ELSE focused_item
Close_form == focused_item # NoAction /\ focused_item' = NoAction /\ UNCHANGED <<script, opened_events, walls>>

clone_item(e) ==          \* the action is run for one more event
  /\ focused_item # NoAction /\ Edited([f EXCEPT !.flags = @ \union {e}])
  /\ opened_events' = opened_events \union {e}

\* past the next action that is run for a common event, or to the end of the list
move_item(dir) ==
  LET idx == PlaceOf(List, f.id)
      common == {k \in DOMAIN List : (k - idx) * dir > 0 /\ List[k].flags \intersect f.flags # {}}
      t == IF dir > 0 THEN Min(common \union {Len(List)}) ELSE Max(common \union {1})
      rest == RemoveAt(List, idx)
  IN /\ Here /\ List[IF dir < 0 THEN 1 ELSE Len(List)].id # f.id
     /\ Reordered(JumpGuard(List, SubSeq(rest, 1, t - 1) \o <<List[idx]>> \o SubSeq(rest, t, Len(rest))))
     /\ UNCHANGED <<focused_item, opened_events>>

\* the form of a jump lists the actions of its events (an action that has left the list
\* counts its offset from before the first one)
Jump_edit ==
  LET idx == IF Here THEN PlaceOf(List, f.id) ELSE 0
  IN /\ focused_item # NoAction /\ f.kind = "jump"
     /\ \E k \in DOMAIN List : List[k].flags \intersect f.flags # {} /\ Edited([f EXCEPT !.parm = k - idx])
     /\ UNCHANGED opened_events
Parameter_edit ==         \* the forms of all other actions
  /\ focused_item # NoAction /\ f.kind = "other"
  /\ Edited([f EXCEPT !.parm = 1 - @]) /\ UNCHANGED opened_events
\* the form of a text: another text of the table, or its words, for all who show it
Text_choose ==
  /\ focused_item # NoAction /\ f.kind = "text"
  /\ \E n \in DOMAIN script.stringTable : Edited([f EXCEPT !.parm = n])
  /\ UNCHANGED opened_events
Text_edit ==
  /\ focused_item # NoAction /\ f.kind = "text" /\ f.parm # 0
  /\ walls.edits < MaxScriptEdits /\ walls' = [walls EXCEPT !.edits = @ + 1]
  /\ script' = [script EXCEPT !.stringTable = [n \in {f.parm} |-> "t"] @@ @]
  /\ UNCHANGED <<focused_item, opened_events>>
\* the number after the last text: no gap is ever found
stringtable_add_text ==
  LET n == Max({0} \union DOMAIN script.stringTable) + 1
      a == [f EXCEPT !.parm = n]
  IN /\ focused_item # NoAction /\ f.kind = "text"
     /\ walls.edits < MaxScriptEdits /\ walls' = [walls EXCEPT !.edits = @ + 1]
     /\ script' = [actionList |-> IF Here THEN [List EXCEPT ![PlaceOf(List, f.id)] = a] ELSE List,
                   stringTable |-> [k \in {n} |-> ""] @@ script.stringTable]
     /\ focused_item' = (IF Here THEN focused_item ELSE a) /\ UNCHANGED opened_events

\* MapEditor.vue.  updateFocusData: the panel gets copies, and the action in the form is
\* of no list any more; all there is of it is what it was.
Shown(side, w) ==
  /\ script' = [actionList |-> w.sides[side], stringTable |-> w.table]
  /\ walls' = [w EXCEPT !.shown = side]
  /\ focused_item' = (IF focused_item = NoAction THEN NoAction ELSE [f EXCEPT !.id = -f.id])
  /\ UNCHANGED opened_events
Select == \E side \in DOMAIN walls.sides : Shown(side, walls)
\* the list of the wall, and with it the texts; texts alone are not taken
applyChanges ==
  /\ walls.sides[walls.shown] # List
  /\ Shown(walls.shown, [walls EXCEPT !.sides[walls.shown] = List, !.table = script.stringTable])

ScriptNext ==
  \/ (\E e \in ActionEvents : open_close(e) \/ clone_item(e) \/ (\E i \in DOMAIN List : erase_item(i, e))
                              \/ (\E kind \in {"jump", "text", "other"} : add_new_item(kind, e)))
  \/ Item_click \/ Close_form \/ move_item(-1) \/ move_item(1) \/ Jump_edit \/ Parameter_edit
  \/ Text_choose \/ Text_edit \/ stringtable_add_text \/ Select \/ applyChanges
=============================================================================
