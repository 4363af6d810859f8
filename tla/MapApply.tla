----------------------------- MODULE MapApply -----------------------------
(***************************************************************************)
(* The panel of MapEditor.vue and its Apply button: the sector and side in *)
(* focus are copied to the panel (updateFocusData), edited there, and      *)
(* applyChanges carries the difference between the map and the panel over  *)
(* to one side or to the selected sectors, as the mode says.  The map is a *)
(* document with undo.                                                     *)
(*                                                                         *)
(* Of a sector there are its flags (and ceil, floor, type, action, target, *)
(* which are merged one by one like a side's primary, are left out) and    *)
(* its exits; of a side the primary wall and the flags.  Sides are 0 to 3, *)
(* clockwise from the north; an exit is a sector's number or 0.            *)
(* A click beside the map closes the panel and Apply does nothing then;    *)
(* this and the tools other than the edit tool are left out.               *)
(***************************************************************************)
EXTENDS Naturals, Sequences, FiniteSets

CONSTANTS Sector,        \* the numbers of the sectors in the map
          Plan,          \* [Sector -> [Side -> Exit]]
          Places,         \* [Sector -> coordinates]
          SectorFlag, SideFlag, Wall,
          Modes,         \* the apply modes used in this instance
          Links,         \* and what exits are edited to: a marked sector, or 0
          MaxApply       \* bound: how often Apply changes the map; the panel
                         \* and the selection are left alone after the last time

AllModes == {"active", "both", "direction", "perimeter", "inner", "edge", "outer", "all",
             "north", "east", "south", "west"}

ASSUME PanelAssumption ==
  /\ Sector \subseteq Nat \ {0} /\ Links \subseteq Sector \cup {0} /\ MaxApply \in Nat
  /\ Modes \subseteq AllModes
  /\ Plan \in [Sector -> [0..3 -> Sector \cup {0}]]

Side == 0..3
Single == {"active", "both"}

VARIABLES
  panel_docs, current,  \* undoredo_stack and current of the document
  focus,          \* the panel: sector, side, sector_def and side_def
  selected,      \* selected sectors
  mode,           \* applyMode
  shape,          \* last_selection_shape
  lastMode,       \* last_apply_mode, per shape
  applied         \* number of Applies that changed the map, for the bound
panel_vars == <<panel_docs, current, focus, selected, mode, shape, lastMode, applied>>

curmap == panel_docs[current]
Opposite(d) == (d + 2) % 4

\* updateFocusData
Panel(m, s, d) == [sector |-> s, side |-> d, flags |-> m.flags[s], exit |-> m.exit[s],
                   def |-> m.side[s][d]]

PanelInit ==
  /\ \E g \in [Sector -> SUBSET SideFlag] :
       panel_docs = <<[flags |-> [s \in Sector |-> {}], exit |-> Plan,
                 side |-> [s \in Sector |-> [d \in Side |-> [primary |-> 0, flags |-> g[s]]]]]>>
  /\ current = 1 /\ selected = {} /\ mode = "active" /\ shape = "none" /\ applied = 0
  /\ lastMode = [none |-> "active", row |-> "direction", block |-> "all", outer |-> "outer"]
  /\ \E s \in Sector, d \in Side : focus = Panel(panel_docs[1], s, d)

-----------------------------------------------------------------------------
\* The user clicks a side (onMapClickXY): the selection goes, unless shift is
\* held; selects sectors; chooses a mode.

Xs(sel) == {Places[s][1] : s \in sel}
Ys(sel) == {Places[s][2] : s \in sel}
\* getSelectionShape; a single sector is a block
ShapeOf(sel, s) ==
  IF sel = {} THEN "none" ELSE IF s \notin sel THEN "outer"
  ELSE IF (Cardinality(Xs(sel)) = 1) # (Cardinality(Ys(sel)) = 1) THEN "row" ELSE "block"

\* The watchers of the selection: without one only the modes for the active wall
\* are left (updateSelection); a new shape brings back the mode last used for it.
Selected(sel, s) ==
  /\ selected' = sel /\ shape' = ShapeOf(sel, s)
  /\ mode' = IF shape' # shape THEN lastMode[shape']
             ELSE IF sel = {} /\ mode \notin Single THEN "active" ELSE mode
  /\ UNCHANGED <<lastMode, applied>>

Click(s, d, shift) ==
  /\ focus' = Panel(curmap, s, d)
  /\ IF shift THEN UNCHANGED <<selected, mode, shape, lastMode, applied>> ELSE Selected({}, s)
  /\ UNCHANGED <<panel_docs, current>>
SelectSectors(sel) ==
  /\ applied < MaxApply /\ Selected(sel, focus.sector)
  /\ UNCHANGED <<panel_docs, current, focus>>
ChooseMode(m) ==
  /\ m \in Modes /\ (m \in Single \/ selected # {}) /\ mode' = m /\ applied < MaxApply
  /\ UNCHANGED <<panel_docs, current, focus, selected, shape, lastMode, applied>>

\* The controls of the panel.
Toggle(set, f) == (set \ {f}) \cup ({f} \ set)
Edit(p) == /\ focus' = p /\ p # focus /\ applied < MaxApply
           /\ UNCHANGED <<panel_docs, current, selected, mode, shape, lastMode, applied>>
EditSectorFlag == \E f \in SectorFlag : Edit([focus EXCEPT !.flags = Toggle(@, f)])
EditSideFlag == \E f \in SideFlag : Edit([focus EXCEPT !.def.flags = Toggle(@, f)])
EditPrimary == \E w \in Wall : Edit([focus EXCEPT !.def.primary = w])
EditExit == \E e \in Links : Edit([focus EXCEPT !.exit[focus.side] = e])

-----------------------------------------------------------------------------
\* applyChanges.  Each change is computed once, from the map as it was and the
\* panel, and made to every sector or side it goes to.

old == Panel(curmap, focus.sector, focus.side)
AnySectorChange == old.flags # focus.flags \/ old.exit # focus.exit
AnySideChange == old.def # focus.def

\* slip: flags that the panel has are set, no flag is cleared
MergeFlags_Add(flags) == flags \cup focus.def.flags
\* s.flags & f_rem | f_add (side)
MergeFlags(flags) ==
  (flags \ (old.def.flags \ focus.def.flags)) \cup (focus.def.flags \ old.def.flags)
NewSide(def) ==
  [primary |-> IF old.def.primary # focus.def.primary THEN focus.def.primary ELSE def.primary,
   flags |-> MergeFlags(def.flags)]

\* s.flags &= old & ~new; s.flags |= new & ~old (sector), where the flags differ
MergeSectorFlags(flags) ==
  IF old.flags = focus.flags THEN flags
  ELSE (flags \cap (old.flags \ focus.flags)) \cup (focus.flags \ old.flags)
NewExit(exit) == [d \in Side |-> IF old.exit[d] # focus.exit[d] THEN focus.exit[d] ELSE exit[d]]

ChangedSectors == IF selected # {} /\ mode \notin Single THEN selected ELSE {focus.sector}
SectorsDone ==
  [curmap EXCEPT
    !.flags = [s \in Sector |-> IF s \in ChangedSectors THEN MergeSectorFlags(@[s]) ELSE @[s]],
    !.exit = [s \in Sector |-> IF s \in ChangedSectors THEN NewExit(@[s]) ELSE @[s]]]

\* slip: the side behind is taken for the one with the same number
Both_Same(m) ==
  LET s2 == m.exit[focus.sector][focus.side]
  IN {<<focus.sector, focus.side>>} \cup (IF s2 = 0 THEN {} ELSE {<<s2, focus.side>>})
\* the side in focus and the one behind the exit
Both(m) ==
  LET s2 == m.exit[focus.sector][focus.side]
  IN {<<focus.sector, focus.side>>} \cup (IF s2 = 0 THEN {} ELSE {<<s2, Opposite(focus.side)>>})

\* the filters, by a side's exit and direction
Filter(e, d) ==
  CASE mode = "all"       -> TRUE
    [] mode = "direction" -> d = focus.side
    [] mode = "edge"      -> e = 0
    [] mode = "inner"     -> e \in selected
    [] mode = "perimeter" -> e # 0 /\ e \notin selected
    [] mode = "east"      -> d = 3
    [] mode = "west"      -> d = 1
    [] mode = "north"     -> d = 0
    [] mode = "south"     -> d = 2
    [] mode = "outer"     -> e \in selected
\* on the map whose sectors are changed already
ChangedSides(m) ==
  IF mode = "active" THEN {<<focus.sector, focus.side>>}
  ELSE IF mode = "both" THEN Both(m)
  ELSE {x \in (IF mode = "outer" THEN Sector \ selected ELSE selected) \X Side :
          Filter(m.exit[x[1]][x[2]], x[2])}

SidesDone(m) ==
  [m EXCEPT !.side = [s \in Sector |-> [d \in Side |->
     IF AnySideChange /\ <<s, d>> \in ChangedSides(m) THEN NewSide(@[s][d]) ELSE @[s][d]]]]

\* end_edit (Document.add_change cuts what could be redone)
EndEdit(m) == /\ panel_docs' = Append(SubSeq(panel_docs, 1, current), m)
              /\ current' = current + 1

Apply ==
  /\ AnySectorChange \/ AnySideChange
  /\ applied < MaxApply /\ applied' = applied + 1
  /\ LET m1 == IF AnySectorChange THEN SectorsDone ELSE curmap
         m == SidesDone(m1)
     IN EndEdit(m) /\ focus' = Panel(m, focus.sector, focus.side)
  /\ lastMode' = [lastMode EXCEPT ![ShapeOf(selected, focus.sector)] = mode]
  /\ UNCHANGED <<selected, mode, shape>>

\* slip: the panel goes on showing what was undone
DoUndo_Stale ==
  /\ current > 1 /\ current' = current - 1
  /\ UNCHANGED <<panel_docs, focus, selected, mode, shape, lastMode, applied>>
DoUndo ==
  /\ current > 1 /\ current' = current - 1
  /\ focus' = Panel(panel_docs[current'], focus.sector, focus.side)
  /\ UNCHANGED <<panel_docs, selected, mode, shape, lastMode, applied>>
DoRedo ==
  /\ current < Len(panel_docs) /\ current' = current + 1
  /\ focus' = Panel(panel_docs[current'], focus.sector, focus.side)
  /\ UNCHANGED <<panel_docs, selected, mode, shape, lastMode, applied>>

PanelNext ==
  \/ \E s \in Sector, d \in Side, shift \in BOOLEAN : Click(s, d, shift)
  \/ \E sel \in SUBSET Sector : SelectSectors(sel)
  \/ \E m \in Modes : ChooseMode(m)
  \/ EditSectorFlag \/ EditSideFlag \/ EditPrimary \/ EditExit
  \/ Apply \/ DoUndo \/ DoRedo
PanelSpec == PanelInit /\ [][PanelNext]_panel_vars
-----------------------------------------------------------------------------
\* What Apply promises, in the words of the editor's labels.

\* The side (s, d) is one that the label of the mode names (MapEditor.vue:89-98),
\* in a map m.
Meant(m, s, d) ==
  LET chosen == s \in selected
      e == m.exit[s][d]
      here == s = focus.sector /\ d = focus.side
  IN CASE mode = "active"    -> here
       [] mode = "both"      -> here \/ (s = m.exit[focus.sector][focus.side]
                                        /\ d = Opposite(focus.side))
       [] mode = "direction" -> chosen /\ d = focus.side
       [] mode = "perimeter" -> chosen /\ e \notin selected \cup {0}
       [] mode = "inner"     -> chosen /\ e \in selected
       [] mode = "edge"      -> chosen /\ e = 0
       [] mode = "outer"     -> ~chosen /\ e \in selected
       [] mode = "all"       -> chosen
       [] mode = "north"     -> chosen /\ d = 0
       [] mode = "east"      -> chosen /\ d = 1
       [] mode = "south"     -> chosen /\ d = 2
       [] mode = "west"      -> chosen /\ d = 3

newmap == panel_docs'[current']

\* Apply changes walls only where the mode says, and the exits it goes by are
\* those of the map it leaves (the exits edited in the same Apply count).
OnlyMeantSides ==
  [][Apply => \A s \in Sector, d \in Side :
       newmap.side[s][d] # curmap.side[s][d] => Meant(newmap, s, d)]_panel_vars

\* There, each flag toggled in the panel gets the panel's value, and a flag not
\* toggled stays what it was on that side (applyChanges carries differences,
\* not values, since the selected sides may differ); likewise the wall.
EditsArrive ==
  [][Apply => \A s \in Sector, d \in Side : Meant(newmap, s, d) =>
       LET was == curmap.side[s][d]
           is == newmap.side[s][d]
           Toggled(f) == f \in old.def.flags <=> f \notin focus.def.flags
       IN /\ \A f \in SideFlag :
               f \in is.flags <=> IF Toggled(f) THEN f \in focus.def.flags ELSE f \in was.flags
          /\ is.primary = IF old.def.primary # focus.def.primary THEN focus.def.primary
                          ELSE was.primary]_panel_vars

\* When the map changes the panel shows the map that is there: the next Apply
\* starts from it, and would else bring back what was undone.
PanelFollows ==
  [][newmap # curmap => focus' = Panel(newmap, focus.sector, focus.side)]_panel_vars
=============================================================================
