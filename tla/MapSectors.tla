----------------------------- MODULE MapSectors -----------------------------
(***************************************************************************)
(* The sectors of a map and the tools of the map editor that make, split,  *)
(* erase and move them (views/MapEditor.vue), with undo and redo           *)
(* (utils/document.ts).  A sector has a place on one level and in each     *)
(* direction an exit, the number of the sector it leads to, 0 for none.    *)
(* A side is a wall when it stops the player (PLAY_IMPS); what else it     *)
(* shows (pictures, arcs, the other barriers) is left out.                 *)
(*                                                                         *)
(* Sector n of the code is s[n]; sector 0 is not represented.  Coordinates *)
(* are cells of a small grid, the bound of the instance.                   *)
(***************************************************************************)
EXTENDS Integers, Sequences, FiniteSetsExt

CONSTANTS Width, Height, Level,  \* bounds: the grid and the levels used
          Limit,                 \* the limit of sectors, 32768 in the code
          KeepUndo, MaxChanges   \* bounds: old maps remembered, changes in all; nothing is selected
                                 \* when no change may follow

ASSUME SectorsAssumption ==
  /\ Width \in Nat \ {0} /\ Height \in Nat \ {0} /\ Level \subseteq Int
  /\ Limit \in Nat \ {0} /\ KeepUndo \in Nat /\ MaxChanges \in Nat

VARIABLES docs, cur,  \* undoredo_stack and current
          selection,  \* the numbers of the selected sectors
          changes,    \* number of changes, for the bound
          torn,       \* history: a part was moved away from what it hangs on
          merged      \* history: sectors of two levels were moved to one
vars == <<docs, cur, selection, changes, torn, merged>>

Dir == 0..3  \* north, east, south, west
Rev(d) == (d + 2) % 4
Step == [d \in Dir |-> CASE d = 0 -> <<0, -1>> [] d = 1 -> <<1, 0>>
                         [] d = 2 -> <<0, 1>>  [] d = 3 -> <<-1, 0>>]
AllDirs(v) == [d \in Dir |-> v]

\* new MapSector
Blank == [used |-> FALSE, level |-> 0, x |-> 0, y |-> 0,
          exit |-> AllDirs(0), wall |-> AllDirs(FALSE)]
Sectors == docs[cur]

Rect == {r \in [left : 0..Width, right : 0..Width, top : 0..Height, bottom : 0..Height] :
           r.left <= r.right /\ r.top <= r.bottom}
Place(e, dx, dy) == <<e.x + dx, e.y + dy>>
Beside(p, d) == <<p[1] + Step[d][1], p[2] + Step[d][2]>>
\* sectormap: the sector at a place of a level, the last one if there are more
On(s, lvl, p) == {n \in DOMAIN s : s[n].used /\ s[n].level = lvl /\ <<s[n].x, s[n].y>> = p}
At(s, lvl, p) == IF On(s, lvl, p) = {} THEN 0 ELSE Max(On(s, lvl, p))
\* makeSectorSelection
InRect(s, lvl, r) ==
  {n \in DOMAIN s : /\ s[n].used /\ s[n].level = lvl
                    /\ s[n].x \in r.left..r.right - 1 /\ s[n].y \in r.top..r.bottom - 1}
-----------------------------------------------------------------------------
(***************************************************************************)
(* Links.                                                                  *)
(***************************************************************************)
\* broken variant: only the new sector is linked
Connect_OneWay(s, from, to, d) ==
  [s EXCEPT ![from].exit[d] = to, ![from].wall[d] = FALSE, ![to].wall[Rev(d)] = FALSE]
\* connectSectors
Connect(s, from, to, d) ==
  [s EXCEPT ![from].exit[d] = to, ![to].exit[Rev(d)] = from,
            ![from].wall[d] = FALSE, ![to].wall[Rev(d)] = FALSE]

Linked(s, from, d) ==
  LET t == s[from].exit[d] IN t # 0 /\ s[t].exit[Rev(d)] = from

WallBetween(s, from, to, d) == [s EXCEPT ![from].wall[d] = TRUE, ![to].wall[Rev(d)] = TRUE]
NoWayBetween(s, from, to, d) == [s EXCEPT ![from].exit[d] = 0, ![to].exit[Rev(d)] = 0]

\* broken variant: the sector behind is not walled up
Disconnect_OneSide(s, from, d, thin) ==
  LET t == s[from].exit[d]
      w == [s EXCEPT ![from].wall[d] = TRUE]
  IN IF ~Linked(s, from, d) THEN s ELSE IF thin THEN w ELSE NoWayBetween(w, from, t, d)
\* disconnectSectors; a thin wall keeps the exits
Disconnect(s, from, d, thin) ==
  LET t == s[from].exit[d]
      w == WallBetween(s, from, t, d)
  IN IF ~Linked(s, from, d) THEN s ELSE IF thin THEN w ELSE NoWayBetween(w, from, t, d)

\* walls all around, then a link to every neighbour on the level
ConnectTo(s, n, lvl, p, d) ==
  LET t == At(s, lvl, Beside(p, d)) IN IF t = 0 THEN s ELSE Connect(s, n, t, d)
ConnectAround(s, n, lvl, p) ==
  LET to(m, d) == ConnectTo(m, n, lvl, p, d)
  IN to(to(to(to([s EXCEPT ![n].wall = AllDirs(TRUE)], 0), 1), 2), 3)

\* the next number would reach the limit
Full(s) == Len(s) + 1 >= Limit
\* free_sectors
Free(s) == {n \in DOMAIN s : ~s[n].used}

NewAt(lvl, p) == [Blank EXCEPT !.used = TRUE, !.level = lvl, !.x = p[1], !.y = p[2]]
\* one cell of drawRect: its sector is drawn anew, or the first free one is taken, or
\* the map grows; nothing if it cannot grow
DrawCell(s, lvl, p) ==
  LET here == At(s, lvl, p)
      free == Min(Free(s))
  IN IF here # 0 THEN ConnectAround(s, here, lvl, p)
     ELSE IF Free(s) # {} THEN ConnectAround([s EXCEPT ![free] = NewAt(lvl, p)], free, lvl, p)
     ELSE IF Full(s) THEN s
     ELSE ConnectAround(Append(s, NewAt(lvl, p)), Len(s) + 1, lvl, p)

\* the cells of r, column by column
Cell(r, k) == LET h == r.bottom - r.top IN <<r.left + ((k - 1) \div h), r.top + ((k - 1) % h)>>
Draw(s, lvl, r) ==
  LET cells == (r.right - r.left) * (r.bottom - r.top)
      f[k \in 0..cells] == IF k = 0 THEN s ELSE DrawCell(f[k - 1], lvl, Cell(r, k))
  IN f[cells]

\* a line along r, which has no width or no height
SplitAt(s, lvl, p, d, thin) == LET n == At(s, lvl, p) IN IF n = 0 THEN s ELSE Disconnect(s, n, d, thin)
Split(s, lvl, r, thin) ==
  LET d == IF r.left = r.right THEN 3 ELSE 0
      cells == IF d = 3 THEN r.bottom - r.top ELSE r.right - r.left
      p(k) == IF d = 3 THEN <<r.left, r.top + k - 1>> ELSE <<r.left + k - 1, r.top>>
      f[k \in 0..cells] == IF k = 0 THEN s ELSE SplitAt(f[k - 1], lvl, p(k), d, thin)
  IN f[cells]

\* eraseRect
EraseSector(s, n) ==
  LET cut(m, d) == Disconnect(m, n, d, FALSE)
  IN [cut(cut(cut(cut(s, 0), 1), 2), 3) EXCEPT ![n] = Blank]
Erase(s, gone) ==
  LET f[k \in 0..Len(s)] ==
        IF k = 0 THEN s ELSE IF k \in gone THEN EraseSector(f[k - 1], k) ELSE f[k - 1]
  IN f[Len(s)]

\* broken variant: where the sectors are now is compared
CanMove_Here(s, sel, dx, dy, to) ==
  \A n \in sel, m \in DOMAIN s \ sel :
    s[m].used /\ s[m].level = to => Place(s[n], 0, 0) # Place(s[m], 0, 0)
\* check_if_can_move; sectors that move together are not compared
CanMove(s, sel, dx, dy, to) ==
  \A n \in sel, m \in DOMAIN s \ sel :
    s[m].used /\ s[m].level = to => Place(s[n], dx, dy) # Place(s[m], 0, 0)

Moved(s, sel, dx, dy, to) ==
  [n \in DOMAIN s |-> IF n \in sel
                      THEN [s[n] EXCEPT !.x = @ + dx, !.y = @ + dy, !.level = to] ELSE s[n]]

\* expand_selection: everything the exits lead to, found in breadth
Exits(s, set) == {s[n].exit[d] : n \in set \cap DOMAIN s, d \in Dir} \ {0}
Expand(s, set) ==
  LET grow[k \in 0..Len(s)] == IF k = 0 THEN set ELSE grow[k - 1] \cup Exits(s, grow[k - 1])
  IN grow[Len(s)]

\* no exit leads into or out of the selection
Whole(s, sel) ==
  \A n \in DOMAIN s, d \in Dir :
    s[n].exit[d] # 0 => (n \in sel <=> s[n].exit[d] \in sel)
\* all sectors of the selection are on one level
OneLevel(s, sel) == \A n, m \in sel : s[n].used /\ s[m].used => s[n].level = s[m].level
-----------------------------------------------------------------------------
Init == docs = << <<>> >> /\ cur = 1 /\ selection = {} /\ changes = 0 /\ torn = FALSE /\ merged = FALSE

\* end_edit and add_change; only the last KeepUndo maps are kept here
Change(s) ==
  LET all == Append(SubSeq(docs, 1, cur), s)
      kept == SubSeq(all, IF Len(all) > KeepUndo + 1 THEN Len(all) - KeepUndo ELSE 1, Len(all))
  IN /\ changes < MaxChanges /\ changes' = changes + 1
     /\ docs' = kept /\ cur' = Len(kept)

DrawRect(lvl, r) ==
  /\ r.left < r.right /\ r.top < r.bottom
  /\ Change(Draw(Sectors, lvl, r))
  /\ UNCHANGED <<selection, torn, merged>>

\* a line that meets no link is not an edit
SplitRect(lvl, r, thin) ==
  /\ (r.left = r.right) # (r.top = r.bottom)
  /\ LET s == Split(Sectors, lvl, r, thin)
         d == IF r.left = r.right THEN 3 ELSE 0
     IN /\ \E x \in r.left..r.right, y \in r.top..r.bottom :
             LET n == At(Sectors, lvl, <<x, y>>)
             IN (x < r.right \/ d = 3) /\ (y < r.bottom \/ d = 0) /\ n # 0 /\ Linked(Sectors, n, d)
        /\ Change(s)
  /\ UNCHANGED <<selection, torn, merged>>

EraseRect(lvl, r) ==
  LET gone == InRect(Sectors, lvl, r)
  IN gone # {} /\ Change(Erase(Sectors, gone)) /\ UNCHANGED <<selection, torn, merged>>

\* modifySelection, and expand_selection after it with the move tool
Select(lvl, r, how) ==
  LET in == InRect(Sectors, lvl, r)
  IN /\ r.left < r.right /\ r.top < r.bottom /\ changes < MaxChanges
     /\ selection' = CASE how = "set" -> in                [] how = "add" -> selection \cup in
                       [] how = "drop" -> selection \ in   [] how = "move" -> Expand(Sectors, in)
     /\ UNCHANGED <<docs, cur, changes, torn, merged>>

\* moveSelection.  A selected sector that an undo took away makes it throw.
MoveSelection(dx, dy, to) ==
  /\ selection # {} /\ selection \subseteq DOMAIN Sectors
  /\ \A n \in selection : Sectors[n].x + dx \in 0..Width - 1 /\ Sectors[n].y + dy \in 0..Height - 1
  /\ CanMove(Sectors, selection, dx, dy, to)
  /\ Change(Moved(Sectors, selection, dx, dy, to))
  /\ torn' = (torn \/ ~Whole(Sectors, selection))
  /\ merged' = (merged \/ ~OneLevel(Sectors, selection))
  /\ UNCHANGED selection

Undo == cur > 1 /\ cur' = cur - 1 /\ UNCHANGED <<docs, selection, changes, torn, merged>>
Redo == cur < Len(docs) /\ cur' = cur + 1 /\ UNCHANGED <<docs, selection, changes, torn, merged>>

Next ==
  \/ \E lvl \in Level, r \in Rect :
       \/ DrawRect(lvl, r) \/ EraseRect(lvl, r)
       \/ \E thin \in BOOLEAN : SplitRect(lvl, r, thin)
       \/ \E how \in {"set", "add", "drop", "move"} : Select(lvl, r, how)
  \/ \E dx \in 1 - Width..Width - 1, dy \in 1 - Height..Height - 1, to \in Level :
       MoveSelection(dx, dy, to)
  \/ Undo \/ Redo

Spec == Init /\ [][Next]_vars
-----------------------------------------------------------------------------
(***************************************************************************)
(* What a map drawn with the tools can be relied on for.                   *)
(***************************************************************************)
Mutual(s) ==
  \A n \in DOMAIN s, d \in Dir :
    s[n].exit[d] # 0 =>
      LET t == s[n].exit[d]
      IN /\ s[n].used /\ s[t].used /\ s[t].exit[Rev(d)] = n
         /\ s[t].level = s[n].level /\ Place(s[t], 0, 0) = Beside(Place(s[n], 0, 0), d)
Fenced(s) == \A n \in DOMAIN s, d \in Dir : s[n].used /\ ~s[n].wall[d] => s[n].exit[d] # 0
Unique(s) ==
  \A n, m \in DOMAIN s :
    /\ s[n].used /\ s[m].used /\ s[n].level = s[m].level
    /\ Place(s[n], 0, 0) = Place(s[m], 0, 0)
    => n = m

(***************************************************************************)
(* LinksAreMutual: every exit leads to the drawn neighbour in its          *)
(* direction, which has the exit back, in any order of drawing, splitting, *)
(* erasing, undoing, and moving parts that hang together (once one part is *)
(* torn off by moving it alone, its exits lead to where it was).           *)
(***************************************************************************)
LinksAreMutual == ~torn /\ ~merged => Mutual(Sectors)

(***************************************************************************)
(* NoOpenEdge: where a sector has no exit it has a wall, so the player     *)
(* never walks off the map; this holds even when the move tool has torn    *)
(* neighbours apart.                                                       *)
(***************************************************************************)
NoOpenEdge == Fenced(Sectors)

(***************************************************************************)
(* OnePerCell: no two sectors take the same place of one level, though     *)
(* numbers are reused and selections grow stale.  (Sectors that are        *)
(* selected on two levels and moved to one are not compared.)              *)
(***************************************************************************)
OnePerCell == ~merged => Unique(Sectors)
=============================================================================
