------------------------------ MODULE MapFile ------------------------------
(***************************************************************************)
(* core/map_structs.ts: a map as the editor holds it, and as its file.     *)
(* The editor gives sides and sectors configurations of walls, arcs,       *)
(* floors and ceilings (their pictures, frame by frame); the file gives    *)
(* them bytes: the number of the first picture in a table, a count of      *)
(* frames and flags.  A configuration is the record of what it looks like  *)
(* (its md5 key is one to one with that), a section of the file a field,   *)
(* a word of flags the set of its flags.                                   *)
(***************************************************************************)
EXTENDS MapRecords

Directions == 0..3
Byte(n) == n % 256
None == [none |-> TRUE]

\* the flags of a side that repeat its walls, and of a sector its floor
PrimFlags == {"PRIM_ANIM", "PRIM_FORV", "PRIM_GAB", "DOUBLE_SIDE"}
SecFlags == {"SEC_ANIM", "SEC_FORV", "SEC_GAB", "SPEC"}
If(flag, condition) == IF condition THEN {flag} ELSE {}
AnimCounts == <<1, 2, 2, 4, 4, 8>>      \* pictures of a floor of mode 0 to 5
ANIMATED == -1

WallConfiguration ==
  [graphics |-> << "" >>, position |-> 0, alternate |-> FALSE, forward_dir |-> FALSE,
   repeat_anim |-> FALSE, ping_pong |-> FALSE, allow_offset |-> FALSE, secondary_front |-> FALSE,
   offset |-> <<250, 160>>, lclip |-> 0]
ArcConfiguration(left, right) == [pictures |-> <<left, right>>]
FloorCeilConfiguration ==
  [pixmaps |-> << "" >>, mode |-> 0, button |-> FALSE, fog_to_black |-> FALSE, is_ceil |-> FALSE]
MapSide == [primary |-> None, secondary |-> None, arc |-> None, flags |-> {}, action |-> 0,
            target_side |-> 0, target_sector |-> 0, niche |-> None, actions |-> <<>>,
            behind |-> FALSE, items |-> <<>>]
MapSector == [floor |-> None, ceil |-> None, type |-> "Empty", action |-> 0, target_side |-> 0,
              target_sector |-> 0, exit |-> [d \in Directions |-> 0],
              side |-> [d \in Directions |-> MapSide], place |-> <<0, 0, 0>>, enemy |-> None, flags |-> {}]

\* sides and sectors by their numbers, four sides to a sector
DirOf(p) == (p - 1) % 4
Sides(map) == [p \in 1..4 * Len(map) |-> map[(p - 1) \div 4 + 1].side[DirOf(p)]]
SectorOf(map, p) == map[(p - 1) \div 4 + 1]
Odd(place, p) == (place[1] + place[2] + DirOf(p)) % 2 = 1

-----------------------------------------------------------------------------
\* Saving

\* slip: the pictures of one configuration overlap those of the next
Count_One(conf) == 1
\* how many pictures a configuration takes
Count(conf) == IF "graphics" \in DOMAIN conf THEN Len(conf.graphics)
               ELSE IF "pixmaps" \in DOMAIN conf THEN Len(conf.pixmaps) ELSE 1
\* ConfigurationSaveMap.to_id over the configurations in the order of their use:
\* the number of each one's first picture
Ids(confs) ==
  LET step(st, c) == IF c = None \/ c \in DOMAIN st.ids THEN st
                     ELSE [ids |-> st.ids @@ (c :> st.next), next |-> st.next + Count(c)]
  IN FoldLeft(step, [ids |-> <<>>, next |-> 1], confs).ids
to_id(ids, conf) == IF conf = None THEN 0 ELSE ids[conf]
\* create_pixmap_list: the pictures in the order of their numbers
Pixmaps(conf) == IF "graphics" \in DOMAIN conf THEN conf.graphics
                 ELSE IF "pixmaps" \in DOMAIN conf THEN conf.pixmaps ELSE <<conf.pictures>>
create_pixmap_list(ids) ==
  LET firsts == Range(ids)
      order == SelectSeq([n \in 1..Max(firsts \union {0}) |-> n], LAMBDA n : n \in firsts)
  IN FlattenSeq([i \in 1..Len(order) |-> Pixmaps(CHOOSE c \in DOMAIN ids : ids[c] = order[i])])
Named(ids, names) == Restrict(names, DOMAIN names \cap DOMAIN ids)

Frames(w) == IF w.alternate THEN Len(w.graphics) \div 2 ELSE Len(w.graphics)
\* the frame an endless animation begins with is drawn by chance; it is not kept
get_anim(w) == IF Frames(w) \in 2..16 THEN Frames(w) - 1 ELSE 0
adjust_flags_prim(flags, w) ==
  (flags \ PrimFlags) \union If("DOUBLE_SIDE", w.alternate) \union If("PRIM_ANIM", w.repeat_anim)
    \union If("PRIM_FORV", w.forward_dir) \union If("PRIM_GAB", w.ping_pong)
adjust_flags_sec(flags, w) ==
  (flags \ SecFlags) \union If("SPEC", ~w.allow_offset) \union If("SEC_ANIM", w.repeat_anim)
    \union If("SEC_FORV", w.forward_dir) \union If("SEC_GAB", w.ping_pong)
get_flags(f) == IF f = None THEN 0 ELSE IF f.mode = ANIMATED THEN 8 + ((Len(f.pixmaps) - 1) % 8) ELSE f.mode

\* on every other side the primary wall begins with the second half of its pictures
SecondHalf(s, odd) == s.primary.alternate /\ odd

SavedSide(s, sector, p, walls, arcs) ==
  LET prim == s.primary # None /\ s.flags # {}      \* a side without flags keeps neither
      sec == s.secondary # None
      flags == IF prim THEN adjust_flags_prim(s.flags, s.primary) ELSE s.flags
      flags2 == IF sec THEN adjust_flags_sec(flags, s.secondary) ELSE flags
      open == If("TRANSPARENT", sector.exit[DirOf(p)] # 0)
      half == IF prim /\ SecondHalf(s, Odd(sector.place, p)) THEN Frames(s.primary) ELSE 0
  IN [action |-> s.action, target_sector |-> s.target_sector, target_side |-> s.target_side,
      front |-> sec /\ s.secondary.secondary_front,
      flags |-> SymDiff(flags2 \union open, {"NOT_AUTOMAP"}),
      prim |-> Byte(to_id(walls, s.primary) + half), sec |-> Byte(to_id(walls, s.secondary)),
      arc |-> to_id(arcs, s.arc) % 32, behind |-> s.behind,
      position |-> IF s.primary = None THEN 0 ELSE s.primary.position,
      prim_anim |-> IF prim THEN get_anim(s.primary) ELSE 0,
      sec_anim |-> IF sec THEN get_anim(s.secondary) ELSE 0,
      lclip |-> IF prim THEN s.primary.lclip ELSE 0,
      offset |-> IF sec THEN [i \in 1..2 |-> Byte(s.secondary.offset[i] \div 2)] ELSE <<125, 80>>]

SavedSector(s, floors, ceils) ==
  [action |-> s.action, exit |-> s.exit, target_sector |-> s.target_sector, type |-> s.type,
   target_side |-> s.target_side, floor |-> Byte(to_id(floors, s.floor)),
   ceil |-> Byte(to_id(ceils, s.ceil)), floor_flags |-> get_flags(s.floor) % 16,
   ceil_flags |-> get_flags(s.ceil) % 16, place |-> s.place,
   flags |-> (s.flags \ {"DarkFog"}) \union If("DarkFog", s.floor # None /\ s.floor.fog_to_black)]

saveToArrayBuffer(map, names) ==
  LET sides == Sides(map)
      walls == Ids(FlattenSeq([p \in 1..Len(sides) |-> <<sides[p].primary, sides[p].secondary>>]))
      arcs == Ids([p \in 1..Len(sides) |-> sides[p].arc])
      floors == Ids([i \in 1..Len(map) |-> map[i].floor])
      ceils == Ids([i \in 1..Len(map) |-> map[i].ceil])
      niche(p) == [place |-> p, look |-> sides[p].niche.look,
                   items |-> Padded(array(int16, 9), [i \in 1..Len(sides[p].niche.items) |->
                                                        sides[p].niche.items[i] + 1])]
  IN [sides |-> [p \in 1..Len(sides) |-> SavedSide(sides[p], SectorOf(map, p), p, walls, arcs)],
      sectors |-> [i \in 1..Len(map) |-> SavedSector(map[i], floors, ceils)],
      mobs |-> [i \in {i \in 1..Len(map) : map[i].enemy # None} |-> EnemyOnSector_to(map[i].enemy)],
      niches |-> {niche(p) : p \in {p \in 1..Len(sides) : sides[p].niche # None}},
      walls |-> create_pixmap_list(walls), arcs |-> create_pixmap_list(arcs),
      floors |-> create_pixmap_list(floors), ceils |-> create_pixmap_list(ceils),
      actions |-> serializeActions([p \in 1..Len(sides) |-> sides[p].actions]),
      items |-> serializeItems([p \in 1..Len(sides) |-> sides[p].items]),
      userpal |-> Named(walls, names) @@ Named(arcs, names) @@ Named(floors, names)
                 @@ Named(ceils, names)]

-----------------------------------------------------------------------------
\* Loading

\* parseMap has moved an alternating wall back to its first half
FirstPicture(r, odd) ==
  IF "DOUBLE_SIDE" \in r.flags /\ odd THEN r.prim - (r.prim_anim + 1) ELSE r.prim
WallFrom(r, odd, sec, table) ==
  LET id == IF sec THEN r.sec ELSE FirstPicture(r, odd)
      has(p, s) == (IF sec THEN s ELSE p) \in r.flags
      alternate == ~sec /\ "DOUBLE_SIDE" \in r.flags
      frames == (IF sec THEN r.sec_anim ELSE r.prim_anim) + 1
  IN IF id = 0 THEN None
     ELSE [graphics |-> SubSeq(table, id, id + (IF alternate THEN 2 ELSE 1) * frames - 1),
           position |-> IF sec THEN 0 ELSE r.position, alternate |-> alternate,
           forward_dir |-> has("PRIM_FORV", "SEC_FORV"), repeat_anim |-> has("PRIM_ANIM", "SEC_ANIM"),
           ping_pong |-> has("PRIM_GAB", "SEC_GAB"), allow_offset |-> sec /\ "SPEC" \notin r.flags,
           secondary_front |-> sec /\ r.front,
           offset |-> IF sec THEN [i \in 1..2 |-> 2 * r.offset[i]] ELSE <<250, 160>>, lclip |-> r.lclip]

\* the whole byte is taken for the number of the arc
Oblouk(r) == r.arc + 32 * r.position + (IF r.behind THEN 128 ELSE 0)
ArcFrom(r, table) ==
  IF Oblouk(r) = 0 THEN None
  ELSE IF Oblouk(r) \in DOMAIN table THEN [pictures |-> table[Oblouk(r)]] ELSE ArcConfiguration("", "")

FloorCeilFrom(s, is_ceil, table) ==
  LET id == IF is_ceil THEN s.ceil ELSE s.floor
      f == IF is_ceil THEN s.ceil_flags ELSE s.floor_flags
      animation == f >= 8
      button == ~is_ceil /\ s.type = "Button"
      frames == (IF animation THEN 1 + (f % 8) ELSE AnimCounts[1 + (f % 8)]) * (IF button THEN 2 ELSE 1)
  IN IF id = 0 THEN None
     ELSE [pixmaps |-> SubSeq(table, id, Min({Len(table), id + frames - 1})),
           mode |-> IF animation THEN ANIMATED ELSE f % 8, button |-> button,
           fog_to_black |-> ~is_ceil /\ "DarkFog" \in s.flags, is_ceil |-> is_ceil]

\* parseMap: the last niche of a side, its unused places closed up, and the enemy of a sector
NicheAt(file, p) ==
  LET niches == {n \in file.niches : n.place = p}
      niche == CHOOSE n \in niches : TRUE
      kept == SelectSeq(niche.items, LAMBDA x : x # 0)
  IN IF niches = {} THEN None
     ELSE [look |-> niche.look, items |-> [i \in 1..Len(kept) |-> kept[i] - 1]]
EnemyAt(file, i) == IF i \in DOMAIN file.mobs THEN EnemyOnSector_from(file.mobs[i]) ELSE None
SideFrom(file, p, places) ==
  LET r == file.sides[p]
      odd == Odd(file.sectors[(p - 1) \div 4 + 1].place, p)
  IN [primary |-> WallFrom(r, odd, FALSE, file.walls), secondary |-> WallFrom(r, odd, TRUE, file.walls),
      arc |-> ArcFrom(r, file.arcs), flags |-> SymDiff(r.flags, {"NOT_AUTOMAP"}), action |-> r.action,
      target_side |-> r.target_side % 4, target_sector |-> r.target_sector,
      niche |-> NicheAt(file, p),
      actions |-> parseActions(file.actions, places)[p], behind |-> r.behind,
      items |-> parseItems(file.items, places)[p]]

MapFile_from(file) ==
  LET places == Len(file.sides)
      sector(i) ==
        LET s == file.sectors[i]
        IN [floor |-> FloorCeilFrom(s, FALSE, file.floors), ceil |-> FloorCeilFrom(s, TRUE, file.ceils),
            type |-> s.type, action |-> s.action, target_side |-> s.target_side,
            target_sector |-> s.target_sector, exit |-> s.exit,
            side |-> [d \in Directions |-> SideFrom(file, 4 * (i - 1) + d + 1, places)],
            place |-> s.place, flags |-> s.flags,
            enemy |-> EnemyAt(file, i)]
  IN [i \in 1..Len(file.sectors) |-> sector(i)]
\* the palettes of the loaded map: its configurations, with the names they were given
PaletteOf(map) ==
  (UNION {{s.primary, s.secondary, s.arc} : s \in ToSet(Sides(map))}
   \union UNION {{s.floor, s.ceil} : s \in ToSet(map)}) \ {None}
import_names(map, file) == Restrict(file.userpal, DOMAIN file.userpal \cap PaletteOf(map))
=============================================================================
