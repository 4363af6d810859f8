------------------------------ MODULE Formats ------------------------------
(***************************************************************************)
(* The editor's algorithms without state: what a file keeps of what was    *)
(* written to it, what compiled code does, what a difference changes.  A   *)
(* behaviour picks a part of a case, takes the case, and ends.  The lists  *)
(* of ArrayDiff grow instead.                                              *)
(***************************************************************************)
EXTENDS Naturals, Integers, Sequences, SequencesExt, FiniteSets, FiniteSetsExt, TLC

CONSTANTS Look, Body, MaxLen, Highest
VARIABLES before, after, other, case
lists == <<before, after, other>>

Lists == INSTANCE ArrayDiff
Maps == INSTANCE MapFile
Scripts == INSTANCE SpellScript
Dialogs == INSTANCE DialogMachine
Pictures == INSTANCE Pictures

Start == [kind |-> "none"]
Init == Lists!Init /\ case = Start
Take(c) == case' = c /\ UNCHANGED lists
Pick(part, of) == Init /\ Take([kind |-> "part", part |-> part, of |-> of])
Picked(part) == case.kind = "part" /\ case.part = part

-----------------------------------------------------------------------------
\* Records

Classes ==
  <<Maps!TSECTOR, Maps!TSIDE, Maps!TNICHE, Maps!TMAP_LAYOUT, Maps!MAPGLOBAL, Maps!EnemyPlace, Maps!ItemDef,
    Maps!EnemySchema, Maps!EnemySchemaNew, Maps!EnemyHdrSchema, Maps!TKouzlo, Maps!TProduct, Maps!TShop,
    Maps!NewHeader, Maps!NewItem, Maps!Config, Maps!section_header>> \o Maps!action_to_schema
PickClass == \E c \in 1..Len(Classes) : Pick("class", c)
FieldEnds(s) ==        \* where the fields of a record end, in bytes
  FoldLeft(LAMBDA ends, f : Append(ends, (IF ends = <<>> THEN 0 ELSE Last(ends)) + Len(Maps!Write(f[2], Maps!Blank(f[2])))),
           <<>>, s.fields)
NewRecord == /\ Picked("class")
             /\ \E v \in Maps!Probes(Classes[case.of].schema) : Take([kind |-> "record", class |-> case.of, value |-> v])
CutRecord == /\ Picked("class")
             /\ \E e \in ToSet(FieldEnds(Classes[case.of].schema)) : \E cut \in {e - 1, e} :
                  /\ cut \in 0..Maps!Size(Classes[case.of]) - 1
                  /\ Take([kind |-> "cut", class |-> case.of, cut |-> cut])

\* A record read back is what was written, each number modulo its width and each
\* text up to its width and first nul, in every one of the game's files; a record
\* cut short keeps its whole fields and is new in the others.
Ones(s) == [k \in DOMAIN Maps!Blank(s) |->
              LET f == CHOOSE f \in ToSet(s.fields) : f[1] = k
                  kind == f[2].t
              IN IF kind = "int" THEN 1 ELSE IF kind = "char" THEN <<65>> ELSE Maps!Blank(f[2])]
RecordsKept ==
  /\ case.kind = "record" =>
       LET s == Classes[case.class].schema
           bytes == Maps!Write(s, case.value)
       IN /\ Len(bytes) = Maps!Size(Classes[case.class])
          /\ Maps!Parse(s, bytes, 1) = Maps!Got(Maps!Fitted(s, case.value), Len(bytes) + 1)
  /\ case.kind = "cut" =>
       LET c == Classes[case.class]
           bytes == Maps!Write(c.schema, Ones(c.schema))
           read == Maps!Deserialize(c, SubSeq(bytes, 1, case.cut))
           end == FieldEnds(c.schema)
       IN \A i \in {i \in 1..Len(c.schema.fields) : c.schema.fields[i][2].t # "object"} :
            LET k == c.schema.fields[i][1]
            IN read[k] = IF end[i] <= case.cut THEN Ones(c.schema)[k] ELSE c.new[k]

-----------------------------------------------------------------------------
\* Spells

Some ==     \* of each kind: one argument, several, shared ones, a text, specials
  {"setElement", "alterStat", "alterStatPct", "playSound", "summon", "incineration1", "incineration2"}
PickCommand == \E c \in {d[1] : d \in Scripts!Commands} : Pick("command", c)
NewScript ==
  /\ Picked("command")
  /\ \E x \in Scripts!CommandsOf(case.of) :
       \/ Take([kind |-> "spells", scripts |-> << <<x>>, <<>> >>])
       \/ case.of \in Some /\ \E d \in Some : \E y \in Scripts!CommandsOf(d), z \in Scripts!CommandsOf("playSound") :
            Take([kind |-> "spells", scripts |-> << <<x, y>>, <<z>> >>])
\* Every script comes back command by command from the instructions it was turned
\* into, however commands that share instructions follow one another, and behind
\* the scripts of the spells before it.
ScriptKept ==
  case.kind = "spells" =>
    LET spells == [i \in 1..Len(case.scripts) |-> <<Scripts!TKouzlo.new, case.scripts[i]>>]
        read == Scripts!spellsFromArrayBuffer(Scripts!spellsToArrayBuffer(spells))
    IN /\ Len(read) = Len(spells)
       /\ \A i \in 1..Len(spells) : read[i][2] = case.scripts[i]

-----------------------------------------------------------------------------
\* Maps

Wall(graphics) == [Maps!WallConfiguration EXCEPT !.graphics = graphics]
Plain == Wall(<<"a">>)
Primaries == {Maps!None, Plain, [Wall(<<"b", "c">>) EXCEPT !.repeat_anim = TRUE, !.lclip = 3],
              [Wall(<<"d", "e">>) EXCEPT !.alternate = TRUE, !.forward_dir = TRUE],
              [Wall(<<"f", "g", "h", "i">>) EXCEPT !.alternate = TRUE, !.ping_pong = TRUE],
              [Wall(<<"a">>) EXCEPT !.position = 2]}
Secondaries == {Maps!None, Plain, [Wall(<<"s", "t">>) EXCEPT !.ping_pong = TRUE, !.allow_offset = TRUE,
                                     !.secondary_front = TRUE, !.offset = <<20, 40>>]}
Arcs == {Maps!None, Maps!ArcConfiguration("l", "r"), Maps!ArcConfiguration("m", "m")}
SomeSides ==
  {[Maps!MapSide EXCEPT !.primary = p, !.secondary = s, !.arc = a, !.behind = b, !.flags = f] :
     p \in Primaries, s \in Secondaries, a \in Arcs, b \in BOOLEAN,
     f \in {{}, {"PRIM_VIS", "NOT_AUTOMAP"}}}
OtherSides ==
  {[Maps!MapSide EXCEPT !.primary = p, !.flags = {"PRIM_VIS", "SEC_ANIM"}, !.items = <<0, 4>>,
      !.actions = <<Maps!create_action_instance(2, 1), Maps!create_action_instance(14, 3)>>,
      !.niche = [look |-> 1, items |-> <<0, 7>>], !.target_side = 3, !.target_sector = 1] : p \in Primaries}
Floor(pixmaps, mode) == [Maps!FloorCeilConfiguration EXCEPT !.pixmaps = pixmaps, !.mode = mode]
SomeFloors == {Maps!None, Floor(<<"p">>, 0), Floor(<<"p", "q">>, 1), Floor(<<"q", "p", "p">>, Maps!ANIMATED),
               [Floor(<<"r">>, 0) EXCEPT !.fog_to_black = TRUE]}
SomeSectors ==
  {[Maps!MapSector EXCEPT !.floor = f, !.ceil = c, !.type = t, !.enemy = e, !.exit[2] = 1] :
     f \in SomeFloors, c \in {Maps!None} \union {[x EXCEPT !.is_ceil = TRUE] : x \in {Floor(<<"p", "q">>, 2)}},
     t \in {"Normal", "Water"}, e \in {Maps!None, [direction |-> 3, enemy_index |-> 5]}}
TheMap(sector, north, east, x) ==
  <<Maps!MapSector, [sector EXCEPT !.side[0] = north, !.side[1] = east, !.place = <<x, 0, 1>>]>>
PickSide == \E e \in OtherSides : Pick("side", e)
NewMap ==
  /\ Picked("side")
  /\ \/ \E n \in SomeSides, x \in {0, 1} : Take([kind |-> "map", map |-> TheMap(Maps!MapSector, n, case.of, x)])
     \/ \E s \in SomeSectors : Take([kind |-> "map", map |-> TheMap(s, Maps!MapSide, Maps!MapSide, 0)])

\* what the editor shows of a side, given the one that was saved; its flags but those
\* that repeat the walls
PrimaryLook(s, saved) ==
  IF s.primary = Maps!None \/ saved.flags = {} THEN Maps!None
  ELSE <<s.primary.graphics, s.primary.position, s.primary.alternate, s.primary.forward_dir,
         s.primary.repeat_anim, s.primary.ping_pong, s.primary.lclip>>
SecondaryLook(s) ==
  IF s.secondary = Maps!None THEN Maps!None
  ELSE <<s.secondary.graphics, s.secondary.forward_dir, s.secondary.repeat_anim, s.secondary.ping_pong,
         s.secondary.allow_offset, s.secondary.secondary_front, s.secondary.offset>>
ArcLook(s) == IF s.behind \/ (s.primary # Maps!None /\ s.primary.position # 0) THEN Maps!None ELSE s.arc
SideLook(s, saved) ==
  <<PrimaryLook(s, saved), SecondaryLook(s), ArcLook(s),
    s.flags \ (Maps!PrimFlags \union Maps!SecFlags \union {"TRANSPARENT"}),
    s.action, s.target_side, s.target_sector, s.niche, s.actions, s.behind, s.items>>
SectorLook(s, saved) ==
  <<s.floor, s.ceil, s.type, s.exit, s.place, s.enemy, s.flags \ {"DarkFog"},
    [d \in Maps!Directions |-> SideLook(s.side[d], saved.side[d])]>>

\* A map loaded from the file it was saved to looks the same: every side finds its
\* pictures in the common table, in all frames and both looks of an alternating
\* wall, and its arc, niche, items, actions; so do floors, ceilings and enemies.
\* (Not kept: the animation of a side without flags, the arc of a side with a
\* shifted wall or a place behind.)  A named wall keeps its name.
MapKept ==
  case.kind = "map" =>
    LET names == Plain :> "name"
        file == Maps!saveToArrayBuffer(case.map, names)
        read == Maps!MapFile_from(file)
    IN /\ [i \in 1..Len(read) |-> SectorLook(read[i], case.map[i])]
            = [i \in 1..Len(case.map) |-> SectorLook(case.map[i], case.map[i])]
       /\ Plain \in Maps!PaletteOf(read) /\ Plain \in Maps!PaletteOf(case.map) =>
            Maps!import_names(read, file) = names

-----------------------------------------------------------------------------
\* Pictures: two lines of the same width, runs as long as a byte can count and longer

Shades == {0, 191, 192, 255}
SomeLines(w) ==
  {[x \in 1..w |-> IF x <= at THEN v ELSE u] : v \in Shades, u \in Shades, at \in {w \div 2, w - 1}}
    \union {[x \in 1..w |-> IF x % 2 = 1 THEN v ELSE 100 + x] : v \in Shades}
Selections(op) ==
  CASE op = "delete" -> {<<7>>, <<0, 7>>, <<3, 130, 255>>}
    [] op = "transp" -> {<<1>>, <<5, 9>>, <<126, 127>>, [i \in 1..127 |-> i]}
    [] op = "solid" -> {<<128>>, <<200, 255>>, <<254, 255>>, [i \in 1..127 |-> 128 + i]}
PickPicture == \/ \E w \in {1, 2, 3, 63, 64, 65, 127} : Pick("width", w)
               \/ \E op \in {"delete", "transp", "solid"} : Pick("colours", op)
               \/ \E x \in {"new", "old"} : Pick("film", x)
NewPicture ==
  \/ /\ Picked("width")
     /\ \E a \in SomeLines(case.of), v \in {0, 255} :
          Take([kind |-> "picture", width |-> case.of, pixels |-> a \o [x \in 1..case.of |-> v]])
  \/ /\ Picked("colours")
     /\ \E s \in Selections(case.of) : Take([kind |-> "colours", op |-> case.of, colors |-> s])

\* A picture comes back from its file pixel by pixel.
PictureKept ==
  case.kind = "picture" =>
    LET pcx == Pictures!PCX(case.width, 2, case.pixels, <<"palette">>)
    IN Pictures!fromArrayBuffer(Pictures!toArrayBuffer(pcx)) = pcx

\* When colours of an enemy are made solid or half transparent, every pixel of its
\* pictures keeps its colour, in the picture's palette and in each of the enemy's other
\* ones, and every selected one gets the opacity; a deleted one is not seen.  The
\* others keep their opacity but for the last ones, which make room.
Remap(op, colors) ==
  CASE op = "delete" -> Pictures!rebuild_op_delete_color(colors)
    [] op = "transp" -> Pictures!rebuild_op_make_transp(colors)
    [] op = "solid" -> Pictures!rebuild_op_make_solid(colors)
Becomes(op) == CASE op = "delete" -> "none" [] op = "transp" -> "half" [] op = "solid" -> "solid"
MakesRoom(op, n) == CASE op = "delete" -> {} [] op = "transp" -> 256 - n..255 [] op = "solid" -> 128 - n..127
Palette(which) == [i \in Pictures!Index |-> <<which, i>>]
ColoursKept ==
  case.kind = "colours" =>
    LET pcx == Pictures!PCX(256, 1, [i \in 1..256 |-> i - 1], Palette("own"))
        palettes == <<Palette("first"), Palette("second")>>
        chosen == ToSet(case.colors)
        out == Pictures!rebuild_run(<<pcx>>, palettes, Remap(case.op, case.colors))
    IN \A p \in 1..256 :
         LET old == pcx.pixels[p]
             new == out[1][1].pixels[p]
         IN /\ old \in chosen => Pictures!Opacity(new) = Becomes(case.op)
            /\ old \notin chosen \union MakesRoom(case.op, Len(case.colors)) =>
                 Pictures!Opacity(new) = Pictures!Opacity(old)
            /\ new # 0 => /\ out[1][1].palette[new] = pcx.palette[old]
                          /\ \A k \in 1..2 : out[2][k][new] = palettes[k][old]

\* Animations
SomeFrames == {<<>>, <<Pictures!Frame(<<65>>, -1000, 0)>>,
               <<Pictures!Frame(<<66, 46>>, 32767, -1), Pictures!Frame(<<65>>, 0, 255),
                 Pictures!Frame(<<66, 46>>, -32768, 256)>>}
SomeTexts == {<<97>>, <<48, 49>>, <<90, 97, 48>>}
NewFilm ==
  /\ Picked("film")
  /\ \/ /\ case.of = "new"
        /\ \E rows \in {{0}, {2, 9}, 0..9, {}}, a, b \in SomeFrames, big \in BOOLEAN, hit \in {0, 5, 255} :
             Take([kind |-> "film", film |-> Pictures!SeqFile([r \in rows |-> IF r % 2 = 0 THEN a ELSE b], big, hit)])
     \/ /\ case.of = "old"
        /\ \E a, b \in SomeTexts :
             Take([kind |-> "film", film |-> Pictures!seqFromText(<<a, b, a, b, <<>>, a>>, <<71, 79>>)])
\* The animations of an enemy come back from their file, frame by frame, those read
\* from a file of the old form too; rows that were never made are not made.
FilmKept ==
  case.kind = "film" => Pictures!seqFromArrayBuffer(Pictures!seqToArrayBuffer(case.film)) = case.film

-----------------------------------------------------------------------------
\* Dialogs: two stories whose numbers are among those the nodes get, the node of the
\* case first in the first one.

Num(n) == [k |-> "num", n |-> n]
Call(fn, args) == [k |-> "call", fn |-> fn, args |-> args]
Expr(op, args) == [k |-> op, args |-> args]
Id(s) == [k |-> "id", s |-> s]
HaveItem == Call("have_item", <<Num(5)>>)
Leaves == {Num(2), Id("x"), Id("is_present"), Id("first_visited"), Id("k"), HaveItem,
           Call("visited", <<Num(1)>>), Call("condition", <<[k |-> "str", s |-> "c2"]>>)}
Built(l, r, ops) == {Expr(op, <<a, b>>) : op \in ops, a \in l, b \in r} \union {Expr("!", <<a>>) : a \in l}
Small == {Id("x"), Id("is_present"), HaveItem}
Flat == Built(Leaves, Leaves, {"&&", "||", "<", "+"})
Expressions == Flat \union Built(Built(Small, Small, {"&&", "||"}), Small, {"&&", "||"})

Branch(type, condition, target) ==
  [type |-> type, condition |-> condition, invert |-> FALSE, speaker |-> 0, text |-> "ab", target |-> target,
   icon |-> FALSE]
Branches ==
  {[b EXCEPT !.invert = i, !.speaker = s, !.icon = (s = 3), !.target = IF i = (s = 3) THEN -1 ELSE 1] :
     i \in BOOLEAN, s \in {0, 3},
     b \in {Branch(y, c, -1) :
              y \in {"choice", "jump_to_node", "npctalk", "addstory", "addtobook", "animatedesc", "selchar"},
              c \in {"", "c1", "first visited", "is present", "can speak", "is dead", "whole group",
                    "target not visited yet", "no choices"}}}
Seconds == {Branch("choice", "no choices", 1), Branch("jump_to_node", "is present", 2),
            Branch("npctalk", "is dead", -1)}
Node(action, branches) ==
  [action |-> action, branches |-> branches, node_type |-> "standard", picture |-> "", description |-> "d"]
Special == [shop_id |-> 2, map_name |-> "m", sector |-> 4, side |-> 1, message |-> "g"]
Speaker(type, param) == [type |-> type, attribute |-> 4, param |-> param]
Dialog(node, c1) ==
  LET other_nodes == [i \in 1..2 |-> Node(Dialogs!NoCode, <<>>)]
      story == [nodes |-> (0 :> node) @@ other_nodes, picture |-> "p", description |-> "",
                speakers |-> <<Speaker("unset", 0), Speaker("attribute", 0), Speaker("random", 0),
                               Speaker("xicht", 7), Speaker("character", 1)>>,
                conditions |-> [c1 |-> c1, c2 |-> Expr("||", <<HaveItem, Id("is_present")>>)]]
  IN 1 :> story @@ 5 :> [story EXCEPT !.nodes = 0 :> Node(Dialogs!NoCode, <<>>)]
Music == Call("play_music", <<[k |-> "str", s |-> "m"]>>)
Actions == {Expr(";", <<Expr(":=", <<Id("y"), e>>), Call("send_action", <<Num(1), Id("y")>>)>>) : e \in Flat}
           \union {Expr(";", <<Id("x"), Music, Num(1)>>), Expr(":=", <<Id("y"), Num(3)>>), Dialogs!NoCode}
PickDialog == \/ Pick("node", "action") \/ Pick("node", "condition") \/ Pick("node", "special")
              \/ \E b \in Seconds : Pick("branch", b)
NewDialog ==
  LET take(node, c1, compat) ==
        Take([kind |-> "dialog", dialog |-> Dialog(node, c1), compat |-> compat])
      picked(which) == Picked("node") /\ case.of = which
  IN \/ picked("action") /\ \E a \in Actions : take(Node(a, <<>>), HaveItem, TRUE)
     \/ /\ picked("condition")
        /\ \E c \in Expressions : take(Node(Dialogs!NoCode, <<Branch("choice", "c1", 1)>>), c, FALSE)
     \/ Picked("branch") /\ \E a \in Branches : take(Node(Dialogs!NoCode, <<a, case.of>>), HaveItem, FALSE)
     \/ /\ picked("special")
        /\ \E t \in {"shopping", "battle", "loadmap", "message", "openbook"} :
             take(Special @@ [Node(Music, <<>>) EXCEPT !.node_type = t], HaveItem, TRUE)

Slots == Dialogs!reg_id([x |-> 0], {"x", "y"})     \* x is known from before
Consts == [k |-> 2]
Visit(p, x, first) ==
  [present |-> p, x |-> x, alive |-> IF first THEN {0} ELSE {3, 5}, visited |-> IF first THEN {} ELSE {6, 4},
   items |-> {5} \ p, money |-> 2, chosen |-> ~first]
Visits ==      \* states of the game a visit of the dialog can begin in: any two choices together
  {Visit(p, x, (x = 0) = (p = {0})) : p \in {{}, {0}, {3, 5}}, x \in {0, 2}}
Longer(text) == text \o "++"
Translated(out) ==
  [i \in 1..Len(out) |->
     [out[i] EXCEPT !.args = [a \in 1..Len(@) |-> IF "text" \in DOMAIN @[a]
                                                   THEN Dialogs!T(Longer(@[a].text)) ELSE @[a]]]]
OnStack(node, ctx) ==
  \E i \in 1..Len(node.branches) : /\ node.branches[i].condition = "c1"
                                   /\ Dialogs!compile_ast(ctx.conditions["c1"], ctx)[2]
\* one visit: what the code does, what its translation does, what the node says
VisitKept(run, translation, means, dropped) ==
  /\ dropped \/ /\ run.out = <<Dialogs!Event(128, <<Dialogs!T("d")>>)>> \o means.out
                /\ run.vars = means.vars /\ run.stack = <<>>
  /\ translation = <<>> \/ translation[1].out = Translated(run.out)
Lengthened(code) ==
  LET said == {x \in ToSet(code) : "text" \in DOMAIN x}
  IN Dialogs!translated(code, [s \in {x.text : x \in said} |-> Longer(s)])
CodeKept(node, ctx, code, longer, story) ==
  \A env \in Visits :
    LET vars == [s \in {0, 1} |-> IF s = Slots["x"] THEN env.x ELSE 0]
        readable == \A b \in ToSet(node.branches) : b.type # "addtobook"
    IN /\ Last(Dialogs!Run(story, vars, env).out) = Dialogs!Event(139, <<Dialogs!V(ctx.self)>>)
       /\ VisitKept(Dialogs!Run(code, vars, env), IF readable THEN <<Dialogs!Run(longer, vars, env)>> ELSE <<>>,
                    Dialogs!Meaning(node, vars, ctx, env), OnStack(node, ctx))
ParagraphsKept(dlg, map, paragraphs) ==
  LET ids == [n \in 0..2 |-> map[<<1, n>>]]
      ctx == [ids |-> ids, self |-> ids[0], consts |-> Consts, slots |-> Slots,
              conditions |-> dlg[1].conditions, compat |-> case.compat]
      code == paragraphs[ids[0]]
  IN /\ \A k, l \in DOMAIN map : map[k] = map[l] => k = l
     /\ Dialogs!load_from_buffer(Dialogs!generate_dat(paragraphs)) = paragraphs
     /\ CodeKept(dlg[1].nodes[0], ctx, code, Lengthened(code), paragraphs[map[<<1, -1>>]])
\* What a paragraph does is what the node says: in every state of the game the same
\* texts, choices and calls in the same order, the same variables, the same way out,
\* and nothing left on the stack; a condition whose value is on the stack apart,
\* which the code drops.  Paragraphs have numbers of their own, come back from the
\* file whole, and do the same once their texts are translated to longer ones.
DialogKept ==
  case.kind = "dialog" =>
    LET dlg == case.dialog
    IN Dialogs!Compiles(dlg[1].nodes[0]) =>
         ParagraphsKept(dlg, Dialogs!create_node_map(dlg, case.compat),
                        Dialogs!compile(dlg, case.compat, Consts, Slots))

-----------------------------------------------------------------------------
\* Lists of actions

Lengthen == case = Start /\ Lists!Next /\ UNCHANGED case
\* Applied to the list it was taken from, the difference gives the panel's list:
\* the side in focus gets exactly what the panel shows.
PanelArrives == Lists!PanelArrives
\* On another side, no action goes that is unlike every deleted one, and every
\* inserted action comes, also when the list is shorter than the edited one.
OthersStay == Lists!OthersStay

Next == \/ PickClass \/ PickCommand \/ PickSide \/ PickDialog \/ PickPicture
        \/ NewRecord \/ CutRecord \/ NewScript \/ NewMap \/ NewDialog \/ NewPicture \/ NewFilm
        \/ Lengthen
Spec == Init /\ [][Next]_<<lists, case>>
=============================================================================
