------------------------------- MODULE Editors -------------------------------
(***************************************************************************)
(* A tab with one of the editors open, and what is promised of them all:   *)
(* a list, the dialogs, the script of a wall, the translation, or "formats" *)
(* for the algorithms that keep no state.                                  *)
(***************************************************************************)
EXTENDS ListEditors, TLC

CONSTANTS Opened,                            \* the views a behaviour may be of
          MaxDialogEdits, Variables, ActionEvents, MaxActions, MaxScriptEdits, MaxChanges,
          Look, Body, MaxLen, Highest

VARIABLES dialogs, current_index, edit_focus, confirm, tasks, project,
          script, focused_item, opened_events, walls,
          source, target, csv, applied,
          before, after, other, case

Stories == INSTANCE DialogsEditor
Walls == INSTANCE MultiactionEditor
Texts == INSTANCE Translation
Pure == INSTANCE Formats

dialog_vars == <<dialogs, current_index, edit_focus, confirm, tasks, project>>
script_vars == <<script, focused_item, opened_events, walls>>
translation_vars == <<source, target, csv, applied>>
formats_vars == <<before, after, other, case>>
vars == <<list_vars, dialog_vars, script_vars, translation_vars, formats_vars>>

-----------------------------------------------------------------------------
\* Lists.  A list with a hole, in the file of each editor.

Sample(x, y) == set(set(EmptyHive, 0, x), 2, y)
Item(id, s) == [NewItem EXCEPT !.id = id, !.jmeno = s, !.sound_file = s, !.looks[1] = s]
Enemy(id, s) == [NewEnemy EXCEPT !.id = id, !.name = s, !.mobs_name = s, !.sound_files = <<s, "x">>]
Enemies2 == EnemyFile(Sample(Enemy(1, "a"), Enemy(2, "b")))
Shop(id, s) == [NewShop EXCEPT !.id = id, !.keeper = s, !.product_list = <<[NewProduct EXCEPT !.item = 1]>>]
Human(id, s) == [NewHuman EXCEPT !.id = id, !.jmeno = s, !.rings = <<1>>, !.inv = <<id>>,
                                   !.wearing = With(@, 2, 3)]
Spell(id, s) == [EmptySpell(id) EXCEPT !.spellname = s, !.script = <<s>>]
Fact(id) == [NewFact EXCEPT !.id = id, !.key = "a", !.description = "b"]
FirstFiles(v) ==
  {NoFile} \union
  CASE v = "items" -> {File(itemsToArrayBuffers(Sample(Item(1, "a"), Item(2, "c"))))}
    [] v = "enemies" -> {File(Enemies2)} \union
         {File([Enemies2 EXCEPT !.old = TRUE] @@ [soundfile |-> there]) : there \in BOOLEAN}
    [] v = "shops" -> {File(ShopFile(Sample(Shop(1, "a"), Shop(2, "c"))))}
    [] v = "characters" -> {File(PeopleFile(set(EmptyHive, 1, Human(1, "a")), [e \in 1..ELEMENTS |-> {e}]))}
    [] v = "spells" -> {File(spellsToArrayBuffer(Sample(Spell(1, "a"), Spell(2, "c"))))}
    [] v \in {"facts", "facteditor"} -> {File(FactsFile(Sample(Fact(1), Fact(2))))}
    [] OTHER -> {}
Open(v, file) ==
  CASE v = "items" -> ItemsOf(file)
    [] v = "enemies" -> EnemiesOf(file, EmptyHive, <<>>).list
    [] v = "shops" -> ShopsOf(file)
    [] v = "characters" -> PeopleOf(file).characters
    [] v = "spells" -> SpellsOf(file)
    [] v \in {"facts", "facteditor"} -> FactsOf(file)
\* the facts are there later; the bounds of shops, spells and facts are wider
ListInit ==
  /\ disk \in FirstFiles(view)
  /\ aside = [Aside EXCEPT !.made = IF view \in {"items", "enemies", "characters"} THEN 3 ELSE 2,
                           !.got = IF view \in {"facts", "facteditor"} THEN disk ELSE NoFile,
                           !.sounds = IF view = "enemies" THEN EnemiesOf(disk, EmptyHive, <<>>).sounds ELSE <<>>,
                           !.runes = IF view = "characters" /\ disk.there
                                     THEN humanDataFromArrayBuffer(disk.data).runes ELSE @]
  /\ loading = (view \in {"facts", "facteditor"})
  /\ list = IF loading \/ view \notin ListViews THEN EmptyHive ELSE Open(view, disk)
  /\ selected = None /\ asked = NoQuestion

-----------------------------------------------------------------------------
\* Dialogs: a node talked to again, one reached on two ways of different lengths, and
\* two nodes that lead to one with a way back.

To(t) == [Stories!new_branch EXCEPT !.target = t]
Node(branches) == [Stories!new_node EXCEPT !.branches = branches]
StorySamples ==
  {[stories |-> 1 :> [nodes |-> 0 :> Node(<<To(1), To(None)>>) @@ 1 :> [Node(<<To(0)>>) EXCEPT !.extra = 1],
                      conditions |-> {}], identifiers |-> <<>>],
   [stories |-> 2 :> [nodes |-> 0 :> Node(<<To(1), [To(2) EXCEPT !.condition = "c"]>>) @@ 1 :> Node(<<To(2)>>) @@ 2 :> Node(<<>>),
                      conditions |-> {"c"}], identifiers |-> [x |-> 0]],
   [stories |-> 1 :> [nodes |-> 0 :> Node(<<To(2), To(1)>>) @@ 1 :> Node(<<To(3)>>) @@ 2 :> Node(<<To(3), To(2)>>)
                                @@ 3 :> Node(<<To(0)>>), conditions |-> {}], identifiers |-> <<>>]}
DialogsInit ==
  /\ dialogs \in IF view = "dialogs" THEN StorySamples ELSE {[stories |-> <<>>, identifiers |-> <<>>]}
  /\ current_index = None /\ edit_focus = Stories!NoFocus /\ confirm = Stories!NoQuestion
  /\ tasks = [loading |-> FALSE, saving |-> FALSE, ignore_modified |-> FALSE, edits |-> 0, others |-> 0, unended |-> {}]
  /\ project = [json |-> dialogs, dat |-> dialogs.identifiers, news |-> <<>>]

-----------------------------------------------------------------------------
\* Walls: jumps on and back over actions of other events, and a wall with one text.

Act(id, kind, flags, parm) == [id |-> id, kind |-> kind, flags |-> flags, parm |-> parm]
SomeScript == <<Act(1, "jump", {"a"}, 2), Act(2, "other", {"a", "b"}, 0), Act(3, "text", {"a"}, 1), Act(4, "jump", {"b"}, -2)>>
ScriptInit ==
  /\ walls = [sides |-> IF view = "script" THEN <<SomeScript, <<Act(5, "text", {"b"}, 2)>> >> ELSE << <<>> >>,
              table |-> 1 :> "x" @@ 2 :> "y", shown |-> 1, made |-> 5, edits |-> 0]
  /\ script = [actionList |-> walls.sides[1], stringTable |-> walls.table]
  /\ focused_item = Walls!NoAction /\ opened_events = {}

-----------------------------------------------------------------------------
\* Translation: a project with a text of each kind; old enemies, dialogs that do not
\* compile.

N(n) == <<ToString(n)>>
ATranslation(old) ==
  LET dialog == N(1) :> <<"d">> @@ <<"1", ":", "0">> :> <<>> @@ <<"1", ":", "0", ":", "0">> :> <<"e", "\"", "\n", "f">>
                @@ IF old THEN <<"broken">> :> <<>> ELSE <<>>
  IN "ITEMS.DAT" :> (<<"0", ":", "n">> :> <<"a">> @@ <<"0", ":", "d">> :> <<"b", ",", "\n", "c">>)
     @@ "ENEMY.DAT" :> (N(0) :> <<"g">> @@ IF old THEN <<"old">> :> <<>> ELSE <<>>)
     @@ "DIALOGY.JSON" :> dialog @@ "DIALOGY.DAT" :> dialog @@ "SHOPS.DAT" :> (N(1) :> <<"h">>)
     @@ "KOUZLA.DAT" :> (N(0) :> <<"i">> @@ N(1) :> <<"j">> @@ N(105) :> <<"k">>)
     @@ "POSTAVY.DAT" :> (N(0) :> <<"l">>) @@ "M.MAP" :> (<<"M.MAP">> :> <<"o">>)
     @@ "M.TXT" :> Texts!serialize_stringtable(0 :> <<"RANDOM", " ", "MP3">> @@ 2 :> <<"p", "\n", "q">> @@ 3 :> <<"FIRST", " ", "MP3">>)
     @@ "POPISY.TXT" :> Texts!serialize_stringtable(1 :> <<"\"", "r", "\"">>)
TranslationInit ==
  /\ source \in IF view = "translation" THEN {ATranslation(old) : old \in BOOLEAN} ELSE {<<>>}
  /\ target = [files |-> <<>>, manifest |-> <<>>] /\ csv = [table |-> <<>>, written |-> {}]
  /\ applied = [ended |-> FALSE, changes |-> 0, ignore |-> {}, written |-> {}, ever |-> {}]

-----------------------------------------------------------------------------
Init == /\ view \in Opened
        /\ ListInit /\ DialogsInit /\ ScriptInit /\ TranslationInit /\ Pure!Init

\* only the variables of the open editor change
Next ==
  \/ /\ ItemsNext \/ EnemiesNext \/ ShopsNext \/ CharactersNext \/ SpellsNext \/ FactsNext \/ FactEditorNext
     /\ UNCHANGED dialog_vars /\ UNCHANGED script_vars /\ UNCHANGED translation_vars /\ UNCHANGED formats_vars
  \/ /\ view = "dialogs" /\ Stories!DialogsNext
     /\ UNCHANGED list_vars /\ UNCHANGED script_vars /\ UNCHANGED translation_vars /\ UNCHANGED formats_vars
  \/ /\ view = "script" /\ Walls!ScriptNext
     /\ UNCHANGED list_vars /\ UNCHANGED dialog_vars /\ UNCHANGED translation_vars /\ UNCHANGED formats_vars
  \/ /\ view = "translation" /\ Texts!TranslationNext
     /\ UNCHANGED list_vars /\ UNCHANGED dialog_vars /\ UNCHANGED script_vars /\ UNCHANGED formats_vars
  \/ /\ view = "formats" /\ Pure!Next
     /\ UNCHANGED list_vars /\ UNCHANGED dialog_vars /\ UNCHANGED script_vars /\ UNCHANGED translation_vars
Spec == Init /\ [][Next]_vars

-----------------------------------------------------------------------------
\* The file that a save would write now.
ToFile == CASE view = "items" -> File(itemsToArrayBuffers(list))
            [] view = "enemies" -> File(EnemyFile(list))
            [] view = "shops" -> File(ShopFile(list))
            [] view = "characters" -> File(PeopleFile(list, aside.runes))
            [] view = "spells" -> File(spellsToArrayBuffer(list))
            [] OTHER -> File(FactsFile(list))
\* Entries no file keeps: a name says that the entry is there.
Nameless(x) == CASE view = "items" -> x.jmeno = ""
                 [] view = "enemies" -> x.name = ""
                 [] view = "characters" -> x.jmeno = "#"
                 [] OTHER -> FALSE
\* Characters whose rings have a gap are read back as others, and no characters as one
\* without a name.
Gap(x) == view = "characters" /\ None \in ToSet(x.rings)
Kept(x) == CASE view = "enemies" -> <<x.id, x.name, x.mobs_name, x.sound_files, x.inv>>
             [] view = "shops" -> <<x.id, x.keeper,
                  SelectSeq(x.product_list, LAMBDA p : TYPE \notin p.trade_flags),
                  SelectSeq(x.product_list, LAMBDA p : TYPE \in p.trade_flags)>>
             [] OTHER -> x

\* What is saved is what is opened again: every entry at its number with its pictures,
\* sounds, products, rings and scripts, and no other entry, whatever was deleted, added
\* and edited before.
ReopensAsSaved == view \in ListViews =>
  LET again == Open(view, ToFile)
      those == {n \in Numbers(list) : ~Nameless(get(list, n))}
  IN (\A n \in Numbers(list) : ~Gap(get(list, n))) /\ (view = "characters" => those # {}) =>
       /\ Numbers(again) = those
       /\ \A n \in those : Kept(get(again, n)) = Kept(get(list, n))

\* The entry behind a number in the file: maps, dialogs and other lists have the
\* number only.  (An old ENEMY.DAT is not opened without its SOUND.DAT, and the next
\* save is of the list without it.)
FileIds(file) ==
  LET named(data, of(_)) == {<<n - 1, data[n].id>> : n \in {n \in DOMAIN data : ~of(data[n])}}
  IN IF ~file.there \/ (view = "enemies" /\ file.data.old /\ ~file.data.soundfile) THEN {}
     ELSE CASE view = "items" -> named(file.data.ITLIST, Nameless)
            [] view = "enemies" -> named(file.data.enemies, Nameless)
            [] view = "shops" -> {<<x.shop_id, x.id>> : x \in ToSet(file.data)}
            [] view = "characters" ->
                 LET names == SelectSeq(file.data, LAMBDA x : "id" \in DOMAIN x)
                 IN IF Undefined \in ToSet(file.data) THEN {} ELSE named(names, LAMBDA x : x.s = "#")
            [] view = "spells" -> named(file.data, LAMBDA x : ~x.scripted)
            [] OTHER -> {<<x.at, x.fact.id>> : x \in ToSet(file.data)}
\* An entry of the file is at the same number in the next one, unless the user deleted
\* it or took its name.  (A fact is, when the list has it: facts that are saved before
\* the file was read are lost, and so is the file.)
NumbersKept ==
  [][\A x \in IF view \in ListViews THEN FileIds(disk) ELSE {} :
       x[2] \notin aside'.gone
         /\ (\A n \in Numbers(list) : get(list, n).id = x[2] => ~Nameless(get(list, n)))
         /\ (\A n \in Numbers(list) : ~Gap(get(list, n)))
         /\ (view \in {"facts", "facteditor"} => is_valid(list, x[1]) /\ get(list, x[1]).id = x[2])
       => x \in FileIds(disk')]_vars

\* The entry deleted by the answer to a question is the one the question named, though
\* the list may be another by then.  (The editors of shops and facts take the number,
\* and delete what is there.)
DeletesConfirmed ==
  [][view \notin {"shops", "facts"} /\ asked # NoQuestion /\ asked' = NoQuestion =>
       \A n \in Numbers(list) \ Numbers(list') : get(list, n).id = asked.id]_vars

-----------------------------------------------------------------------------
\* A branch leads to a node of its story, or nowhere: after every edit and deletion, and
\* whatever another tab saved in the meantime, the compiler and the diagram find every
\* target, and every condition.  (Not a node that was deleted after it was chosen in the
\* list of nodes: its number is a text there, and no branch to it is found.)
TargetsExist ==
  \A s \in DOMAIN Stories!stories :
    /\ \A b \in Stories!BranchesOf(Stories!stories[s]) :
         b.target \in {None} \union DOMAIN Stories!Nodes(s) \/ <<s, b.target>> \in tasks.unended
    /\ Stories!ConditionsIn(Stories!stories[s])

\* The diagram has every node that can be talked to from the first one, once, and no two
\* nodes of a level over each other.  (When a node that is not standard has kept branches,
\* which the compiler refuses, levels are counted along them too, and nodes are left out.)
Reached(nodes) ==
  LET from(n) == IF nodes[n].standard THEN {b.target : b \in ToSet(nodes[n].branches)} \ {None} ELSE {}
      within[k \in Nat] == IF k = 0 THEN {0} ELSE within[k - 1] \union UNION {from(n) : n \in within[k - 1]}
  IN within[Cardinality(DOMAIN nodes)]
Shows(d, nodes) ==
  LET apart(x, y) == x.offset + x.height <= y.offset \/ y.offset + y.height <= x.offset
  IN /\ {x.node : x \in ToSet(d)} = Reached(nodes)
     /\ \A i, k \in DOMAIN d : i # k => d[i].node # d[k].node /\ (d[i].level = d[k].level => apart(d[i], d[k]))
DiagramShows ==
  LET nodes == Stories!Nodes(current_index)
  IN Stories!cur_story /\ Stories!Drawable(Stories!stories[current_index])
     /\ (\A n \in DOMAIN nodes : nodes[n].standard \/ nodes[n].branches = <<>>) =>
       Shows(Stories!Diagram, nodes)

\* Variables of the dialogs have slots of their own.
VariablesApart == \A v, w \in DOMAIN project.dat : project.dat[v] = project.dat[w] => v = w

\* A jump leads to the action it led to before, wherever adding, erasing and moving put
\* the two: unless the user erased its target, or gave the jump another.
JumpsFollow ==
  [][<<walls'.edits, walls'.made>> # <<walls.edits, walls.made>> =>
       LET old == Walls!List
           new == script'.actionList
           ids(l) == [i \in DOMAIN l |-> l[i].id]
       IN ids(old) = ids(new)
          \/ \A i \in DOMAIN old :
               {old[i].id, Walls!Target(old, i)} \subseteq Walls!Ids(new) =>
                 Walls!Target(new, Walls!PlaceOf(new, old[i].id)) = Walls!Target(old, i)]_vars

\* After an update that ended, the copy has the texts that are in the project, each as
\* it was last translated or as it is: a text the table has, with its quotes, commas
\* and lines; and the dialogs the game reads say what the editor's do.  (Files that are
\* protected stay as they are, and old enemies have no translation.)
TextsArrive ==
  applied.ended => \A file \in DOMAIN Texts!FileRef :
    LET now == Texts!Texts(file, target.files[file])
        original == Texts!Texts(file, source[file])
        written(of, node) == {w[2] : w \in {w \in of : w[1] = Texts!Key(file, node)}}
    IN file \notin applied.ignore /\ ~(file = "ENEMY.DAT" /\ <<"old">> \in DOMAIN now) =>
         /\ DOMAIN now = DOMAIN original
         /\ \A node \in DOMAIN now :
              IF written(applied.written, node) # {} THEN now[node] \in written(applied.written, node)
              ELSE now[node] \in {original[node]} \union written(applied.ever, node)
         /\ file = "DIALOGY.JSON" /\ <<"broken">> \notin DOMAIN now => target.files["DIALOGY.DAT"] = now

-----------------------------------------------------------------------------
\* See Formats.  Every record, every script of spells, every map, picture and animation
\* comes back from its file as it was written, numbers and texts cut to their width; and
\* a change of an enemy's colours changes no pixel's colour.
RecordsKept ==
  /\ Pure!RecordsKept /\ Pure!ScriptKept /\ Pure!MapKept
  /\ Pure!PictureKept /\ Pure!ColoursKept /\ Pure!FilmKept
\* A compiled paragraph does what the node of the dialog says, in every state of the game.
DialogKept == Pure!DialogKept
\* The difference of two lists of actions, applied to the first, gives the second; and
\* applied to another list, it takes nothing that is unlike what it deletes.
OthersStay == Pure!PanelArrives /\ Pure!OthersStay
=============================================================================
