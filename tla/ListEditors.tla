----------------------------- MODULE ListEditors -----------------------------
(***************************************************************************)
(* The editors of items, enemies, shops, characters, spells and facts      *)
(* (views/*Editor.vue, FactsDB.vue, components/FactEditor.vue): a list,    *)
(* the entry its panel shows, the file, a read of it under way and a       *)
(* question asked.  One editor is open; view says which.  The user works   *)
(* on the list while a revert waits for its answer, and not while a        *)
(* question is open.                                                       *)
(***************************************************************************)
EXTENDS ListFiles

CONSTANTS MaxMade,      \* ids, those of the first file included
          MaxEdits      \* edits of a field

VARIABLES
  view,       \* one of ListViews
  list,       \* the hive: item_list, enemies, shop_list, postavy, spell_list
  selected,   \* selected_item and the like; None
  disk,       \* the file in the project
  loading,    \* getDDLFile is under way
  asked,      \* messageBoxConfirm: the number and the entry it named
  aside       \* the other refs of the editor, and the bounds' counters

list_vars == <<view, list, selected, disk, loading, asked, aside>>

NoFile == [there |-> FALSE]
File(data) == [there |-> TRUE, data |-> data]
NoQuestion == [number |-> None]
ListViews == {"items", "enemies", "shops", "characters", "spells", "facts", "facteditor"}
Free == asked = NoQuestion

\* got: what the first read of the facts answers; ghosts: made, edits; gone: the entries that were deleted or lost their names
Aside == [got |-> NoFile, made |-> 2, edits |-> 0, gone |-> {}, sounds |-> <<>>, runes |-> [e \in 1..ELEMENTS |-> {}],
          xichts |-> FALSE, change_appearence_index |-> None]
Next_id == aside.made + 1
Made(a) == [a EXCEPT !.made = @ + 1]
Edited(x) ==         \* v-model of a field of the entry that is shown
  /\ aside.edits < MaxEdits /\ is_valid(list, selected)
  /\ list' = [list EXCEPT !.data[selected + 1] = x]
  /\ aside' = [aside EXCEPT !.edits = @ + 1]
  /\ UNCHANGED <<view, selected, disk, loading, asked>>
current == get(list, selected)

\* a click on an entry of the list
Click(shown(_)) ==
  /\ Free
  /\ \E n \in Numbers(list) : shown(get(list, n)) /\ selected' = n
  /\ UNCHANGED <<view, list, disk, loading, asked, aside>>
\* the new entry is selected
NewEntry(x) ==
  /\ Free /\ aside.made < MaxMade
  /\ list' = add(list, x) /\ selected' = NewNumber(list) /\ aside' = Made(aside)
  /\ UNCHANGED <<view, disk, loading, asked>>
Removed(n) ==
  /\ list' = remove(list, n)
  /\ aside' = [aside EXCEPT !.gone = @ \union {get(list, i).id : i \in {n} \cap Numbers(list)}]
Ask(n) ==
  /\ Free /\ is_valid(list, n)
  /\ asked' = [number |-> n, id |-> get(list, n).id, same |-> TRUE]
  /\ UNCHANGED <<view, list, selected, disk, loading, aside>>
AnswerNo == ~Free /\ asked' = NoQuestion /\ UNCHANGED <<view, list, selected, disk, loading, aside>>
Revert(selection) ==
  /\ Free /\ ~loading /\ loading' = TRUE /\ selected' = selection
  /\ UNCHANGED <<view, list, disk, asked, aside>>
Arrives(h, selection, a) ==
  /\ loading /\ loading' = FALSE /\ list' = h /\ selected' = selection
  /\ aside' = [a EXCEPT !.gone = {}]
  /\ asked' = IF Free THEN asked ELSE [asked EXCEPT !.same = FALSE]
  /\ UNCHANGED <<view, disk>>
Put(data) == /\ Free /\ disk' = File(data)
             /\ UNCHANGED <<view, selected, loading, asked, aside>>

-----------------------------------------------------------------------------
\* ItemsEditor.vue

Items_Click == Click(LAMBDA x : x.jmeno # "")     \* filteredAndSortedItems
Items_add ==        \* item 0 is never cloned
  NewEntry([(IF selected > 0 THEN current ELSE NewItem) EXCEPT !.id = Next_id, !.jmeno = "New item"])
Items_delete == /\ Free /\ selected # None /\ Removed(selected) /\ selected' = None
                /\ UNCHANGED <<view, disk, loading, asked>>
Items_edit ==
  /\ Free /\ selected # None
  /\ \/ \E s \in {"", "b"} : Edited([current EXCEPT !.jmeno = s])
     \/ \E d \in {0, 1} : Edited([current EXCEPT !.druh = d])
     \/ \E k \in 1..3, s \in {"", "p"} : Edited([current EXCEPT !.looks[k] = s])
     \/ \E k \in 1..FLYING, s \in {"", "p"} : Edited([current EXCEPT !.v_letu_files[k] = s])
     \/ \E s \in {"", "s", "t"} : Edited([current EXCEPT !.sound_file = s])
     \/ \E s \in {"", "w"} : Edited([current EXCEPT !.weapon_animation_file = s])
ItemsOf(file) == IF file.there THEN itemsFromArrayBuffer(file.data) ELSE EmptyHive
Items_arrive == Arrives(ItemsOf(disk), None, aside)
Items_save == Put(itemsToArrayBuffers(list)) /\ UNCHANGED list
ItemsNext == view = "items" /\ (Items_Click \/ Items_add \/ Items_delete \/ Items_edit
                                \/ Revert(selected) \/ Items_arrive \/ Items_save)

-----------------------------------------------------------------------------
\* EnemiesEditor.vue

Enemies_Click == Click(LAMBDA x : x.mobs_name # "")
createEnemy == NewEntry([NewEnemy EXCEPT !.id = Next_id, !.arrays = Next_id, !.name = "new", !.mobs_name = "g"])
\* Object.assign: the clone has the arrays of the enemy
cloneEnemy == selected # None /\ NewEntry([current EXCEPT !.id = Next_id])
Enemies_ask == selected # None /\ Ask(selected)
Enemies_yes == /\ ~Free /\ asked' = NoQuestion      \* the selection of now, not of the question
               /\ IF selected = None THEN UNCHANGED <<list, selected, aside>>
                  ELSE Removed(selected) /\ selected' = None
               /\ UNCHANGED <<view, disk, loading>>
SetSound(h, owner, k, s) ==
  Each(h, LAMBDA x, n : IF x.arrays = owner THEN [x EXCEPT !.sound_files[k] = s] ELSE x)
Enemies_sound(k, s) ==
  /\ aside.edits < MaxEdits
  /\ list' = SetSound(list, current.arrays, k, s)
  /\ aside' = [aside EXCEPT !.edits = @ + 1]
  /\ UNCHANGED <<view, selected, disk, loading, asked>>
Enemies_edit ==
  /\ Free /\ selected # None
  /\ \/ \E s \in {"", "b"} : Edited([current EXCEPT !.name = s])
     \/ \E k \in 1..MOB_SOUNDS, s \in {"", "s", "t"} : Enemies_sound(k, s)
     \/ \E v \in {<<>>, <<2>>} : Edited([current EXCEPT !.inv = [i \in DOMAIN v |-> v[i] + 1]])

\* load_files, its last part: the names of the sounds, in arrays of their own
SoundsIn(h, sounds) ==
  Each(h, LAMBDA x, n : [x EXCEPT !.arrays = x.id,
                                  !.sound_files = [k \in 1..MOB_SOUNDS |-> StringAt(sounds, x.sounds[k], "")]])
\* the list of an old file is taken with SOUND.DAT only; without files the old list stays
EnemiesOf(file, h, known) ==
  LET whole == file.there /\ (file.data.old => file.data.soundfile)
      sounds == IF whole THEN enemySoundsFromArrayBuffer(file.data.sounds) ELSE known
  IN IF ~file.there THEN [list |-> h, sounds |-> known]
     ELSE [list |-> SoundsIn(IF whole THEN enemyFromArrayBufferNew(file.data.enemies) ELSE h, sounds),
           sounds |-> sounds]
Enemies_arrive == LET r == EnemiesOf(disk, list, aside.sounds)
                  IN Arrives(r.list, None, [aside EXCEPT !.sounds = r.sounds])

\* create_soundmap and save_all: numbers for the sounds, and each enemy its own number
create_soundmap(h) == StringList(FlattenSeq([i \in DOMAIN Entries(h) |-> Entries(h)[i].sound_files]), "")
Numbered(h) ==
  LET map == create_soundmap(h)
  IN Each(h, LAMBDA x, n : [x EXCEPT !.cislo_vzoru = n,
                              !.sounds = [k \in DOMAIN x.sound_files |-> IndexIn(map, x.sound_files[k], "")]])
EnemyFile(h) == enemyAndSoundToArrayBuffer(Numbered(h), create_soundmap(h))
Enemies_save == /\ Free /\ disk' = File(EnemyFile(list)) /\ list' = Numbered(list)
                /\ aside' = [aside EXCEPT !.sounds = create_soundmap(list)]
                /\ UNCHANGED <<view, selected, loading, asked>>
EnemiesNext == view = "enemies" /\ (Enemies_Click \/ createEnemy \/ cloneEnemy \/ Enemies_ask \/ Enemies_yes \/ AnswerNo
                                    \/ Enemies_edit \/ Revert(selected) \/ Enemies_arrive \/ Enemies_save)

-----------------------------------------------------------------------------
\* ShopsEditor.vue.  The items: a hole and two kinds.

ShopItems == [data |-> <<Null, [id |-> 1, druh |-> 1, cena |-> 5], [id |-> 2, druh |-> 0, cena |-> 7]>>, first_free |-> 0]
Shops_Click == Click(LAMBDA x : TRUE)
createKeeper == NewEntry([NewShop EXCEPT !.id = Next_id, !.shop_id = NewNumber(list)])
current_shop == is_valid(list, selected)          \* get gives nothing for a number that is not there
Shops_ask == current_shop /\ Ask(selected)
Shops_yes == /\ ~Free /\ asked' = NoQuestion /\ Removed(selected) /\ selected' = None
             /\ UNCHANGED <<view, disk, loading>>
Flip(p, flag) == [p EXCEPT !.trade_flags = (@ \ {flag}) \union ({flag} \ @)]       \* mod_flag
Without(s, i) == SubSeq(s, 1, i - 1) \o SubSeq(s, i + 1, Len(s))
Shops_edit ==
  LET products(s) == Edited([current EXCEPT !.product_list = s])
      shown == current.product_list
  IN /\ Free /\ current_shop
     /\ \/ Edited([current EXCEPT !.keeper = "k"])
        \/ \E i \in DOMAIN shown : products([shown EXCEPT ![i] = Flip(@, SELL)])
        \/ \E i \in DOMAIN shown : products(Without(shown, i))          \* delete_product
        \/ \E n \in Numbers(ShopItems) :                                \* add_product
             products(Append(shown, [NewProduct EXCEPT !.item = n, !.cena = get(ShopItems, n).cena]))
        \/ \E d \in {0, 1} : products(Append(shown, [NewProduct EXCEPT !.item = d, !.trade_flags = {TYPE}]))  \* add_kind

\* on_save: the products, the kinds, and a product for every item of each kind, whose
\* number is the one among the items of that kind
Populated(shop) ==
  LET types == SelectSeq(shop.product_list, LAMBDA p : TYPE \in p.trade_flags)
      those(t) == SelectSeq(Entries(ShopItems), LAMBDA x : x.druh = t.item)
      populate(t) == [i \in DOMAIN those(t) |-> [item |-> i - 1, cena |-> those(t)[i].cena,
                        trade_flags |-> (t.trade_flags \union {POPULATED}) \ {TYPE}]]
      plain == SelectSeq(shop.product_list, LAMBDA p : TYPE \notin p.trade_flags)
  IN [shop EXCEPT !.list_size = Len(plain),
                  !.product_list = plain \o types \o FlattenSeq([i \in DOMAIN types |-> populate(types[i])])]
ShopFile(h) ==
  shopsToArrayBuffer(Each(h, LAMBDA x, n : Populated(x)))
ShopsOf(file) == IF file.there THEN shopsFromArrayBuffer(file.data) ELSE EmptyHive
Shops_arrive == Arrives(ShopsOf(disk), selected, aside)         \* the selection stays
Shops_save == Put(ShopFile(list)) /\ UNCHANGED list
ShopsNext == view = "shops" /\ (Shops_Click \/ createKeeper \/ Shops_ask \/ Shops_yes \/ AnswerNo
                                \/ Shops_edit \/ Revert(selected) \/ Shops_arrive \/ Shops_save)

-----------------------------------------------------------------------------
\* CharacterEditor.vue, with components/ItemList.vue for the inventory

Characters_Click == Click(LAMBDA x : TRUE)
selected_char == is_valid(list, selected)
add_xicht(index) == /\ Free /\ ~aside.xichts
                    /\ aside' = [aside EXCEPT !.xichts = TRUE, !.change_appearence_index = index]
                    /\ UNCHANGED <<view, list, selected, disk, loading, asked>>
OpenPortraits == add_xicht(aside.change_appearence_index)       \* "..."
ChangeAppearence == selected_char /\ add_xicht(selected)
ClosePortraits == /\ Free /\ aside.xichts           \* the index of the change stays
                  /\ aside' = [aside EXCEPT !.xichts = FALSE]
                  /\ UNCHANGED <<view, list, selected, disk, loading, asked>>
\* add_char: the appearance of the one to change, or a new character; nothing but an
\* error when the one to change is gone
add_char ==
  /\ Free /\ aside.xichts
  /\ LET n == aside.change_appearence_index
     IN IF n = None
        THEN /\ aside.made < MaxMade
             /\ list' = add(list, [NewHuman EXCEPT !.id = Next_id, !.jmeno = "h", !.field[130] = 1])
             /\ selected' = NewNumber(list)
             /\ aside' = [Made(aside) EXCEPT !.xichts = FALSE]
        ELSE /\ is_valid(list, n) /\ aside.edits < MaxEdits
             /\ list' = [list EXCEPT !.data[n + 1].field[130] = 2]
             /\ aside' = [aside EXCEPT !.xichts = FALSE, !.change_appearence_index = None, !.edits = @ + 1]
             /\ UNCHANGED selected
  /\ UNCHANGED <<view, disk, loading, asked>>
\* delete_char: from the list of the question, which may be another by now
Characters_ask == selected_char /\ Ask(selected)
\* slip: from the list of now
Characters_yes_Now == /\ ~Free /\ asked' = NoQuestion /\ selected' = None
                      /\ Removed(asked.number) /\ UNCHANGED <<view, disk, loading>>
Characters_yes == /\ ~Free /\ asked' = NoQuestion /\ selected' = None
                  /\ IF asked.same THEN Removed(asked.number) ELSE UNCHANGED <<list, aside>>
                  /\ UNCHANGED <<view, disk, loading>>
\* arr[pos] = n, and delete arr[pos], which leaves a gap
Put_ring(rings, pos, n) ==
  IF pos <= Len(rings) THEN [rings EXCEPT ![pos] = n]
  ELSE IF n = None THEN rings ELSE rings \o [i \in 1..pos - Len(rings) - 1 |-> None] \o <<n>>
Characters_edit ==
  /\ Free /\ selected_char
  /\ \/ \E s \in {"b", "#"} : Edited([current EXCEPT !.jmeno = s])
     \/ Edited([current EXCEPT !.field[139] = 1])
     \/ \E p \in DOMAIN current.wearing :                                       \* set_item_by_name
          Edited([current EXCEPT !.wearing = [x \in DOMAIN current.wearing \ {p} |-> current.wearing[x]]])
     \/ current.wearing = <<>> /\ Edited([current EXCEPT !.wearing = With(@, BATOH, 3)])
     \/ \E ring \in {<<1, None>>, <<2, 0>>} : Edited([current EXCEPT !.rings = Put_ring(@, ring[1], ring[2])])
     \/ Edited([current EXCEPT !.inv = Append(@, 4)])                \* add_item_to_inv: item 0 is refused
     \/ current.inv # <<>> /\ Edited([current EXCEPT !.inv = Append(@, -4 - 2)])  \* put inside the one before
     \/ \E i \in DOMAIN current.inv : Edited([current EXCEPT !.inv = Without(@, i)])
PeopleOf(file) == IF file.there THEN humanDataFromArrayBuffer(file.data)
                  ELSE [characters |-> EmptyHive, runes |-> aside.runes]
Characters_arrive == Arrives(PeopleOf(disk).characters, selected, [aside EXCEPT !.runes = PeopleOf(disk).runes])
PeopleFile(h, runes) == humanDataToArrayBuffer([characters |-> h, runes |-> runes])
Characters_save == Put(PeopleFile(list, aside.runes)) /\ UNCHANGED list
CharactersNext ==
  view = "characters" /\ (Characters_Click \/ OpenPortraits \/ ChangeAppearence \/ ClosePortraits \/ add_char
                          \/ Characters_ask \/ Characters_yes \/ AnswerNo \/ Characters_edit
                          \/ Revert(None) \/ Characters_arrive \/ Characters_save)

-----------------------------------------------------------------------------
\* SpellsEditor.vue.  RUNES (105) spells are always there.

RUNES == 1
EmptySpell(id) == [NewSpell EXCEPT !.id = id, !.scripted = TRUE]
Spells_Click == Click(LAMBDA x : TRUE)
current_spell == is_valid(list, selected)
add_spell == NewEntry(EmptySpell(Next_id))
Spells_remove == /\ Free /\ \E n \in Numbers(list) : n >= RUNES /\ Removed(n)        \* no question; cur_spell_index stays
                 /\ UNCHANGED <<view, selected, disk, loading, asked>>
Moved(s, from, to) ==        \* move_stop
  LET rest == Without(s, from) IN SubSeq(rest, 1, to - 1) \o <<s[from]>> \o SubSeq(rest, to, Len(rest))
Spells_edit ==
  /\ Free /\ current_spell
  /\ \/ Edited([current EXCEPT !.spellname = "b"])
     \/ \E c \in {"c", "d"} : Edited([current EXCEPT !.script = Append(@, c)])       \* validateCommand
     \/ \E i \in DOMAIN current.script : Edited([current EXCEPT !.script = Without(@, i)])
     \/ \E i, k \in DOMAIN current.script : i # k /\ Edited([current EXCEPT !.script = Moved(@, i, k)])
     \/ \E g \in {1, 2} : Edited([current EXCEPT !.accnum = IF @ < 0 THEN -g ELSE g])          \* group_num
     \/ \E r \in BOOLEAN : LET g == IF current.accnum < 0 THEN -current.accnum ELSE current.accnum
                           IN Edited([current EXCEPT !.accnum = IF r THEN g ELSE -g])         \* replace_in_group
SpellsOf(file) ==
  LET read == IF file.there THEN spellsFromArrayBuffer(file.data) ELSE EmptyHive
      fill(h, i) == IF is_valid(h, i) THEN h ELSE set(h, i, EmptySpell(-1 - i))
  IN FoldLeft(fill, read, [i \in 1..RUNES |-> i - 1])
Spells_arrive == Arrives(SpellsOf(disk), selected, aside)
Spells_save == Put(spellsToArrayBuffer(list)) /\ UNCHANGED list
SpellsNext == view = "spells" /\ (Spells_Click \/ add_spell \/ Spells_remove \/ Spells_edit
                                  \/ Revert(None) \/ Spells_arrive \/ Spells_save)

-----------------------------------------------------------------------------
\* FactsDB.vue and FactEditor.vue, on core/factdb.ts: facts by their numbers, NPC states
\* at 0..7 and others at 16..255 (here 0 and 2..3).  The whole database is saved after
\* each change; it is read once, and the user may work before it is there.

FactNumbers(npc) == IF npc THEN {0} ELSE {2, 3}
NewFact == [id |-> 0, key |-> "", description |-> ""]
\* available(enemy), the lowest
available(h, npc) == FactNumbers(npc) \ Numbers(h)
FactsFile(h) == [i \in DOMAIN InOrder(Numbers(h)) |-> LET n == InOrder(Numbers(h))[i] IN [at |-> n, fact |-> get(h, n)]]
\* fromJSON: the first of two with the same number
FactsOf(file) ==
  LET put(h, x) == IF is_valid(h, x.at) THEN h ELSE set(h, x.at, x.fact)
  IN IF file.there THEN FoldLeft(put, EmptyHive, file.data) ELSE EmptyHive
saveFactsDatabase == disk' = File(FactsFile(list'))
addFact(npc) ==
  /\ Free /\ aside.made < MaxMade
  /\ IF available(list, npc) = {} THEN UNCHANGED <<list, disk>>                    \* "Too many facts"
     ELSE list' = set(list, Min(available(list, npc)), [NewFact EXCEPT !.id = Next_id, !.key = "k", !.description = "d"])
          /\ saveFactsDatabase
  /\ aside' = Made(aside)
  /\ UNCHANGED <<view, selected, loading, asked>>
\* editFact, saveEditedFact: what is shown is only taken when its number is not 0
Facts_Click == Click(LAMBDA x : x.key # "" /\ x.description # "")
saveEditedFact ==
  /\ Free /\ selected # None /\ selected' = None
  /\ IF selected = 0 \/ ~is_valid(list, selected) THEN UNCHANGED <<list, aside>>
     ELSE /\ aside.edits < MaxEdits /\ list' = [list EXCEPT !.data[selected + 1].key = "l"]
          /\ aside' = [aside EXCEPT !.edits = @ + 1]
  /\ IF selected = 0 THEN UNCHANGED disk ELSE saveFactsDatabase
  /\ UNCHANGED <<view, loading, asked>>
Facts_ask == \E n \in Numbers(list) : Ask(n)
Facts_yes == /\ ~Free /\ asked' = NoQuestion /\ Removed(asked.number) /\ saveFactsDatabase
             /\ UNCHANGED <<view, selected, loading>>
Facts_arrive == Arrives(IF aside.got.there THEN FactsOf(aside.got) ELSE list, selected, aside)
FactsNext == view = "facts" /\ (Facts_Click \/ addFact(TRUE) \/ addFact(FALSE) \/ saveEditedFact \/ Facts_ask \/ Facts_yes
                                \/ AnswerNo \/ Facts_arrive)
\* FactEditor: the texts of a fact are edited in the list; without a key it goes
check_after_edit(n, key) ==
  /\ Free /\ aside.edits < MaxEdits /\ is_valid(list, n)
  /\ IF key = "" THEN Removed(n)
     ELSE list' = [list EXCEPT !.data[n + 1].key = key] /\ aside' = [aside EXCEPT !.edits = @ + 1]
  /\ saveFactsDatabase
  /\ UNCHANGED <<view, selected, loading, asked>>
FactEditorNext == view = "facteditor" /\ (addFact(FALSE) \/ Facts_arrive \/ \E n \in Numbers(list), key \in {"", "l"} : check_after_edit(n, key))
=============================================================================
