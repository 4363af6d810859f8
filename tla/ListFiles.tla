----------------------------- MODULE ListFiles -----------------------------
(***************************************************************************)
(* The files of the lists: items_struct.ts, enemy_struct.ts,               *)
(* shop_structs.ts and character_structs.ts, between the records and the   *)
(* entries of a hive: string tables, holes, and what a reader drops.  The  *)
(* bytes of the records are in GameRecords; here a file is its records and *)
(* tables, or its lines.  Names of things and of files are "" or a string. *)
(***************************************************************************)
EXTENDS Hive

\* StringList1, StringList3: equal strings once, numbered from 1; 0 is the empty one
StringList(keys, empty) ==
  LET add_key(t, k) == IF k = empty \/ k \in ToSet(t) THEN t ELSE Append(t, k)
  IN FoldLeft(add_key, <<>>, keys)
\* slip: numbered from 0, like the array
IndexIn_FromZero(t, k, empty) == IF k = empty THEN 0 ELSE SelectInSeq(t, LAMBDA x : x = k) - 1
IndexIn(t, k, empty) == IF k = empty THEN 0 ELSE SelectInSeq(t, LAMBDA x : x = k)
StringAt(t, n, empty) == IF n \in DOMAIN t THEN t[n] ELSE empty

\* the records of a table as a list; those that are nameless make holes
Listed(records, nameless(_)) ==
  LET all == FoldLeft(add, EmptyHive, records)
      drop(h, i) == IF is_valid(h, i) /\ nameless(get(h, i)) THEN remove(h, i) ELSE h
  IN FoldLeft(drop, all, [i \in 1..Len(records) |-> i - 1])

-----------------------------------------------------------------------------
\* ITEMS.DAT.  An item has FLYING (16) pictures of its flight.

FLYING == 2
NewItem == [id |-> 0, jmeno |-> "", druh |-> 0, looks |-> <<"", "", "">>, sound_file |-> "",
            weapon_animation_file |-> "", v_letu_files |-> [i \in 1..FLYING |-> ""]]

itemsToArrayBuffers(items) ==
  LET present == Entries(items)
      Of(field(_)) == [i \in DOMAIN present |-> field(present[i])]
      vzhled == StringList(Of(LAMBDA x : x.looks), <<"", "", "">>)
      v_letu == StringList(FlattenSeq(Of(LAMBDA x : x.v_letu_files)), "")
      weapon_animation == StringList(Of(LAMBDA x : x.weapon_animation_file), "")
      sound == StringList(Of(LAMBDA x : x.sound_file), "")
      record(x) == [id |-> x.id, jmeno |-> x.jmeno, druh |-> x.druh,
                    vzhled |-> IndexIn(vzhled, x.looks, <<"", "", "">>),
                    v_letu |-> [i \in 1..FLYING |-> IndexIn(v_letu, x.v_letu_files[i], "")],
                    weapon_animation |-> IndexIn(weapon_animation, x.weapon_animation_file, ""),
                    sound |-> IndexIn(sound, x.sound_file, "")]
  IN [ITLIST |-> [i \in DOMAIN items.data |->
                    record(IF items.data[i] = Null THEN NewItem ELSE items.data[i])],
      ON_GROUND |-> [i \in DOMAIN vzhled |-> vzhled[i][1]], ON_MALE |-> [i \in DOMAIN vzhled |-> vzhled[i][2]],
      ON_FEMALE |-> [i \in DOMAIN vzhled |-> vzhled[i][3]],
      ON_FLY |-> v_letu, WEAPON_ANIM |-> weapon_animation, SNDLIST |-> sound]

itemsFromArrayBuffer(file) ==
  LET item(r) == [id |-> r.id, jmeno |-> r.jmeno, druh |-> r.druh,
                  looks |-> <<StringAt(file.ON_GROUND, r.vzhled, ""), StringAt(file.ON_MALE, r.vzhled, ""),
                              StringAt(file.ON_FEMALE, r.vzhled, "")>>,
                  sound_file |-> StringAt(file.SNDLIST, r.sound, ""),
                  weapon_animation_file |-> StringAt(file.WEAPON_ANIM, r.weapon_animation, ""),
                  v_letu_files |-> [i \in 1..FLYING |-> StringAt(file.ON_FLY, r.v_letu[i], "")]]
  IN Listed([i \in DOMAIN file.ITLIST |-> item(file.ITLIST[i])], LAMBDA x : x.jmeno = "")

-----------------------------------------------------------------------------
\* ENEMY.DAT and, of old, SOUND.DAT.  An enemy has MOB_SOUNDS (4) sounds.

MOB_SOUNDS == 2
\* arrays: the id of the enemy whose arrays these are, see cloneEnemy
NewEnemy == [id |-> 0, arrays |-> 0, name |-> "", mobs_name |-> "", sounds |-> [i \in 1..MOB_SOUNDS |-> 0],
             sound_files |-> [i \in 1..MOB_SOUNDS |-> ""], cislo_vzoru |-> 0, inv |-> <<>>]

enemyToArrayBufferNew(enms) == [i \in DOMAIN enms.data |-> IF enms.data[i] = Null THEN NewEnemy ELSE enms.data[i]]
enemyFromArrayBufferNew(records) == Listed(records, LAMBDA x : x.name = "")
\* enemySoundsToArrayBuffer, and back: "." for an empty name, one more empty name at the end
enemySoundsToArrayBuffer(sounds) == [i \in DOMAIN sounds |-> IF sounds[i] = "" THEN "." ELSE sounds[i]]
enemySoundsFromArrayBuffer(strings) == Append(strings, "")
\* the list and the sounds in sections of one file
enemyAndSoundToArrayBuffer(enms, sounds) ==
  [old |-> FALSE, enemies |-> enemyToArrayBufferNew(enms), sounds |-> enemySoundsToArrayBuffer(sounds)]

-----------------------------------------------------------------------------
\* SHOPS.DAT: the shops there are, each with its number

SELL == "SELL"
TYPE == "TYPE"
POPULATED == "POPULATED"
NewProduct == [item |-> 0, cena |-> 0, trade_flags |-> {}]
NewShop == [id |-> 0, keeper |-> "", shop_id |-> 0, list_size |-> 0, product_list |-> <<>>]

shopsToArrayBuffer(shops) ==
  [i \in 1..Cardinality(Numbers(shops)) |->
     LET n == CHOOSE n \in Numbers(shops) : Cardinality({m \in Numbers(shops) : m < n}) = i - 1
     IN [get(shops, n) EXCEPT !.shop_id = n]]
shopsFromArrayBuffer(file) ==
  LET put(h, x) == set(h, x.shop_id, [x EXCEPT !.product_list =
                     SelectSeq(@, LAMBDA p : POPULATED \notin p.trade_flags)])
  IN FoldLeft(put, EmptyHive, file)

-----------------------------------------------------------------------------
\* POSTAVY.DAT: lines, a number or the text behind a $; "undefined" is no number

NaN == -1000        \* getNumber gives null
Line(n) == [n |-> n, s |-> ""]
TextLine(s, id) == [n |-> NaN, s |-> s, id |-> id]
Undefined == Line(NaN)
Blank == Line(-1)   \* read as -1
OrZero(n) == IF n = NaN THEN 0 ELSE n

BATOH == 0
STATS == 2          \* 24
ELEMENTS == 2       \* 5
\* xicht and npcflags, by their codes; female, level, exp, sipy and sip_druh go the
\* same way (129, 131, 132, 136, 137)
Scalars == {130, 139}
\* wearing: place -> item; rings: a place without one is a gap, None
NewHuman == [id |-> 0, jmeno |-> "", field |-> [c \in Scalars |-> 0], inv |-> <<>>, wearing |-> <<>>,
             rings |-> <<>>, stats |-> [k \in 0..STATS - 1 |-> 0]]

InOrder(S) == SelectSeq([i \in 1..Max(S \union {0}) + 1 |-> i - 1], LAMBDA i : i \in S)
HumanLines(h) ==
  LET scalar(c) == <<Line(c), Line(h.field[c])>>
      numbers(c, s) == <<Line(c)>> \o [i \in DOMAIN s |-> IF s[i] = None THEN Undefined ELSE Line(s[i])] \o <<Line(-1)>>
      wears == InOrder(DOMAIN h.wearing \ {BATOH})
  IN <<Line(128), TextLine(h.jmeno, h.id)>> \o scalar(130)
     \o numbers(133, h.inv)
     \o (IF BATOH \in DOMAIN h.wearing THEN <<Line(134), Line(h.wearing[BATOH])>> ELSE <<>>)
     \o FlattenSeq([i \in DOMAIN wears |-> <<Line(135), Line(wears[i]), Line(h.wearing[wears[i]])>>])
     \o numbers(138, h.rings) \o scalar(139)
     \o FlattenSeq([k \in 1..STATS |-> <<Line(k - 1), Line(h.stats[k - 1])>>]) \o <<Blank>>

\* runes: the numbers of the runes known, by element
HoleLines == HumanLines([NewHuman EXCEPT !.jmeno = "#"])
humanDataToArrayBuffer(data) ==
  FlattenSeq([e \in 1..ELEMENTS |-> LET known == InOrder(data.runes[e])
                             IN <<Line(63 + e)>> \o [i \in DOMAIN known |-> Line(known[i])] \o <<Line(-1)>>])
  \o FlattenSeq([i \in DOMAIN data.characters.data |->
       IF data.characters.data[i] = Null THEN HoleLines ELSE HumanLines(data.characters.data[i])])
  \o <<Blank>>

\* humanDataFromArrayBuffer: want is what the next line is read as
Reading == [want |-> "code", code |-> 0, place |-> 0, human |-> NewHuman, humans |-> <<>>, skip_add |-> TRUE,
            runes |-> [e \in 1..ELEMENTS |-> {}]]
Code(st, n) ==
  LET next == [st EXCEPT !.code = n, !.skip_add = @ /\ n = -1]
  IN CASE n = 128 -> [next EXCEPT !.want = "text"]
       [] n \in 64..63 + ELEMENTS \union {133, 138} -> [next EXCEPT !.want = "list"]
       [] n = 135 -> [next EXCEPT !.want = "place"]
       [] n = -1 -> [next EXCEPT !.human = NewHuman, !.skip_add = TRUE,
                       !.humans = IF next.skip_add THEN @ ELSE Append(@, st.human)]
       [] OTHER -> [next EXCEPT !.want = "number", !.code = OrZero(n)]
ListItem(st, n) ==
  IF n \in {NaN, -1} THEN [st EXCEPT !.want = "code"]
  ELSE CASE st.code = 133 -> [st EXCEPT !.human.inv = Append(@, n)]
         [] st.code = 138 -> [st EXCEPT !.human.rings = Append(@, n)]
         [] OTHER -> [st EXCEPT !.runes[st.code - 63] = @ \union {n}]
With(f, k, v) == [x \in DOMAIN f \union {k} |-> IF x = k THEN v ELSE f[x]]
NumberRead(st, n) ==
  LET human == CASE st.code \in Scalars -> [st.human EXCEPT !.field[st.code] = n]
                 [] st.code = 134 -> [st.human EXCEPT !.wearing = With(@, BATOH, n)]
                 [] OTHER -> [st.human EXCEPT !.stats = With(@, st.code, n)]
  IN [st EXCEPT !.want = "code", !.human = human]
NextLine(st, line) ==
  LET n == line.n
  IN CASE st.want = "code" -> Code(st, n)
       [] st.want = "text" -> [st EXCEPT !.want = "code", !.human.jmeno = line.s, !.human.id = line.id]
       [] st.want = "list" -> ListItem(st, n)
       [] st.want = "place" -> [st EXCEPT !.want = "worn", !.place = OrZero(n)]
       [] st.want = "worn" -> [st EXCEPT !.want = "code", !.human.wearing = With(@, st.place, OrZero(n))]
       [] st.want = "number" -> NumberRead(st, OrZero(n))
humanDataFromArrayBuffer(lines) ==
  LET after[i \in 0..Len(lines)] == IF i = 0 THEN Reading ELSE NextLine(after[i - 1], lines[i])
      read == after[Len(lines)]
      put(h, i) == IF read.humans[i].jmeno = "#" THEN h ELSE set(h, i - 1, read.humans[i])
  IN [runes |-> read.runes, characters |-> FoldLeft(put, EmptyHive, [i \in DOMAIN read.humans |-> i])]

-----------------------------------------------------------------------------
\* KOUZLA.DAT, whose bytes are in SpellScript: a spell without script makes a hole,
\* and nothing is read when the first spell has none

NewSpell == [id |-> 0, spellname |-> "", scripted |-> FALSE, script |-> <<>>, accnum |-> 0]
spellsToArrayBuffer(spells) == [i \in DOMAIN spells.data |-> IF spells.data[i] = Null THEN NewSpell ELSE spells.data[i]]
spellsFromArrayBuffer(records) ==
  IF records = <<>> \/ ~records[1].scripted THEN EmptyHive ELSE Listed(records, LAMBDA x : ~x.scripted)
=============================================================================
