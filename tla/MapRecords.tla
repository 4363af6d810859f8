----------------------------- MODULE MapRecords -----------------------------
(***************************************************************************)
(* core/map_structs.ts: the records of a map file and of the actions on    *)
(* its sides, with the fields of a new record where they are not zero.     *)
(***************************************************************************)
EXTENDS GameRecords

TSECTOR == Class(<< <<"floor", uint8>>, <<"ceil", uint8>>, <<"flags", uint8>>, <<"type", uint8>>,
                    <<"action", uint8>>, <<"target_side", uint8>>, <<"exit", array(uint16, 4)>>,
                    <<"target_sector", uint16>> >>, [flags |-> 520093696])
TSIDE == Class(<< <<"prim", uint8>>, <<"sec", uint8>>, <<"oblouk", uint8>>, <<"target_side", uint8>>,
                  <<"target_sector", uint16>>, <<"xsec", uint8>>, <<"ysec", uint8>>,
                  <<"flags", uint32>>, <<"prim_anim", uint8>>, <<"sec_anim", uint8>>,
                  <<"lclip", uint8>>, <<"action", uint8>> >>, [xsec |-> 125, ysec |-> 80])
TNICHE == Plain(<< <<"sector", int16>>, <<"dir", int16>>, <<"xpos", int16>>, <<"ypos", int16>>,
                   <<"xs", int16>>, <<"ys", int16>>, <<"items", array(int16, 9)>>,
                   <<"reserved", int16>> >>)
TMAP_LAYOUT == Plain(<< <<"x", int16>>, <<"y", int16>>, <<"layer", int16>>, <<"flags", int16>> >>)
MAPGLOBAL == Class(<< <<"back_fnames", array(char(13), 4)>>, <<"fade_r", int32>>, <<"fade_g", int32>>,
                      <<"fade_b", int32>>, <<"start_sector", int32>>, <<"start_direction", int32>>,
                      <<"mapname", char(30)>>, <<"map_effector", uint8>>, <<"local_monsters", uint8>>,
                      <<"map_autofadefc", uint8>>, <<"align", char(3)>>, <<"fade_mult", float32>>,
                      <<"fade_end", float32>> >>,
                   [start_sector |-> 1, fade_mult |-> 1, fade_end |-> 1])
EnemyPlace == Plain(<< <<"sector", uint16>>, <<"enemy_dir", uint16>> >>)

\* an enemy on a sector: its direction in the two highest bits
EnemyOnSector_to(e) == e.direction * 2^14 + e.enemy_index
EnemyOnSector_from(dir) == [direction |-> dir \div 2^14, enemy_index |-> dir % 2^14]

-----------------------------------------------------------------------------
\* Actions: every one begins with its type, cancel and once in one byte, and flags.

TMA_GEN == << <<"header", bitmap(uint8, [action |-> <<0, 6>>, cancel |-> <<6, 1>>, once |-> <<7, 1>>])>>,
              <<"flags", uint16>> >>
Action(fields, init) == Class(TMA_GEN \o fields, init)
TMA_SOUND == Action(<< <<"snd_flags", bitmap(uint8, [bit16 |-> <<0, 1>>, mute_open |-> <<1, 1>>,
                                        mute_close |-> <<2, 1>>, random_balance |-> <<3, 1>>])>>,
                       <<"volume", uint8>>, <<"soundid", uint8>>, <<"freq", uint16>>,
                       <<"start_loop", int32>>, <<"end_loop", int32>>, <<"offset", int32>>,
                       <<"filename", char(12)>> >>, [volume |-> 100, freq |-> 22050])
TMA_TEXT == Action(<< <<"pflags", uint8>>, <<"textindex", int32>> >>, [textindex |-> 1])
TMA_SEND_ACTION == Action(<< <<"change_bits", bitmap(uint8, [automap |-> <<0, 1>>,
                                  block_player |-> <<1, 1>>, block_monster |-> <<2, 1>>,
                                  block_item |-> <<3, 1>>, block_sound |-> <<4, 1>>])>>,
                             <<"sector", uint16>>, <<"side", uint16>>, <<"s_action", uint16>>,
                             <<"delay", uint8>> >>, <<>>)
TMA_FIREBALL == Action(<< <<"xpos", int16>>, <<"ypos", int16>>, <<"zpos", int16>>, <<"speed", int16>>,
                          <<"item", int16>> >>, [ypos |-> 250, zpos |-> 160, speed |-> 16])
TMA_LOADLEV == Action(<< <<"start_pos", int16>>, <<"dir", uint8>>, <<"name", char(13)>> >>, <<>>)
TMA_DROPITM == Action(<< <<"item", int16>> >>, <<>>)
TMA_CODELOCK == Action(<< <<"znak", char(1)>>, <<"string", char(8)>>, <<"codenum", uint8>> >>, <<>>)
TMA_CANCELACTION == Action(<< <<"pflags", uint8>>, <<"sector", int16>>, <<"dir", int16>> >>, <<>>)
TMA_SWAPS == Action(<< <<"pflags", bitmap(uint8, [north |-> <<0, 1>>, west |-> <<1, 1>>,
                            south |-> <<2, 1>>, east |-> <<3, 1>>, config |-> <<5, 1>>,
                            floor_ceil |-> <<6, 1>>, links |-> <<7, 1>>])>>,
                       <<"sector1", int16>>, <<"sector2", int16>> >>, <<>>)
TMA_WOUND == Action(<< <<"pflags", uint8>>, <<"minor", int16>>, <<"major", int16>> >>, <<>>)
TMA_LOCK == Action(<< <<"key_id", int16>>, <<"thieflevel", int16>> >>, [thieflevel |-> -1])
TMA_TWOP == Action(<< <<"parm1", int16>>, <<"parm2", int16>> >>, <<>>)
TMA_CHANGELIGHT == Action(<< <<"align", int8>>, <<"r", uint16>>, <<"g", uint16>>, <<"b", uint16>> >>, <<>>)
TMA_IFJMP == [TMA_TWOP EXCEPT !.new.parm2 = 1]
\* "bitmask" is no type of a schema: param is taken for an array without elements
\* and never reaches the file
TMA_TELEPORT == Action(<< <<"sector", int16>>, <<"param", array(int16, 0)>> >>, <<>>)
TMA_UNIQUE == Action(<< <<"item", ItemSchema>> >>, <<>>)
TMA_GLOBE == Action(<< <<"event", uint8>>, <<"sector", uint16>>, <<"side", uint8>>,
                       <<"cancel", uint8>>, <<"param", uint32>> >>, <<>>)
TMA_OVERLAY == Action(<< <<"blocking", uint8>>, <<"text_index", int16>>, <<"x", int16>>, <<"y", int16>>,
                         <<"max_width", int16>>, <<"align_x", int8>>, <<"align_y", int8>>,
                         <<"face", int8>>, <<"picture", int8>>, <<"display_time", int16>>,
                         <<"color15", uint16>> >>, <<>>)

\* by the number of the type, GEN 0 first
action_to_schema ==
  << Action(<<>>, <<>>), TMA_SOUND, TMA_TEXT, TMA_TEXT, TMA_SEND_ACTION, TMA_FIREBALL, Action(<<>>, <<>>),
     TMA_LOADLEV, TMA_DROPITM, TMA_TEXT, TMA_TEXT, TMA_CODELOCK, TMA_CANCELACTION, TMA_LOCK, TMA_SWAPS,
     TMA_WOUND, TMA_IFJMP, TMA_TWOP, TMA_IFJMP, TMA_TEXT, TMA_IFJMP, TMA_TWOP, TMA_TELEPORT, TMA_LOADLEV,
     TMA_DROPITM, TMA_IFJMP, TMA_TWOP, TMA_UNIQUE, TMA_TWOP, TMA_UNIQUE, TMA_IFJMP, TMA_LOADLEV, TMA_IFJMP,
     Action(<<>>, <<>>), TMA_TWOP, TMA_TWOP, TMA_TEXT, TMA_GLOBE, TMA_CHANGELIGHT, TMA_TEXT, TMA_TEXT,
     TMA_LOADLEV, TMA_OVERLAY, TMA_SWAPS, Action(<<>>, <<>>) >>
ActionTypes == 0..Len(action_to_schema) - 1
ActionClass(type) == action_to_schema[type + 1]
create_action_instance(type, event) ==
  [ActionClass(type).new EXCEPT !.header.action = type, !.flags = event]
WriteAction(a) == Write(ActionClass(a.header.action).schema, a)

\* serializeActions, parseActions: the lists of the places that have one, each behind
\* its place and closed by a size of 0, all closed by a place of 0.  A word of four
\* bytes is one element here, and an action the bytes its size announces.
serializeActions(lists) ==
  FlattenSeq([p \in 1..Len(lists) |->
    IF lists[p] = <<>> THEN <<>>
    ELSE <<[place |-> p - 1]>> \o [i \in 1..Len(lists[p]) |-> [bytes |-> WriteAction(lists[p][i])]]
         \o <<[size |-> 0]>>]) \o <<[place |-> 0]>>
parseActions(file, places) ==
  LET known(bytes) == bytes[1] % 64 \in ActionTypes
      read(bytes) == Deserialize(ActionClass(bytes[1] % 64), bytes)
      step(st, x) ==
        CASE st.over -> st
          [] ~st.over /\ "place" \in DOMAIN x ->
               IF x.place = 0 THEN [st EXCEPT !.over = TRUE] ELSE [st EXCEPT !.at = x.place]
          [] ~st.over /\ "bytes" \in DOMAIN x ->
               IF known(x.bytes) THEN [st EXCEPT !.lists[st.at + 1] = Append(@, read(x.bytes))] ELSE st
          [] ~st.over /\ "size" \in DOMAIN x -> st
  IN FoldLeft(step, [over |-> FALSE, at |-> 0, lists |-> [p \in 1..places |-> <<>>]], file).lists

\* serializeItems, parseItems: the numbers of the items of the places that have any,
\* one higher, closed by 0
serializeItems(lists) ==
  FlattenSeq([p \in 1..Len(lists) |->
    IF lists[p] = <<>> THEN <<>>
    ELSE <<p - 1>> \o [i \in 1..Len(lists[p]) |-> lists[p][i] + 1] \o <<0>>])
parseItems(file, places) ==
  LET step(st, n) ==
        CASE st.at = 0 -> [st EXCEPT !.at = n + 1]
          [] st.at # 0 /\ n = 0 -> [st EXCEPT !.at = 0]
          [] st.at # 0 /\ n # 0 -> [st EXCEPT !.lists[st.at] = Append(@, n - 1)]
  IN FoldLeft(step, [at |-> 0, lists |-> [p \in 1..places |-> <<>>]], file).lists
=============================================================================
