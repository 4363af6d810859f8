---------------------------- MODULE GameRecords ----------------------------
(***************************************************************************)
(* The records of the game's lists: items (core/items_struct.ts), enemies  *)
(* in both formats (enemy_struct.ts), spells (spell_structs.ts), shops     *)
(* (shop_structs.ts) and the frames of an animation (seqfile.ts).          *)
(***************************************************************************)
EXTENDS RecordSchema

section_header == Plain(<< <<"block", char(8)>>, <<"type", uint32>>, <<"size", uint32>>,
                           <<"offs", uint32>> >>)

ItemFields ==
  << <<"jmeno", char(32)>>, <<"popis", char(32)>>, <<"zmeny", array(int16, 24)>>,
     <<"podminky", array(int16, 4)>>, <<"hmotnost", int16>>, <<"nosnost", int16>>, <<"druh", int16>>,
     <<"umisteni", int16>>, <<"flags", uint16>>, <<"spell", int16>>, <<"magie", int16>>,
     <<"sila_spell", int16>>, <<"use_event", int16>>, <<"ikona", uint16>>, <<"vzhled", uint16>>,
     <<"user_value", int16>>, <<"keynum", int16>>, <<"polohy", array(array(int16, 2), 2)>>,
     <<"typ_zbrane", uint8>>, <<"druh_sipu", uint8>>, <<"sound", int16>>,
     <<"v_letu", array(int16, 16)>>, <<"cena", int32>>, <<"weapon_animation", uint8>>,
     <<"hitpos", uint8>>, <<"shiftup", uint8>>, <<"byteres", uint8>>, <<"rezerva", array(int16, 12)>> >>
ItemDef == Plain(ItemFields)
ItemSchema == ItemDef.schema

\* both formats of an enemy are alike up to its file and from experience on
EnemyHead ==
  << <<"name", char(30)>>, <<"casting", int16>>, <<"adjusting", array(array(int16, 16), 6)>>,
     <<"sector", uint16>>, <<"dir", uint16>>, <<"locx", uint8>>, <<"locy", uint8>>,
     <<"headx", uint8>>, <<"heady", uint8>>, <<"anim_counter", uint16>>,
     <<"vlastnosti", array(uint16, 24)>>, <<"inv", array(int16, 15)>>, <<"kill_dialog", int16>>,
     <<"lives", int16>>, <<"cislo_vzoru", int16>>, <<"speed", int16>>, <<"dohled", int16>>,
     <<"dosah", int16>>, <<"stay_strategy", uint8>>, <<"walk_data", int8>>, <<"bonus", uint16>>,
     <<"flee_num", int8>>, <<"anim_counts", array(int8, 6)>>, <<"mobs_name", char(7)>> >>
EnemyMiddle ==
  << <<"experience", int32>>, <<"vlajky", uint8>>, <<"anim_phase", uint8>>, <<"csektor", int16>>,
     <<"home_pos", int16>>, <<"next", int16>>, <<"actions", uint8>>, <<"hit_pos", uint8>>,
     <<"sounds", array(uint16, 4)>>, <<"paletts_count", int8>>, <<"mode", int8>>, <<"dialog", int16>> >>
EnemyDef == [locx |-> 128, locy |-> 128, headx |-> 128, heady |-> 128]
EnemySchema ==
  Class(EnemyHead \o EnemyMiddle
        \o << <<"dialog_reserved", int8>>, <<"money", uint16>>, <<"specproc", uint16>>,
              <<"reserved", array(int8, 3)>> >>, EnemyDef)
EnemySchemaNew ==
  Class(EnemyHead \o << <<"flags2", uint8>>, <<"reserved", uint8>> >> \o EnemyMiddle
        \o << <<"dialog_flags", int16>>, <<"money", uint16>>, <<"specproc", uint16>>,
              <<"reserved2", uint16>>, <<"reserved3", uint16>> >>, EnemyDef)
EnemyHdrSchema == Plain(<< <<"ver", int32>>, <<"itemsz", int32>> >>)

TKouzlo ==
  Plain(<< <<"num", uint16>>, <<"um", uint16>>, <<"mge", uint16>>, <<"zivel", uint8>>,
           <<"cast_time", uint8>>, <<"owner", int16>>, <<"accnum", int16>>, <<"start", uint32>>,
           <<"cil", int16>>, <<"povaha", uint8>>, <<"backfire", uint16>>, <<"wait", uint16>>,
           <<"delay", uint16>>,
           <<"flags", bitmap(uint8, [trace |-> <<0, 1>>, teleport |-> <<1, 1>>, hidden |-> <<2, 1>>,
                                     noanim |-> <<3, 1>>, nodispel |-> <<4, 1>>])>>,
           <<"spellname", char(28)>>, <<"teleport_target", uint16>> >>)

TProduct == Plain(<< <<"item", int16>>, <<"cena", int32>>, <<"trade_flags", int16>>,
                     <<"pocet", int32>>, <<"max_pocet", int32>> >>)
TShop == Plain(<< <<"keeper", char(16)>>, <<"picture", char(13)>>, <<"koef", int32>>,
                  <<"products", int32>>, <<"shop_id", int32>>, <<"list_size", int32>>,
                  <<"spec_max", int16>>, <<"dummy_ptr", int32>> >>)

NewHeader == Plain(<< <<"row", uint8>>, <<"count", uint8>> >>)
NewItem == Plain(<< <<"file", uint16>>, <<"offsetx", int16>>, <<"offsety", int16>> >>)
Config == Plain(<< <<"big", uint8>>, <<"hitpos", uint8>> >>)
=============================================================================
