---------------------------- MODULE MCMapEditor ----------------------------
(***************************************************************************)
(* Small instances of the two halves of MapEditor.vue: its tools draw a    *)
(* map, or its panel applies what was edited to a map of two sectors.      *)
(***************************************************************************)
EXTENDS MapSectors, MapApply, TLC

VARIABLE task  \* "draw" or "apply"

GroundLevel == {0}
Two == <<1 :> 2 @@ 0 :> 0 @@ 2 :> 0 @@ 3 :> 0, 3 :> 1 @@ 0 :> 0 @@ 1 :> 0 @@ 2 :> 0>>
TwoPlaces == << <<0, 0>>, <<1, 0>> >>

\* the flag is on the second sector only, or on both
SecondHasIt == panel_docs[1].side[2][0].flags = SideFlag
MapInit == /\ Init /\ PanelInit /\ SecondHasIt
           /\ \/ task = "apply"
              \/ task = "draw" /\ panel_docs[1].side[1][0].flags = {} /\ focus.sector = 1 /\ focus.side = 0
MapNext ==
  \/ task = "draw" /\ Next /\ UNCHANGED panel_vars /\ UNCHANGED task
  \/ task = "apply" /\ PanelNext /\ UNCHANGED vars /\ UNCHANGED task
MapSpec == MapInit /\ [][MapNext]_<<vars, task, panel_vars>>
=============================================================================
