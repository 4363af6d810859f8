--------------------------- MODULE MCSaveControl ---------------------------
(* Small instances of SaveControl: an editor of each kind. *)
EXTENDS SaveControl, TLC

CONSTANTS spells, items, enemies
EachKind == spells :> "awaits" @@ items :> "forgets" @@ enemies :> "swallows"
=============================================================================
