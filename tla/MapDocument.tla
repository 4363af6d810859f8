---------------------------- MODULE MapDocument ----------------------------
(***************************************************************************)
(* Opening, editing, undoing and saving a map in the map editor            *)
(* (views/MapEditor.vue) with utils/document.ts and core/string_table.ts.  *)
(* A map and its strings are two files of the project, NAME.MAP and        *)
(* NAME.TXT, and one document in the editor.  saveMap waits for the map to *)
(* be stored, then sends the strings, if they are not those it last loaded *)
(* or stored, and waits for them no more.                                  *)
(*                                                                         *)
(* Contents are versions: <<m, 1>> is the table map m has at first,        *)
(* <<m, k>> what the (k-1)-th edit made of it, <<m, 0>> an empty one or no *)
(* file.  The third part of a map's version is the table it goes with, to  *)
(* whose lines it refers; a map <<m, 0, t>> has no sectors, an edit leaves *)
(* some, and NoFile stands for no map on the disk.  The code compares      *)
(* string tables by identity, which versions stand for: a table that is    *)
(* loaded again is the same version.  The link takes calls in order        *)
(* (RpcLink); serving a call and running what awaits its answer is one     *)
(* step, since the user's steps in between do not read what is on its way. *)
(***************************************************************************)
EXTENDS Naturals, Sequences, SequencesExt

CONSTANTS Map, NoMap,
          Stored, WithText,  \* the maps that exist at first, and those with strings
          MaxEdits,  \* bound: edits in all
          MaxLink    \* bound: calls under way when the user acts

ASSUME DocumentAssumption == NoMap \notin Map /\ WithText \subseteq Stored /\ Stored \subseteq Map
                             /\ MaxEdits \in Nat /\ MaxLink \in Nat

Empty(m) == <<m, 0>>
NoTable == <<NoMap, 1>>   \* original_string_table is an array of nobody
NoFile == <<NoMap, 0, Empty(NoMap)>>
Table == (Map \cup {NoMap}) \X (0..MaxEdits + 1)
Version == (Map \cup {NoMap}) \X (0..MaxEdits + 1) \X Table
EmptyDoc(m) == [map |-> <<m, 0, Empty(m)>>, str |-> Empty(m)]
FirstTable(m) == IF m \in WithText THEN <<m, 1>> ELSE Empty(m)
First(m) == [map |-> IF m \in Stored THEN <<m, 1, FirstTable(m)>> ELSE NoFile,
             str |-> FirstTable(m)]

VARIABLES
  disk,      \* the two files of each map, as a pair
  link,      \* calls on the way to the server
  docs, cur, \* undoredo_stack, its current position
  original,  \* original_string_table
  name,      \* map_filename
  active,    \* the editor is shown and has a save control
  changed,   \* its #changed
  edits,     \* number of edits
  silent,    \* history: what is shown came without marking the control
  failed,    \* history: a call has failed
  raced      \* history: a map was saved while being loaded
vars == <<disk, link, docs, cur, original, name, active, changed, edits, silent, failed,
          raced>>
history == <<silent, failed, raced>>

Init ==
  /\ disk = [m \in Map |-> First(m)]
  /\ link = <<>> /\ docs = <<EmptyDoc(NoMap)>> /\ cur = 1 /\ original = NoTable
  /\ name = NoMap
  /\ active = FALSE /\ changed = FALSE /\ edits = 0
  /\ silent = FALSE /\ failed = FALSE /\ raced = FALSE

Shown == docs[cur]
Acts == Len(link) < MaxLink   \* the bound on the user
Call(op, m, d, by) == [op |-> op, name |-> m, doc |-> d, by |-> by]
Loading(m) == \E i \in DOMAIN link : link[i].op \in {"getMap", "getTxt"} /\ link[i].name = m
-----------------------------------------------------------------------------
(***************************************************************************)
(* Editing.  add_change drops what could be redone; map settings and the   *)
(* script of a side replace the string table, other edits keep it.         *)
(***************************************************************************)
Edit(strings) ==
  /\ active /\ name # NoMap /\ edits < MaxEdits
  /\ LET s == IF strings THEN <<name, edits + 2>> ELSE Shown.str
     IN docs' = Append(SubSeq(docs, 1, cur), [map |-> <<name, edits + 2, s>>, str |-> s])
  /\ cur' = cur + 1 /\ edits' = edits + 1 /\ changed' = TRUE /\ silent' = FALSE
  /\ UNCHANGED <<disk, link, original, name, active, failed, raced>>

\* doUndo and doRedo; the control is not told
Show(k) ==
  /\ active /\ k \in DOMAIN docs /\ cur' = k
  /\ silent' = (silent \/ ~changed)
  /\ UNCHANGED <<disk, link, docs, original, name, active, changed, edits, failed, raced>>
Undo == Show(cur - 1)
Redo == Show(cur + 1)
-----------------------------------------------------------------------------
(***************************************************************************)
(* Saving: the save button and leaving the editor start a save and do not  *)
(* wait for it; saveOnTeleport waits and clears the mark afterwards.       *)
(***************************************************************************)
\* saveMap, up to its await
SaveMap(by) ==
  IF name = NoMap THEN UNCHANGED <<link, raced>>
  ELSE /\ link' = Append(link, Call("putMap", name, Shown, by))
       /\ raced' = (raced \/ Loading(name))

\* on_save returns nothing, so do_save clears the mark at once
Save ==
  /\ Acts /\ active /\ changed /\ changed' = FALSE /\ SaveMap("bar")
  /\ UNCHANGED <<disk, docs, cur, original, name, active, edits, silent, failed>>

Teleport ==
  /\ Acts /\ changed /\ name # NoMap /\ SaveMap("teleport")
  /\ UNCHANGED <<disk, docs, cur, original, name, active, changed, edits, silent, failed>>

\* broken variant: unsaved work is left unsaved
Leave_Unsaved ==
  /\ Acts /\ active /\ active' = FALSE
  /\ UNCHANGED <<disk, docs, cur, original, name, changed, edits, silent, failed, link, raced>>
\* props.active goes off: unmount saves what is marked and leaves the mark on
\* the control, which saveOnTeleport still looks at
Leave ==
  /\ Acts /\ active /\ active' = FALSE
  /\ IF changed THEN SaveMap("leave") ELSE UNCHANGED <<link, raced>>
  /\ UNCHANGED <<disk, docs, cur, original, name, changed, edits, silent, failed>>

\* init_save_state registers a fresh control
Enter ==
  /\ ~active /\ active' = TRUE /\ changed' = FALSE
  /\ UNCHANGED <<disk, link, docs, cur, original, name, edits, history>>
-----------------------------------------------------------------------------
(***************************************************************************)
(* Loading: by the map dialog, which does not ask for unsaved work, or by  *)
(* Revert, whose callback returns nothing, so the mark goes at once.       *)
(***************************************************************************)
LoadMap(m) == link' = Append(link, Call("getMap", m, EmptyDoc(m), "load"))

\* broken variant: the name changes before the map is there
Open_Renames(m) ==
  /\ Acts /\ LoadMap(m) /\ name' = m
  /\ UNCHANGED <<disk, docs, cur, original, active, changed, edits, history>>
Open(m) ==
  /\ Acts /\ LoadMap(m)
  /\ UNCHANGED <<disk, docs, cur, original, name, active, changed, edits, history>>

Revert ==
  /\ Acts /\ active /\ changed /\ changed' = FALSE
  /\ IF name = NoMap THEN UNCHANGED link ELSE LoadMap(name)
  /\ UNCHANGED <<disk, docs, cur, original, name, active, edits, history>>

\* the end of loadMap: Document.reset, and the name with it
Reset(m, d, table) ==
  /\ docs' = <<d>> /\ cur' = 1 /\ original' = table /\ name' = m
  /\ silent' = FALSE
-----------------------------------------------------------------------------
(***************************************************************************)
(* The answers.  A call that fails may have been carried out or not.  What *)
(* cannot be loaded is an empty map with the name asked for.               *)
(***************************************************************************)
Answered == link' = Tail(link)
AnsweredSending(c) == link' = Append(Tail(link), c)

\* another save follows the one that is answered
Saving == \E i \in DOMAIN Tail(link) : Tail(link)[i].op = "putMap"

\* broken variant: saveMap looks at the strings that are shown by now
MapPut_Shown(c) ==
  /\ c.op = "putMap" /\ disk' = [disk EXCEPT ![c.name].map = c.doc.map]
  /\ IF original # Shown.str
     THEN AnsweredSending(Call("putTxt", c.name, Shown, c.by)) /\ original' = Shown.str
     ELSE Answered /\ UNCHANGED original
  /\ UNCHANGED <<changed, docs, cur, name, active, edits, silent, failed, raced>>
\* the rest of saveMap
MapPut(c) ==
  /\ c.op = "putMap" /\ disk' = [disk EXCEPT ![c.name].map = c.doc.map]
  /\ IF original # c.doc.str
     THEN AnsweredSending(Call("putTxt", c.name, c.doc, c.by)) /\ original' = c.doc.str
     ELSE Answered /\ UNCHANGED original
  /\ IF c.by = "teleport"
     THEN /\ changed' = FALSE
          /\ silent' = (silent \/ Shown # c.doc \/ Saving)
     ELSE UNCHANGED <<changed, silent>>
  /\ UNCHANGED <<docs, cur, name, active, edits, failed, raced>>

TxtPut(c) ==
  /\ c.op = "putTxt" /\ disk' = [disk EXCEPT ![c.name].str = c.doc.str] /\ Answered
  /\ UNCHANGED <<docs, cur, original, name, active, changed, edits, history>>

\* the map came: unless it has no sectors its strings are asked for
MapGot(c) ==
  /\ c.op = "getMap"
  /\ IF disk[c.name].map[2] = 0
     THEN /\ Answered
          /\ Reset(c.name, EmptyDoc(c.name),
                   IF disk[c.name].map = NoFile THEN NoTable ELSE Empty(c.name))
     ELSE /\ AnsweredSending(Call("getTxt", c.name, disk[c.name], "load"))
          /\ UNCHANGED <<docs, cur, original, name, silent>>
  /\ UNCHANGED <<disk, active, changed, edits, failed, raced>>

TxtGot(c) ==
  /\ c.op = "getTxt" /\ Answered
  /\ LET s == disk[c.name].str IN Reset(c.name, [map |-> c.doc.map, str |-> s], s)
  /\ UNCHANGED <<disk, active, changed, edits, failed, raced>>

PutFails(c) ==
  /\ c.op \in {"putMap", "putTxt"} /\ Answered /\ failed' = TRUE
  /\ disk' \in {disk, IF c.op = "putTxt" THEN [disk EXCEPT ![c.name].str = c.doc.str]
                      ELSE [disk EXCEPT ![c.name].map = c.doc.map]}
  /\ UNCHANGED <<docs, cur, original, name, active, changed, edits, silent, raced>>

GetFails(c) ==
  /\ c.op \in {"getMap", "getTxt"} /\ Answered /\ failed' = TRUE
  /\ IF c.op = "getMap" THEN Reset(c.name, EmptyDoc(c.name), NoTable)
     ELSE Reset(c.name, [map |-> c.doc.map, str |-> Empty(c.name)], Empty(c.name))
  /\ UNCHANGED <<disk, active, changed, edits, raced>>

Answer ==
  /\ link # <<>>
  /\ LET c == Head(link)
     IN MapPut(c) \/ TxtPut(c) \/ MapGot(c) \/ TxtGot(c)
        \/ PutFails(c) \/ GetFails(c)

Next == \/ \E strings \in BOOLEAN : Edit(strings)
        \/ Undo \/ Redo \/ Save \/ Teleport \/ Leave \/ Enter
        \/ \E m \in Map : Open(m)
        \/ Revert \/ Answer

Spec == Init /\ [][Next]_vars
-----------------------------------------------------------------------------
\* What is expected of a map and its strings.

\* None of a document's parts comes from a map other than m.
Of(m, d) == {d.map[1], d.map[3][1], d.str[1]} \subseteq {m, NoMap}

\* OwnName: however loads, saves, edits and failures interleave, no map is ever
\* stored under another map's name: loadMap changes the document and its name
\* together, saveMap reads both before it waits.
OwnName == /\ \A m \in Map : Of(m, disk[m])
           /\ \A d \in ToSet(docs) : Of(name, d)
           /\ \A i \in DOMAIN link : Of(link[i].name, link[i].doc)

Quiet == link = <<>>

\* OneVersion: when no call is under way, the .MAP and the .TXT on the disk belong
\* to one document, though saveMap sends them apart and skips the strings it takes
\* for stored.  Excused are failed calls (a put of strings that fails is never
\* repeated) and a save that began while the same map was being loaded, after
\* which the editor takes stale strings for the stored ones.
OneVersion == Quiet /\ ~failed /\ ~raced => \A m \in Map :
  disk[m].map = NoFile \/ disk[m].map[3] = disk[m].str

\* UnsavedIsMarked: when no call is under way, a map that differs from the disk is
\* marked in the status bar (a new map once it was edited), though the mark goes
\* before the save it stands for has ended.  Excused are what undo and redo show
\* (they do not mark the map), what was edited while a teleport saved, failed calls
\* and the race above.
UnsavedIsMarked ==
  Quiet /\ active /\ name # NoMap /\ ~failed /\ ~raced
    => changed \/ silent \/ Shown.map = disk[name].map
       \/ (Shown = EmptyDoc(name) /\ disk[name].map = NoFile)
=============================================================================
