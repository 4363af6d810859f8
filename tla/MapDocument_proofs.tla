------------------------- MODULE MapDocument_proofs -------------------------
(* Proofs about maps and their strings, for any maps and any number of edits. *)
EXTENDS MapDocument, TLAPS

\* The versions that belong to map m, and the documents made of them.
TableOf(m) == {m, NoMap} \X Nat
VersionOf(m) == ({m} \X Nat \X TableOf(m)) \cup {NoFile}
DocOf(m) == [map : VersionOf(m), str : TableOf(m)]
AnyCall == UNION {[op : {"putMap", "putTxt", "getMap", "getTxt"}, name : {m}, doc : DocOf(m),
                   by : {"bar", "teleport", "leave", "load"}] : m \in Map}

\* OwnName is inductive once the shown document is known to exist and calls, files
\* and undo steps are known to have the shape of documents.
Owned ==
  /\ disk \in [Map -> UNION {DocOf(m) : m \in Map}] /\ \A m \in Map : disk[m] \in DocOf(m)
  /\ name \in Map \cup {NoMap} /\ docs \in Seq(DocOf(name))
  /\ cur \in 1..Len(docs) /\ edits \in Nat
  /\ link \in Seq(AnyCall)

LEMMA EmptyIsOwned == \A m : EmptyDoc(m) \in DocOf(m) /\ Empty(m) \in TableOf(m)
  BY DEF EmptyDoc, Empty, DocOf, VersionOf, TableOf, NoFile

LEMMA PartsAreOwn == ASSUME NEW m, NEW d \in DocOf(m) PROVE Of(m, d)
<1>1. d.str \in TableOf(m) /\ d.map \in VersionOf(m)
  BY DEF DocOf
<1>2. \A s \in TableOf(m) : s[1] \in {m, NoMap}
  BY DEF TableOf
<1>3. d.map[1] \in {m, NoMap} /\ d.map[3] \in TableOf(m)
  BY <1>1 DEF VersionOf, NoFile, Empty, TableOf
<1> QED
  BY <1>1, <1>2, <1>3 DEF Of

LEMMA OwnedImplies == Owned => OwnName
<1> SUFFICES ASSUME Owned PROVE OwnName
  OBVIOUS
<1>1. \A m \in Map : Of(m, disk[m])
  BY PartsAreOwn DEF Owned
<1>2. ASSUME NEW d \in ToSet(docs) PROVE Of(name, d)
  <2>1. PICK i \in DOMAIN docs : d = docs[i]
    BY DEF ToSet
  <2>2. d \in DocOf(name)
    BY <2>1 DEF Owned
  <2> QED
    BY <2>2, PartsAreOwn
<1>3. ASSUME NEW i \in DOMAIN link PROVE Of(link[i].name, link[i].doc)
  <2>1. link[i] \in AnyCall
    BY DEF Owned
  <2>2. link[i].doc \in DocOf(link[i].name)
    BY <2>1 DEF AnyCall
  <2> QED
    BY <2>2, PartsAreOwn
<1> QED
  BY <1>1, <1>2, <1>3 DEF OwnName

LEMMA InitOwned == Init => Owned
<1> SUFFICES ASSUME Init PROVE Owned
  OBVIOUS
<1>1. \A m \in Map : First(m) \in DocOf(m)
  BY DEF First, FirstTable, Empty, DocOf, VersionOf, TableOf
<1>2. disk \in [Map -> UNION {DocOf(m) : m \in Map}] /\ \A m \in Map : disk[m] \in DocOf(m)
  BY <1>1 DEF Init
<1>3. docs \in Seq(DocOf(name)) /\ cur \in 1..Len(docs)
  BY EmptyIsOwned DEF Init
<1> QED
  BY <1>2, <1>3 DEF Init, Owned

\* What the editor does: edits are made of the map that is open, saves carry the
\* shown document under the name it has.
LEMMA ShownIsOwned == Owned => Shown \in DocOf(name)
  BY DEF Owned, Shown

LEMMA SendsOwn ==
  ASSUME Owned, NEW m \in Map, NEW d \in DocOf(m),
         NEW op \in {"putMap", "putTxt", "getMap", "getTxt"},
         NEW by \in {"bar", "teleport", "leave", "load"}
  PROVE  Append(link, Call(op, m, d, by)) \in Seq(AnyCall)
<1>1. Call(op, m, d, by) \in AnyCall
  BY DEF Call, AnyCall
<1> QED
  BY <1>1 DEF Owned

LEMMA EditOwned == ASSUME Owned, NEW b \in BOOLEAN, Edit(b) PROVE Owned'
<1> DEFINE s == IF b THEN <<name, edits + 2>> ELSE Shown.str
           d == [map |-> <<name, edits + 2, s>>, str |-> s]
<1>1. s \in TableOf(name)
  <2>1. Shown.str \in TableOf(name)
    BY ShownIsOwned DEF DocOf
  <2>2. <<name, edits + 2>> \in TableOf(name)
    BY DEF Owned, TableOf
  <2> QED
    BY <2>1, <2>2
<1>2. d \in DocOf(name)
  <2>1. edits + 2 \in Nat
    BY DEF Owned
  <2> HIDE DEF s
  <2>2. <<name, edits + 2, s>> \in VersionOf(name)
    BY <1>1, <2>1 DEF VersionOf
  <2> QED
    BY <1>1, <2>2 DEF DocOf
<1>3. SubSeq(docs, 1, cur) \in Seq(DocOf(name)) /\ Len(SubSeq(docs, 1, cur)) = cur
  BY DEF Owned
<1>4. docs' = Append(SubSeq(docs, 1, cur), d) /\ UNCHANGED <<disk, link, name>>
  BY DEF Edit
<1>5. docs' \in Seq(DocOf(name)) /\ Len(docs') = cur + 1
  BY <1>2, <1>3, <1>4
<1> QED
  BY <1>4, <1>5 DEF Edit, Owned

LEMMA UserOwned ==
  Owned /\ (Undo \/ Redo \/ Save \/ Teleport \/ Leave \/ Enter \/ Revert \/ \E m \in Map : Open(m))
    => Owned'
<1> SUFFICES ASSUME Owned PROVE (Undo \/ Redo \/ Save \/ Teleport \/ Leave \/ Enter \/ Revert
                                  \/ \E m \in Map : Open(m)) => Owned'
  OBVIOUS
<1>1. Undo \/ Redo => Owned'
  BY DEF Undo, Redo, Show, Owned
<1>2. ASSUME NEW by \in {"bar", "teleport", "leave"}, SaveMap(by)
      PROVE  link' \in Seq(AnyCall)
  BY <1>2, ShownIsOwned, SendsOwn DEF SaveMap, Owned
<1>3. ASSUME NEW m \in Map, LoadMap(m) PROVE link' \in Seq(AnyCall)
  BY <1>3, EmptyIsOwned, SendsOwn DEF LoadMap
<1>4. Save \/ Teleport \/ Leave => Owned'
  BY <1>2 DEF Save, Teleport, Leave, Owned
<1>5. Enter => Owned'
  BY DEF Enter, Owned
<1>6. (Revert \/ \E m \in Map : Open(m)) => Owned'
  BY <1>3, EmptyIsOwned, SendsOwn DEF Revert, Open, Owned
<1> QED
  BY <1>1, <1>4, <1>5, <1>6

\* What the answers do: the call at the head carries a document of its map.
LEMMA AnswerOwned == Owned /\ Answer => Owned'
<1> SUFFICES ASSUME Owned, Answer PROVE Owned'
  OBVIOUS
<1> DEFINE c == Head(link)
<1>1. link # <<>> /\ c \in AnyCall /\ Tail(link) \in Seq(AnyCall)
  BY DEF Answer, Owned
<1>2. c.name \in Map /\ c.doc \in DocOf(c.name)
      /\ c.by \in {"bar", "teleport", "leave", "load"}
  BY <1>1 DEF AnyCall
<1>3. disk[c.name] \in DocOf(c.name)
  BY <1>2 DEF Owned
<1>4. ASSUME NEW op \in {"putTxt", "getTxt"}, NEW d \in DocOf(c.name),
             NEW by \in {"bar", "teleport", "leave", "load"}
      PROVE  Append(Tail(link), Call(op, c.name, d, by)) \in Seq(AnyCall)
  <2>1. Call(op, c.name, d, by) \in AnyCall
    BY <1>2 DEF Call, AnyCall
  <2> QED
    BY <1>1, <2>1
<1>5. ASSUME NEW d \in DocOf(c.name), NEW t, Reset(c.name, d, t)
      PROVE  docs' \in Seq(DocOf(name')) /\ cur' \in 1..Len(docs') /\ name' \in Map
  BY <1>5, <1>2 DEF Reset
<1> DEFINE Disk == /\ disk' \in [Map -> UNION {DocOf(m) : m \in Map}]
                   /\ \A m \in Map : disk'[m] \in DocOf(m)
<1>6. disk' = disk => Disk
  BY DEF Owned
<1>7. disk' = [disk EXCEPT ![c.name].map = c.doc.map] => Disk
  <2>1. [disk[c.name] EXCEPT !.map = c.doc.map] \in DocOf(c.name)
    BY <1>2, <1>3 DEF DocOf
  <2> QED
    BY <2>1, <1>2 DEF Owned
<1>8. disk' = [disk EXCEPT ![c.name].str = c.doc.str] => Disk
  <2>1. [disk[c.name] EXCEPT !.str = c.doc.str] \in DocOf(c.name)
    BY <1>2, <1>3 DEF DocOf
  <2> QED
    BY <2>1, <1>2 DEF Owned
<1>9. CASE MapPut(c)
  <2>1. link' \in Seq(AnyCall)
    BY <1>9, <1>1, <1>2, <1>4 DEF MapPut, Answered, AnsweredSending
  <2> QED
    BY <1>9, <1>7, <2>1 DEF MapPut, Owned
<1>10. CASE TxtPut(c)
  BY <1>10, <1>1, <1>8 DEF TxtPut, Answered, Owned
<1>11. CASE MapGot(c)
  <2>1. link' \in Seq(AnyCall)
    BY <1>11, <1>1, <1>3, <1>4 DEF MapGot, Answered, AnsweredSending
  <2>2. docs' \in Seq(DocOf(name')) /\ cur' \in 1..Len(docs') /\ name' \in Map \cup {NoMap}
    BY <1>11, <1>5, EmptyIsOwned DEF MapGot, Owned
  <2> QED
    BY <1>11, <1>6, <2>1, <2>2 DEF MapGot, Owned
<1>12. CASE TxtGot(c)
  <2>1. [map |-> c.doc.map, str |-> disk[c.name].str] \in DocOf(c.name)
    BY <1>2, <1>3 DEF DocOf
  <2>2. docs' \in Seq(DocOf(name')) /\ cur' \in 1..Len(docs') /\ name' \in Map
    BY <1>12, <1>5, <2>1 DEF TxtGot
  <2> QED
    BY <1>12, <1>1, <1>6, <2>2 DEF TxtGot, Answered, Owned
<1>13. CASE PutFails(c)
  BY <1>13, <1>1, <1>6, <1>7, <1>8 DEF PutFails, Answered, Owned
<1>14. CASE GetFails(c)
  <2>1. [map |-> c.doc.map, str |-> Empty(c.name)] \in DocOf(c.name)
    BY <1>2, EmptyIsOwned DEF DocOf
  <2>2. docs' \in Seq(DocOf(name')) /\ cur' \in 1..Len(docs') /\ name' \in Map
    BY <1>14, <1>5, <2>1, EmptyIsOwned DEF GetFails
  <2> QED
    BY <1>14, <1>1, <1>6, <2>2 DEF GetFails, Answered, Owned
<1> QED
  BY <1>9, <1>10, <1>11, <1>12, <1>13, <1>14 DEF Answer

LEMMA NextOwned == Owned /\ [Next]_vars => Owned'
<1> SUFFICES ASSUME Owned, [Next]_vars PROVE Owned'
  OBVIOUS
<1>1. CASE \E b \in BOOLEAN : Edit(b)
  BY <1>1, EditOwned
<1>2. CASE Undo \/ Redo \/ Save \/ Teleport \/ Leave \/ Enter \/ Revert \/ \E m \in Map : Open(m)
  BY <1>2, UserOwned
<1>3. CASE Answer
  BY <1>3, AnswerOwned
<1>4. CASE UNCHANGED vars
  BY <1>4 DEF vars, Owned
<1> QED
  BY <1>1, <1>2, <1>3, <1>4 DEF Next

\* No interleaving of loads, saves, edits and failures stores one map, or its
\* strings, under another map's name (MapEditor.vue:716, 751).
THEOREM OwnNameAlways == Spec => []OwnName
  BY InitOwned, NextOwned, OwnedImplies, PTL DEF Spec
-----------------------------------------------------------------------------
(***************************************************************************)
(* OneVersion and UnsavedIsMarked speak of a quiet link.  They follow from *)
(* what holds at all times of the files as they will be when the calls     *)
(* under way have been served, until a call fails or a map is saved while  *)
(* it is loaded.                                                           *)
(***************************************************************************)
\* The calls in q that store the one file of m or the other, and what they store.
Stores(q, op, m) == {i \in DOMAIN q : q[i].op = op /\ q[i].name = m}
Part(op, d) == IF op = "putMap" THEN d.map ELSE d.str
\* v will be in the file, now that of the pair d, once the calls in q are served.
Ends(q, d, op, m, v) ==
  \/ \E i \in Stores(q, op, m) : Part(op, q[i].doc) = v /\ \A j \in Stores(q, op, m) : j <= i
  \/ Stores(q, op, m) = {} /\ Part(op, d) = v

\* A document of m whose map refers to its own strings; without sectors it is empty.
FitsMap(m, v) == v[1] = m /\ (v[2] = 0 => v = <<m, 0, Empty(m)>>)
Fits(m, d) == FitsMap(m, d.map) /\ d.map[3] = d.str /\ d.str[1] = m
Loads == {"getMap", "getTxt"}
DocsFit == \A i \in DOMAIN docs : Fits(name, docs[i])
CallsFit(q) == \A i \in DOMAIN q : q[i].op \notin Loads => Fits(q[i].name, q[i].doc)
\* Saves of a map are ahead of its loads, and strings on the way to be stored
\* are ahead of their loading.
InTurn(q) == \A i, j \in DOMAIN q :
  q[i].op \in Loads /\ q[j].name = q[i].name =>
    /\ q[j].op = "putMap" => q[i].op = "getMap" /\ j < i
    /\ q[j].op = "putTxt" /\ q[i].op = "getTxt" => j < i
\* While strings are loaded, the map they are for stays on the disk.
StillThere(q, c) == c.op = "getTxt" => c.doc.map = q[c.name].map /\ c.doc.map[2] # 0
AllStillThere == \A i \in DOMAIN link : StillThere(disk, link[i])
\* What the editor takes for the stored strings will be stored.
TxtKnown ==
  original = NoTable \/ (original[1] \in Map
                         /\ Ends(link, disk[original[1]], "putTxt", original[1], original))
\* A map on the disk will have its own strings beside it.
DiskFits == \A m \in Map :
  /\ disk[m].str[1] = m
  /\ disk[m].map # NoFile => /\ FitsMap(m, disk[m].map)
                             /\ Ends(link, disk[m], "putTxt", m, disk[m].map[3])
\* What is shown and not marked will be on the disk, or replaced by what is loaded.
ShownEnds == \/ Ends(link, disk[name], "putMap", name, Shown.map)
             \/ Shown = EmptyDoc(name) /\ Ends(link, disk[name], "putMap", name, NoFile)
OnLoad == \E i \in DOMAIN link : link[i].op \in Loads
MapKnown == name # NoMap => (active /\ changed) \/ silent \/ OnLoad \/ ShownEnds
Agreed == /\ DocsFit /\ CallsFit(link) /\ InTurn(link) /\ AllStillThere
          /\ TxtKnown /\ DiskFits /\ MapKnown
Kept == Owned /\ (~failed /\ ~raced => Agreed)

\* The sequences the link goes through.
LEMMA Appended ==
  ASSUME NEW q \in Seq(AnyCall), NEW c \in AnyCall
  PROVE  /\ Append(q, c) \in Seq(AnyCall) /\ DOMAIN Append(q, c) = DOMAIN q \cup {Len(q) + 1}
         /\ Append(q, c)[Len(q) + 1] = c /\ \A i \in DOMAIN q : Append(q, c)[i] = q[i]
         /\ DOMAIN q = 1..Len(q) /\ Len(q) \in Nat
  OBVIOUS

LEMMA Tailed ==
  ASSUME NEW q \in Seq(AnyCall), q # <<>>
  PROVE  /\ Tail(q) \in Seq(AnyCall) /\ Head(q) = q[1] /\ 1 \in DOMAIN q
         /\ \A i \in DOMAIN Tail(q) : i \in Nat /\ i + 1 \in DOMAIN q /\ Tail(q)[i] = q[i + 1]
         /\ \A i \in DOMAIN q : i \in Nat \ {0} /\ (i # 1 => i - 1 \in DOMAIN Tail(q))
  OBVIOUS

LEMMA EndsAppend ==
  ASSUME NEW q \in Seq(AnyCall), NEW c \in AnyCall, NEW d, NEW op, NEW m, NEW v
  PROVE  /\ (c.op # op \/ c.name # m) /\ Ends(q, d, op, m, v) => Ends(Append(q, c), d, op, m, v)
         /\ c.op = op /\ c.name = m => Ends(Append(q, c), d, op, m, Part(op, c.doc))
<1> DEFINE r == Append(q, c)
<1>1. CASE c.op # op \/ c.name # m
  <2>1. Stores(r, op, m) = Stores(q, op, m)
    BY <1>1, Appended DEF Stores
  <2>2. \A i \in Stores(q, op, m) : r[i] = q[i]
    BY Appended DEF Stores
  <2> QED
    BY <1>1, <2>1, <2>2 DEF Ends
<1>2. CASE c.op = op /\ c.name = m
  <2>1. Len(q) + 1 \in Stores(r, op, m) /\ r[Len(q) + 1] = c
    BY <1>2, Appended DEF Stores
  <2>2. \A j \in Stores(r, op, m) : j <= Len(q) + 1
    BY Appended DEF Stores
  <2> QED
    BY <1>2, <2>1, <2>2 DEF Ends
<1> QED
  BY <1>1, <1>2

LEMMA EndsTail ==
  ASSUME NEW q \in Seq(AnyCall), q # <<>>, NEW d, NEW e, NEW op, NEW m, NEW v,
         Ends(q, d, op, m, v),
         Part(op, e) = IF Head(q).op = op /\ Head(q).name = m THEN Part(op, Head(q).doc)
                       ELSE Part(op, d)
  PROVE  Ends(Tail(q), e, op, m, v)
<1> DEFINE r == Tail(q)
<1>1. CASE Stores(r, op, m) = {}
  <2>1. \A i \in Stores(q, op, m) : i = 1
    BY <1>1, Tailed DEF Stores
  <2>2. 1 \in Stores(q, op, m) <=> Head(q).op = op /\ Head(q).name = m
    BY Tailed DEF Stores
  <2>3. Part(op, e) = v
    BY <2>1, <2>2, Tailed DEF Ends
  <2> QED
    BY <1>1, <2>3 DEF Ends
<1>2. CASE Stores(r, op, m) # {}
  <2>1. PICK k \in Stores(r, op, m) : TRUE
    BY <1>2
  <2>2. k + 1 \in Stores(q, op, m)
    BY <2>1, Tailed DEF Stores
  <2>3. PICK i \in Stores(q, op, m) : /\ Part(op, q[i].doc) = v
                                      /\ \A j \in Stores(q, op, m) : j <= i
    BY <2>2 DEF Ends
  <2>4. i \in DOMAIN q /\ i \in Nat /\ k \in Nat /\ k + 1 <= i /\ k >= 1
    BY <2>1, <2>2, <2>3, Tailed DEF Stores
  <2>5. i - 1 \in DOMAIN r /\ r[i - 1] = q[i]
    BY <2>4, Tailed
  <2>6. i - 1 \in Stores(r, op, m)
    BY <2>3, <2>5 DEF Stores
  <2>7. \A j \in Stores(r, op, m) : j <= i - 1
    <3> SUFFICES ASSUME NEW j \in Stores(r, op, m) PROVE j <= i - 1
      OBVIOUS
    <3>1. j \in Nat /\ j + 1 \in Stores(q, op, m)
      BY Tailed DEF Stores
    <3> QED
      BY <2>3, <2>4, <3>1
  <2> QED
    BY <2>3, <2>5, <2>6, <2>7 DEF Ends
<1> QED
  BY <1>1, <1>2

LEMMA TurnTail ==
  ASSUME NEW q \in Seq(AnyCall), q # <<>>, InTurn(q) PROVE InTurn(Tail(q))
<1> SUFFICES ASSUME NEW i \in DOMAIN Tail(q), NEW j \in DOMAIN Tail(q),
                    Tail(q)[i].op \in Loads, Tail(q)[j].name = Tail(q)[i].name
             PROVE  /\ Tail(q)[j].op = "putMap" => Tail(q)[i].op = "getMap" /\ j < i
                    /\ Tail(q)[j].op = "putTxt" /\ Tail(q)[i].op = "getTxt" => j < i
  BY DEF InTurn
<1>1. /\ i \in Nat /\ i + 1 \in DOMAIN q /\ Tail(q)[i] = q[i + 1]
      /\ j \in Nat /\ j + 1 \in DOMAIN q /\ Tail(q)[j] = q[j + 1]
  BY Tailed
<1>2. /\ q[j + 1].op = "putMap" => q[i + 1].op = "getMap" /\ j + 1 < i + 1
      /\ q[j + 1].op = "putTxt" /\ q[i + 1].op = "getTxt" => j + 1 < i + 1
  BY <1>1 DEF InTurn
<1> QED
  BY <1>1, <1>2

LEMMA TurnAppend ==
  ASSUME NEW q \in Seq(AnyCall), NEW c \in AnyCall, InTurn(q),
         \A i \in DOMAIN q : q[i].name = c.name =>
           /\ c.op = "putMap" => q[i].op \notin Loads
           /\ c.op = "putTxt" => q[i].op # "getTxt"
           /\ c.op = "getTxt" => q[i].op # "putMap"
  PROVE  InTurn(Append(q, c))
<1> DEFINE r == Append(q, c)
           n == Len(q) + 1
<1> SUFFICES ASSUME NEW i \in DOMAIN r, NEW j \in DOMAIN r,
                    r[i].op \in Loads, r[j].name = r[i].name
             PROVE  /\ r[j].op = "putMap" => r[i].op = "getMap" /\ j < i
                    /\ r[j].op = "putTxt" /\ r[i].op = "getTxt" => j < i
  BY DEF InTurn
<1>1. CASE i \in DOMAIN q /\ j \in DOMAIN q
  BY <1>1, Appended DEF InTurn
<1>2. CASE i = n /\ j \in DOMAIN q
  <2>1. r[i] = c /\ r[j] = q[j] /\ j < i
    BY <1>2, Appended
  <2> QED
    BY <1>2, <2>1 DEF Loads
<1>3. CASE j = n /\ i \in DOMAIN q
  <2>1. r[j] = c /\ r[i] = q[i]
    BY <1>3, Appended
  <2> QED
    BY <1>3, <2>1
<1>4. CASE i = n /\ j = n
  BY <1>4, Appended DEF Loads
<1> QED
  BY <1>1, <1>2, <1>3, <1>4, Appended

LEMMA InitKept == Init => Kept
<1> SUFFICES ASSUME Init PROVE Kept
  OBVIOUS
<1>1. DocsFit
  BY DEF Init, DocsFit, Fits, FitsMap, EmptyDoc, Empty
<1>2. CallsFit(link) /\ InTurn(link) /\ AllStillThere
  BY DEF Init, CallsFit, InTurn, AllStillThere
<1>3. TxtKnown /\ MapKnown
  BY DEF Init, TxtKnown, MapKnown
<1>4. DiskFits
  <2> SUFFICES ASSUME NEW m \in Map
               PROVE  /\ disk[m].str[1] = m
                      /\ disk[m].map # NoFile => /\ FitsMap(m, disk[m].map)
                                                 /\ Ends(link, disk[m], "putTxt", m, disk[m].map[3])
    BY DEF DiskFits
  <2>1. disk[m] = First(m) /\ link = <<>>
    BY DEF Init
  <2>2. Stores(link, "putTxt", m) = {}
    BY <2>1 DEF Stores
  <2>3. disk[m].str = FirstTable(m) /\ FirstTable(m)[1] = m
    BY <2>1 DEF First, FirstTable, Empty
  <2>4. disk[m].map # NoFile => disk[m].map = <<m, 1, FirstTable(m)>>
    BY <2>1 DEF First
  <2> QED
    BY <2>2, <2>3, <2>4 DEF Ends, Part, FitsMap
<1> QED
  BY <1>1, <1>2, <1>3, <1>4, InitOwned DEF Kept, Agreed

\* A call that is sent leaves what will be on the disk as it is, unless it stores.
LEMMA SentKeeps ==
  ASSUME Owned, Agreed, NEW c \in AnyCall, c.op \in {"putMap", "getMap"},
         link' = Append(link, c), UNCHANGED <<disk, original>>
  PROVE  AllStillThere' /\ TxtKnown' /\ DiskFits'
<1>1. link \in Seq(AnyCall)
  BY DEF Owned
<1>2. AllStillThere'
  <2> SUFFICES ASSUME NEW i \in DOMAIN link' PROVE StillThere(disk, link'[i])
    BY DEF AllStillThere
  <2>1. CASE i \in DOMAIN link
    BY <1>1, <2>1, Appended DEF Agreed, AllStillThere
  <2>2. CASE i = Len(link) + 1
    <3>1. link'[i] = c
      BY <1>1, <2>2, Appended
    <3> QED
      BY <3>1 DEF StillThere
  <2> QED
    BY <1>1, <2>1, <2>2, Appended
<1>3. \A d, m, v : Ends(link, d, "putTxt", m, v) => Ends(link', d, "putTxt", m, v)
  BY <1>1, EndsAppend
<1>4. TxtKnown'
  BY <1>3 DEF Agreed, TxtKnown
<1>5. DiskFits'
  BY <1>3 DEF Agreed, DiskFits
<1> QED
  BY <1>2, <1>4, <1>5

LEMMA SaveKeeps ==
  ASSUME Owned, Agreed, NEW by \in {"bar", "teleport", "leave"}, SaveMap(by), name # NoMap,
         ~raced', UNCHANGED <<disk, docs, cur, original, name>>
  PROVE  DocsFit' /\ CallsFit(link') /\ InTurn(link') /\ AllStillThere' /\ TxtKnown' /\ DiskFits'
         /\ ShownEnds'
<1> DEFINE c == Call("putMap", name, Shown, by)
<1>1. link' = Append(link, c) /\ ~Loading(name) /\ link \in Seq(AnyCall)
  BY DEF SaveMap, Owned
<1>2. c \in AnyCall
  BY ShownIsOwned DEF Owned, Call, AnyCall
<1>3. c.op = "putMap" /\ c.name = name /\ c.doc = Shown
  BY DEF Call
<1>4. AllStillThere' /\ TxtKnown' /\ DiskFits'
  BY <1>1, <1>2, <1>3, SentKeeps
<1>5. DocsFit'
  BY DEF Agreed, DocsFit
<1>6. Fits(name, Shown)
  BY DEF Agreed, DocsFit, Owned, Shown
<1>7. CallsFit(link')
  <2> HIDE DEF c
  <2> SUFFICES ASSUME NEW i \in DOMAIN link', link'[i].op \notin Loads
               PROVE  Fits(link'[i].name, link'[i].doc)
    BY DEF CallsFit
  <2>1. CASE i \in DOMAIN link
    BY <1>1, <1>2, <2>1, Appended DEF Agreed, CallsFit
  <2>2. CASE i = Len(link) + 1
    BY <1>1, <1>2, <1>3, <1>6, <2>2, Appended
  <2> QED
    BY <1>1, <1>2, <2>1, <2>2, Appended
<1>8. InTurn(link')
  <2>1. \A i \in DOMAIN link : link[i].name = name => link[i].op \notin Loads
    BY <1>1 DEF Loading, Loads
  <2> HIDE DEF c
  <2> QED
    BY <1>1, <1>2, <1>3, <2>1, TurnAppend DEF Agreed
<1>9. ShownEnds'
  <2>1. Ends(link', disk[name], "putMap", name, Part("putMap", Shown))
    <3> HIDE DEF c
    <3> QED
      BY <1>1, <1>2, <1>3, EndsAppend
  <2> QED
    BY <2>1 DEF ShownEnds, Shown, Part
<1> QED
  BY <1>4, <1>5, <1>7, <1>8, <1>9

LEMMA LoadKeeps ==
  ASSUME Owned, Agreed, NEW m \in Map, LoadMap(m),
         UNCHANGED <<disk, docs, cur, original, name>>
  PROVE  Agreed'
<1> DEFINE c == Call("getMap", m, EmptyDoc(m), "load")
<1>1. link' = Append(link, c) /\ link \in Seq(AnyCall)
  BY DEF LoadMap, Owned
<1>2. c \in AnyCall
  BY EmptyIsOwned DEF Call, AnyCall
<1>3. c.op = "getMap" /\ c.name = m
  BY DEF Call
<1>4. AllStillThere' /\ TxtKnown' /\ DiskFits'
  BY <1>1, <1>2, <1>3, SentKeeps
<1>5. DocsFit'
  BY DEF Agreed, DocsFit
<1> HIDE DEF c
<1>6. link'[Len(link) + 1] = c /\ Len(link) + 1 \in DOMAIN link'
  BY <1>1, <1>2, Appended
<1>7. CallsFit(link')
  BY <1>1, <1>2, <1>3, <1>6, Appended DEF Agreed, CallsFit, Loads
<1>8. InTurn(link')
  BY <1>1, <1>2, <1>3, TurnAppend DEF Agreed
<1>9. OnLoad'
  BY <1>3, <1>6 DEF OnLoad, Loads
<1> QED
  BY <1>4, <1>5, <1>7, <1>8, <1>9 DEF Agreed, MapKnown

LEMMA StillKeeps ==
  ASSUME Agreed, UNCHANGED <<disk, link, original>>
  PROVE  CallsFit(link') /\ InTurn(link') /\ AllStillThere' /\ TxtKnown' /\ DiskFits'
<1>1. AllStillThere' /\ TxtKnown' /\ DiskFits'
  BY DEF Agreed, AllStillThere, TxtKnown, DiskFits
<1> QED
  BY <1>1 DEF Agreed

\* The user's steps: an edit is marked, undo and redo are excused, a save sends what
\* is shown, and what reverting shows is replaced.
LEMMA EditAgreed == ASSUME Owned, Agreed, NEW b \in BOOLEAN, Edit(b) PROVE Agreed'
<1> DEFINE s == IF b THEN <<name, edits + 2>> ELSE Shown.str
           d == [map |-> <<name, edits + 2, s>>, str |-> s]
           old == SubSeq(docs, 1, cur)
<1>1. Fits(name, Shown) /\ \A i \in DOMAIN docs : Fits(name, docs[i])
  BY DEF Agreed, DocsFit, Owned, Shown
<1>2. s[1] = name
  BY <1>1 DEF Fits
<1>3. edits + 2 # 0
  BY DEF Owned
<1>4. Fits(name, d)
  <2> HIDE DEF s
  <2> QED
    BY <1>2, <1>3 DEF Fits, FitsMap
<1>5. docs' = Append(old, d) /\ name' = name
  BY DEF Edit
<1>6. /\ old \in Seq(DocOf(name)) /\ Len(old) = cur
      /\ \A i \in 1..cur : old[i] = docs[i] /\ i \in DOMAIN docs
  BY DEF Owned
<1>7. DocsFit'
  <2> HIDE DEF old, d
  <2> SUFFICES ASSUME NEW i \in DOMAIN docs' PROVE Fits(name, docs'[i])
    BY <1>5 DEF DocsFit
  <2>1. cur \in Nat /\ (i \in 1..cur \/ i = cur + 1)
    BY <1>5, <1>6 DEF Owned
  <2>2. CASE i \in 1..cur
    BY <1>1, <1>5, <1>6, <2>1, <2>2
  <2>3. CASE i = cur + 1
    <3>1. docs'[i] = d
      BY <1>5, <1>6, <2>3
    <3> QED
      BY <1>4, <3>1
  <2> QED
    BY <2>1, <2>2, <2>3
<1>8. CallsFit(link') /\ InTurn(link') /\ AllStillThere' /\ TxtKnown' /\ DiskFits'
  BY StillKeeps DEF Edit
<1>9. MapKnown'
  BY DEF Edit, MapKnown
<1> QED
  BY <1>7, <1>8, <1>9 DEF Agreed

LEMMA UserAgreed ==
  ASSUME Owned, Agreed, ~raced',
         Undo \/ Redo \/ Save \/ Teleport \/ Leave \/ Enter \/ Revert \/ \E m \in Map : Open(m)
  PROVE  Agreed'
<1>1. ASSUME NEW k, Show(k) PROVE Agreed'
  <2>1. DocsFit'
    BY <1>1 DEF Show, Agreed, DocsFit
  <2>2. CallsFit(link') /\ InTurn(link') /\ AllStillThere' /\ TxtKnown' /\ DiskFits'
    BY <1>1, StillKeeps DEF Show
  <2>3. MapKnown'
    BY <1>1 DEF Show, MapKnown
  <2> QED
    BY <2>1, <2>2, <2>3 DEF Agreed
<1>2. ASSUME NEW by \in {"bar", "teleport", "leave"}, SaveMap(by),
             UNCHANGED <<disk, docs, cur, original, name>>, MapKnown' \/ name # NoMap
      PROVE  Agreed'
  <2>1. CASE name = NoMap
    <3>1. link' = link
      BY <1>2, <2>1 DEF SaveMap
    <3>2. CallsFit(link') /\ InTurn(link') /\ AllStillThere' /\ TxtKnown' /\ DiskFits'
      BY <1>2, <3>1, StillKeeps
    <3>3. DocsFit'
      BY <1>2 DEF Agreed, DocsFit
    <3> QED
      BY <1>2, <2>1, <3>2, <3>3 DEF Agreed
  <2>2. CASE name # NoMap
    BY <1>2, <2>2, SaveKeeps DEF Agreed, MapKnown
  <2> QED
    BY <2>1, <2>2
<1>3. CASE Save
  <2>1. name = NoMap => MapKnown'
    BY <1>3 DEF Save, MapKnown
  <2> QED
    BY <1>2, <1>3, <2>1 DEF Save
<1>4. CASE Teleport
  BY <1>2, <1>4 DEF Teleport
<1>5. CASE Leave
  <2>1. CASE changed
    <3>1. name = NoMap => MapKnown'
      BY <1>5 DEF Leave, MapKnown
    <3> QED
      BY <1>2, <1>5, <2>1, <3>1 DEF Leave
  <2>2. CASE ~changed
    <3>1. UNCHANGED <<disk, link, docs, cur, original, name, silent>>
      BY <1>5, <2>2 DEF Leave
    <3>2. MapKnown'
      BY <2>2, <3>1 DEF Agreed, MapKnown, OnLoad, ShownEnds, Shown
    <3>3. DocsFit'
      BY <3>1 DEF Agreed, DocsFit
    <3> QED
      BY <3>1, <3>2, <3>3, StillKeeps DEF Agreed
  <2> QED
    BY <2>1, <2>2
<1>6. CASE Enter
  <2>1. UNCHANGED <<disk, link, docs, cur, original, name, silent>> /\ ~active
    BY <1>6 DEF Enter, history
  <2>2. MapKnown'
    BY <2>1 DEF Agreed, MapKnown, OnLoad, ShownEnds, Shown
  <2>3. DocsFit'
    BY <2>1 DEF Agreed, DocsFit
  <2> QED
    BY <2>1, <2>2, <2>3, StillKeeps DEF Agreed
<1>7. CASE Revert
  <2>1. UNCHANGED <<disk, docs, cur, original, name>>
    BY <1>7 DEF Revert
  <2>2. CASE name = NoMap
    <3>1. link' = link
      BY <1>7, <2>2 DEF Revert
    <3>2. DocsFit' /\ MapKnown'
      BY <2>1, <2>2 DEF Agreed, DocsFit, MapKnown
    <3> QED
      BY <2>1, <3>1, <3>2, StillKeeps DEF Agreed
  <2>3. CASE name # NoMap
    BY <1>7, <2>1, <2>3, LoadKeeps DEF Revert, Owned
  <2> QED
    BY <2>2, <2>3
<1>8. ASSUME NEW m \in Map, Open(m) PROVE Agreed'
  BY <1>8, LoadKeeps DEF Open, history
<1>9. CASE Undo
  BY <1>1, <1>9 DEF Undo
<1>10. CASE Redo
  BY <1>1, <1>10 DEF Redo
<1> QED
  BY <1>3, <1>4, <1>5, <1>6, <1>7, <1>8, <1>9, <1>10

\* The answers.  c is the call that is served, m its map.
LEMMA Served ==
  ASSUME Owned, Agreed, link # <<>>, NEW c, c = Head(link)
  PROVE  /\ c \in AnyCall /\ c.name \in Map /\ c.doc \in DocOf(c.name)
         /\ link \in Seq(AnyCall) /\ Tail(link) \in Seq(AnyCall)
         /\ c.op \notin Loads => Fits(c.name, c.doc)
         /\ CallsFit(Tail(link)) /\ InTurn(Tail(link))
         /\ \A i \in DOMAIN Tail(link) : i + 1 \in DOMAIN link /\ Tail(link)[i] = link[i + 1]
         /\ disk[c.name] \in DocOf(c.name)
<1>1. link \in Seq(AnyCall) /\ Tail(link) \in Seq(AnyCall) /\ c = link[1] /\ 1 \in DOMAIN link
  BY Tailed DEF Owned
<1>2. c \in AnyCall
  BY <1>1
<1>3. c.name \in Map /\ c.doc \in DocOf(c.name)
  BY <1>2 DEF AnyCall
<1>4. \A i \in DOMAIN Tail(link) : i + 1 \in DOMAIN link /\ Tail(link)[i] = link[i + 1]
  BY <1>1, Tailed
<1>5. (c.op \notin Loads => Fits(c.name, c.doc)) /\ CallsFit(Tail(link))
  BY <1>1, <1>4 DEF Agreed, CallsFit
<1>6. InTurn(Tail(link))
  BY <1>1, TurnTail DEF Agreed
<1>7. disk[c.name] \in DocOf(c.name)
  BY <1>3 DEF Owned
<1> QED
  BY <1>1, <1>2, <1>3, <1>4, <1>5, <1>6, <1>7

\* Behind a load no save of its map is left, behind a load of strings none at all.
LEMMA NoneBehind ==
  ASSUME Owned, Agreed, link # <<>>, NEW c, c = Head(link)
  PROVE  /\ c.op \in Loads => Stores(Tail(link), "putMap", c.name) = {}
         /\ c.op = "getTxt" => /\ Stores(Tail(link), "putTxt", c.name) = {}
                               /\ Stores(link, "putTxt", c.name) = {}
         /\ c.op = "putMap" => \A i \in DOMAIN Tail(link) :
                                 Tail(link)[i].name = c.name => Tail(link)[i].op # "getTxt"
<1>1. link \in Seq(AnyCall) /\ c = link[1] /\ 1 \in DOMAIN link
  BY Tailed DEF Owned
<1>2. \A i \in DOMAIN Tail(link) : i \in Nat /\ i + 1 \in DOMAIN link /\ Tail(link)[i] = link[i + 1]
  BY <1>1, Tailed
<1>3. \A j \in DOMAIN link : ~(j < 1)
  BY <1>1, Tailed
<1>4. \A j \in DOMAIN link : c.op \in Loads /\ link[j].name = c.name =>
        link[j].op # "putMap" /\ (c.op = "getTxt" => link[j].op # "putTxt")
  BY <1>1, <1>3 DEF Agreed, InTurn
<1>5. \A i \in DOMAIN link : c.op = "putMap" /\ link[i].name = c.name => link[i].op # "getTxt"
  BY <1>1 DEF Agreed, InTurn, Loads
<1>6. c.op \in Loads => Stores(Tail(link), "putMap", c.name) = {}
  BY <1>2, <1>4 DEF Stores
<1>7. c.op = "getTxt" => /\ Stores(Tail(link), "putTxt", c.name) = {}
                         /\ Stores(link, "putTxt", c.name) = {}
  BY <1>2, <1>4 DEF Stores, Loads
<1> QED
  BY <1>2, <1>5, <1>6, <1>7

\* What will be stored stays, when the head of the link is served.
LEMMA ServedEnds ==
  ASSUME Owned, link # <<>>, NEW c, c = Head(link), NEW e, NEW op, NEW n, NEW v,
         Ends(link, disk[n], op, n, v),
         Part(op, e) = IF c.op = op /\ c.name = n THEN Part(op, c.doc) ELSE Part(op, disk[n])
  PROVE  Ends(Tail(link), e, op, n, v)
<1>1. link \in Seq(AnyCall)
  BY DEF Owned
<1> QED
  BY <1>1, EndsTail

LEMMA OnLoadStays ==
  ASSUME Owned, Agreed, link # <<>>, Head(link).op \notin Loads, OnLoad
  PROVE  \E i \in DOMAIN Tail(link) : Tail(link)[i].op \in Loads
<1>1. link \in Seq(AnyCall)
  BY DEF Owned
<1>2. PICK i \in DOMAIN link : link[i].op \in Loads
  BY DEF OnLoad
<1>3. i \in Nat /\ i # 1 /\ i - 1 \in DOMAIN Tail(link)
  BY <1>1, <1>2, Tailed
<1>4. Tail(link)[i - 1] = link[i]
  BY <1>1, <1>3, Tailed
<1> QED
  BY <1>2, <1>3, <1>4

LEMMA MapPutAgreed ==
  ASSUME Owned, Agreed, link # <<>>, NEW c, c = Head(link), MapPut(c)
  PROVE  Agreed'
<1> DEFINE m == c.name
           q == Tail(link)
           put == Call("putTxt", c.name, c.doc, c.by)
<1>1. /\ c \in AnyCall /\ m \in Map /\ c.doc \in DocOf(m) /\ q \in Seq(AnyCall)
      /\ CallsFit(q) /\ InTurn(q)
      /\ \A i \in DOMAIN q : i + 1 \in DOMAIN link /\ q[i] = link[i + 1]
  BY Served
<1>2. c.op = "putMap" /\ Fits(m, c.doc)
  BY Served DEF MapPut, Loads
<1>3. /\ disk' = [disk EXCEPT ![m].map = c.doc.map]
      /\ UNCHANGED <<docs, cur, name, active>>
  BY DEF MapPut
<1>4. /\ \A n \in Map : disk'[n].str = disk[n].str /\ (n # m => disk'[n] = disk[n])
      /\ disk'[m].map = c.doc.map
  <2>1. disk \in [Map -> UNION {DocOf(n) : n \in Map}] /\ \A n \in Map : disk[n] \in DocOf(n)
    BY DEF Owned
  <2> QED
    BY <1>1, <1>3, <2>1 DEF DocOf
<1>5. put \in AnyCall /\ put.op = "putTxt" /\ put.name = m /\ put.doc = c.doc
  <2>1. c.by \in {"bar", "teleport", "leave", "load"}
    BY <1>1 DEF AnyCall
  <2> QED
    BY <1>1, <2>1 DEF Call, AnyCall
<1>6. \/ original # c.doc.str /\ link' = Append(q, put) /\ original' = c.doc.str
      \/ original = c.doc.str /\ link' = q /\ original' = original
  BY DEF MapPut, Answered, AnsweredSending
<1> HIDE DEF put
<1>7. /\ \A i \in DOMAIN link' : (i \in DOMAIN q /\ link'[i] = q[i]) \/ link'[i] = put
      /\ \A i \in DOMAIN q : i \in DOMAIN link' /\ link'[i] = q[i]
  <2>1. CASE link' = q
    BY <2>1
  <2>2. CASE link' = Append(q, put)
    BY <1>1, <1>5, <2>2, Appended
  <2> QED
    BY <1>6, <2>1, <2>2
<1>8. DocsFit'
  BY <1>3 DEF Agreed, DocsFit
<1>9. CallsFit(link')
  <2>1. CASE link' = q
    BY <1>1, <2>1
  <2>2. CASE link' = Append(q, put)
    BY <1>1, <1>2, <1>5, <2>2, Appended DEF CallsFit
  <2> QED
    BY <1>6, <2>1, <2>2
<1>10. InTurn(link')
  <2>1. \A i \in DOMAIN q : q[i].name = m => q[i].op # "getTxt"
    BY <1>2, NoneBehind
  <2>2. CASE link' = Append(q, put)
    BY <1>1, <1>5, <2>1, <2>2, TurnAppend
  <2> QED
    BY <1>1, <1>6, <2>2
<1>11. AllStillThere'
  <2>1. \A i \in DOMAIN q : StillThere(disk', q[i])
    <3> SUFFICES ASSUME NEW i \in DOMAIN q, q[i].op = "getTxt"
                 PROVE  q[i].doc.map = disk'[q[i].name].map /\ q[i].doc.map[2] # 0
      BY DEF StillThere
    <3>1. q[i].name # m
      BY <1>2, NoneBehind
    <3>2. q[i] \in AnyCall
      BY <1>1
    <3>3. q[i].name \in Map
      BY <3>2 DEF AnyCall
    <3>4. StillThere(disk, q[i])
      BY <1>1 DEF Agreed, AllStillThere
    <3> QED
      BY <1>4, <3>1, <3>3, <3>4 DEF StillThere
  <2>2. StillThere(disk', put)
    BY <1>5 DEF StillThere
  <2> QED
    BY <1>7, <2>1, <2>2 DEF AllStillThere
\* What will be stored: the strings of m are those of the document.
<1>12. ASSUME NEW n \in Map, NEW v, Ends(link, disk[n], "putTxt", n, v)
       PROVE  Ends(q, disk'[n], "putTxt", n, v)
  <2>1. Part("putTxt", disk'[n]) = Part("putTxt", disk[n])
    BY <1>4 DEF Part
  <2> QED
    BY <1>2, <1>12, <2>1, ServedEnds
<1>13. ASSUME NEW n \in Map, n # m, NEW v, Ends(link, disk[n], "putTxt", n, v)
       PROVE  Ends(link', disk'[n], "putTxt", n, v)
  BY <1>1, <1>5, <1>6, <1>12, <1>13, EndsAppend
<1>14. c.doc.str[1] = m /\ c.doc.str # NoTable
  BY <1>1, <1>2, DocumentAssumption DEF Fits, NoTable
<1>15. Ends(link', disk'[m], "putTxt", m, c.doc.str)
  <2>1. CASE link' = Append(q, put)
    BY <1>1, <1>5, <2>1, EndsAppend DEF Part
  <2>2. CASE original = c.doc.str /\ link' = q
    BY <1>1, <1>12, <1>14, <2>2 DEF Agreed, TxtKnown
  <2> QED
    BY <1>6, <2>1, <2>2
<1>16. TxtKnown'
  <2>1. original' = c.doc.str
    BY <1>6
  <2> QED
    BY <1>1, <1>14, <1>15, <2>1 DEF TxtKnown
<1>17. DiskFits'
  <2> SUFFICES ASSUME NEW n \in Map
               PROVE  /\ disk'[n].str[1] = n
                      /\ disk'[n].map # NoFile =>
                           /\ FitsMap(n, disk'[n].map)
                           /\ Ends(link', disk'[n], "putTxt", n, disk'[n].map[3])
    BY DEF DiskFits
  <2>1. disk'[n].str[1] = n
    BY <1>4 DEF Agreed, DiskFits
  <2>2. CASE n = m
    BY <1>2, <1>4, <1>15, <2>1, <2>2 DEF Fits
  <2>3. CASE n # m
    BY <1>4, <1>13, <2>1, <2>3 DEF Agreed, DiskFits
  <2> QED
    BY <2>2, <2>3
<1>18. ASSUME NEW n \in Map, NEW v, Ends(link, disk[n], "putMap", n, v)
       PROVE  Ends(link', disk'[n], "putMap", n, v)
  <2>1. Part("putMap", disk'[n]) = IF c.op = "putMap" /\ c.name = n THEN Part("putMap", c.doc)
                                   ELSE Part("putMap", disk[n])
    BY <1>2, <1>4 DEF Part
  <2>2. Ends(q, disk'[n], "putMap", n, v)
    BY <1>18, <2>1, ServedEnds
  <2> QED
    BY <1>1, <1>5, <1>6, <2>2, EndsAppend
<1>19. OnLoad => OnLoad'
  <2>1. OnLoad => \E i \in DOMAIN q : q[i].op \in Loads
    BY <1>2, OnLoadStays DEF Loads
  <2>2. ASSUME NEW i \in DOMAIN q, q[i].op \in Loads PROVE OnLoad'
    <3>1. i \in DOMAIN link' /\ link'[i].op \in Loads
      BY <1>7, <2>2
    <3> QED
      BY <3>1 DEF OnLoad
  <2> QED
    BY <2>1, <2>2
<1>20. ASSUME c.by = "teleport", Shown = c.doc, ~Saving, name # NoMap PROVE ShownEnds'
  <2>1. Fits(name, Shown)
    BY DEF Agreed, DocsFit, Owned, Shown
  <2>2. name = m
    BY <1>2, <1>20, <2>1 DEF Fits, FitsMap
  <2>3. Stores(link', "putMap", m) = {}
    <3>1. \A i \in DOMAIN q : q[i].op # "putMap"
      BY <1>20 DEF Saving
    <3> QED
      BY <1>5, <1>7, <3>1 DEF Stores
  <2>4. Shown' = c.doc
    BY <1>3, <1>20 DEF Shown
  <2> QED
    BY <1>3, <1>4, <2>2, <2>3, <2>4 DEF ShownEnds, Ends, Part
<1>21. MapKnown'
  <2> SUFFICES ASSUME name # NoMap PROVE (active' /\ changed') \/ silent' \/ OnLoad' \/ ShownEnds'
    BY <1>3 DEF MapKnown
  <2>1. name \in Map
    BY DEF Owned
  <2>2. ShownEnds => ShownEnds'
    BY <1>3, <1>18, <2>1 DEF ShownEnds, Shown
  <2>3. CASE c.by = "teleport"
    BY <1>20, <2>3 DEF MapPut
  <2>4. CASE c.by # "teleport"
    BY <1>3, <1>19, <2>2, <2>4 DEF MapPut, Agreed, MapKnown
  <2> QED
    BY <2>3, <2>4
<1> QED
  BY <1>8, <1>9, <1>10, <1>11, <1>16, <1>17, <1>21 DEF Agreed

LEMMA TxtPutAgreed ==
  ASSUME Owned, Agreed, link # <<>>, NEW c, c = Head(link), TxtPut(c)
  PROVE  Agreed'
<1> DEFINE m == c.name
           q == Tail(link)
<1>1. /\ m \in Map /\ c.doc \in DocOf(m) /\ q \in Seq(AnyCall) /\ CallsFit(q) /\ InTurn(q)
      /\ \A i \in DOMAIN q : i + 1 \in DOMAIN link /\ q[i] = link[i + 1]
  BY Served
<1>2. c.op = "putTxt" /\ c.doc.str[1] = m
  BY Served DEF TxtPut, Loads, Fits
<1>3. /\ disk' = [disk EXCEPT ![m].str = c.doc.str] /\ link' = q
      /\ UNCHANGED <<docs, cur, original, name, active, changed, silent>>
  BY DEF TxtPut, Answered, history
<1>4. /\ \A n \in Map : disk'[n].map = disk[n].map /\ (n # m => disk'[n] = disk[n])
      /\ disk'[m].str = c.doc.str
  <2>1. disk \in [Map -> UNION {DocOf(n) : n \in Map}] /\ \A n \in Map : disk[n] \in DocOf(n)
    BY DEF Owned
  <2> QED
    BY <1>1, <1>3, <2>1 DEF DocOf
<1>5. ASSUME NEW op \in {"putMap", "putTxt"}, NEW n \in Map, NEW v, Ends(link, disk[n], op, n, v)
      PROVE  Ends(link', disk'[n], op, n, v)
  <2>1. Part(op, disk'[n]) = IF c.op = op /\ c.name = n THEN Part(op, c.doc) ELSE Part(op, disk[n])
    BY <1>2, <1>4 DEF Part
  <2> QED
    BY <1>3, <1>5, <2>1, ServedEnds
<1>6. DocsFit' /\ CallsFit(link') /\ InTurn(link')
  BY <1>1, <1>3 DEF Agreed, DocsFit
<1>7. AllStillThere'
  <2> SUFFICES ASSUME NEW i \in DOMAIN q PROVE StillThere(disk', q[i])
    BY <1>3 DEF AllStillThere
  <2>1. q[i] \in AnyCall
    BY <1>1
  <2>2. q[i].name \in Map
    BY <2>1 DEF AnyCall
  <2>3. StillThere(disk, q[i])
    BY <1>1 DEF Agreed, AllStillThere
  <2> QED
    BY <1>4, <2>2, <2>3 DEF StillThere
<1>8. TxtKnown'
  BY <1>3, <1>5 DEF Agreed, TxtKnown
<1>9. DiskFits'
  BY <1>2, <1>4, <1>5 DEF Agreed, DiskFits
<1>10. MapKnown'
  <2>1. OnLoad => OnLoad'
    BY <1>2, <1>3, OnLoadStays DEF OnLoad, Loads
  <2>2. name # NoMap /\ ShownEnds => ShownEnds'
    <3>1. name # NoMap => name \in Map
      BY DEF Owned
    <3> QED
      BY <1>3, <1>5, <3>1 DEF ShownEnds, Shown
  <2> QED
    BY <1>3, <2>1, <2>2 DEF Agreed, MapKnown
<1> QED
  BY <1>6, <1>7, <1>8, <1>9, <1>10 DEF Agreed

\* A load changes nothing on the disk.
LEMMA GotKeeps ==
  ASSUME Owned, Agreed, link # <<>>, NEW c, c = Head(link), c.op \in Loads, disk' = disk
  PROVE  /\ \A i \in DOMAIN Tail(link) : StillThere(disk, Tail(link)[i])
         /\ \A n \in Map : \A v : \A op \in {"putMap", "putTxt"} :
              Ends(link, disk[n], op, n, v) => Ends(Tail(link), disk[n], op, n, v)
         /\ link' = Tail(link) => DiskFits'
<1>1. \A i \in DOMAIN Tail(link) : StillThere(disk, Tail(link)[i])
  BY Served DEF Agreed, AllStillThere
<1>2. ASSUME NEW n \in Map, NEW v, NEW op \in {"putMap", "putTxt"}, Ends(link, disk[n], op, n, v)
      PROVE  Ends(Tail(link), disk[n], op, n, v)
  <2>1. c.op # op
    BY DEF Loads
  <2> QED
    BY <1>2, <2>1, ServedEnds
<1>3. link' = Tail(link) => DiskFits'
  BY <1>2 DEF Agreed, DiskFits
<1> QED
  BY <1>1, <1>2, <1>3

LEMMA MapGotAgreed ==
  ASSUME Owned, Agreed, link # <<>>, NEW c, c = Head(link), MapGot(c)
  PROVE  Agreed'
<1> DEFINE m == c.name
           q == Tail(link)
           get == Call("getTxt", c.name, disk[c.name], "load")
<1>1. /\ m \in Map /\ q \in Seq(AnyCall) /\ CallsFit(q) /\ InTurn(q) /\ disk[m] \in DocOf(m)
  BY Served
<1>2. c.op = "getMap" /\ c.op \in Loads /\ disk' = disk
  BY DEF MapGot, Loads
<1>3. /\ \A i \in DOMAIN q : StillThere(disk, q[i])
      /\ \A n \in Map : \A v : \A op \in {"putMap", "putTxt"} :
           Ends(link, disk[n], op, n, v) => Ends(q, disk[n], op, n, v)
      /\ link' = q => DiskFits'
  BY <1>2, GotKeeps
<1>4. Stores(q, "putMap", m) = {}
  BY <1>2, NoneBehind
<1>5. CASE disk[m].map[2] = 0
  <2> DEFINE table == IF disk[m].map = NoFile THEN NoTable ELSE Empty(m)
  <2>1. link' = q /\ docs' = <<EmptyDoc(m)>> /\ cur' = 1 /\ original' = table /\ name' = m
    BY <1>5 DEF MapGot, Answered, Reset
  <2>2. DocsFit'
    BY <2>1 DEF DocsFit, Fits, FitsMap, EmptyDoc, Empty
  <2>3. AllStillThere'
    BY <1>2, <1>3, <2>1 DEF AllStillThere
  <2>4. disk[m].map # NoFile => disk[m].map = <<m, 0, Empty(m)>>
    BY <1>1, <1>5 DEF Agreed, DiskFits, FitsMap
  <2>5. TxtKnown'
    <3>1. CASE disk[m].map = NoFile
      BY <2>1, <3>1 DEF TxtKnown
    <3>2. CASE disk[m].map # NoFile
      <4>1. Ends(q, disk[m], "putTxt", m, Empty(m))
        BY <1>1, <1>3, <2>4, <3>2 DEF Agreed, DiskFits
      <4>2. original' = Empty(m) /\ Empty(m)[1] = m
        BY <2>1, <3>2 DEF Empty
      <4> QED
        BY <1>1, <1>2, <2>1, <4>1, <4>2 DEF TxtKnown
    <3> QED
      BY <3>1, <3>2
  <2>6. ShownEnds'
    <3>1. Shown' = EmptyDoc(m) /\ EmptyDoc(m).map = <<m, 0, Empty(m)>>
      BY <2>1 DEF Shown, EmptyDoc
    <3>2. Ends(q, disk[m], "putMap", m, disk[m].map)
      BY <1>4 DEF Ends, Part
    <3> QED
      BY <1>2, <2>1, <2>4, <3>1, <3>2 DEF ShownEnds
  <2> QED
    BY <1>1, <1>3, <2>1, <2>2, <2>3, <2>5, <2>6 DEF Agreed, MapKnown
<1>6. CASE disk[m].map[2] # 0
  <2>1. link' = Append(q, get) /\ UNCHANGED <<docs, cur, original, name>>
    BY <1>6 DEF MapGot, AnsweredSending
  <2>2. get \in AnyCall /\ get.op = "getTxt" /\ get.name = m /\ get.doc = disk[m]
    BY <1>1 DEF Call, AnyCall
  <2> HIDE DEF get
  <2>3. DocsFit'
    BY <2>1 DEF Agreed, DocsFit
  <2>4. CallsFit(link')
    BY <1>1, <2>1, <2>2, Appended DEF CallsFit, Loads
  <2>5. InTurn(link')
    <3>1. \A i \in DOMAIN q : q[i].name = m => q[i].op # "putMap"
      BY <1>4 DEF Stores
    <3> QED
      BY <1>1, <2>1, <2>2, <3>1, TurnAppend
  <2>6. AllStillThere'
    <3>1. StillThere(disk, get)
      BY <1>6, <2>2 DEF StillThere
    <3>2. \A i \in DOMAIN link' : (i \in DOMAIN q /\ link'[i] = q[i]) \/ link'[i] = get
      BY <1>1, <2>1, <2>2, Appended
    <3> QED
      BY <1>2, <1>3, <3>1, <3>2 DEF AllStillThere
  <2>7. \A n \in Map : \A v : Ends(link, disk[n], "putTxt", n, v)
          => Ends(link', disk[n], "putTxt", n, v)
    BY <1>1, <1>3, <2>1, <2>2, EndsAppend
  <2>8. TxtKnown' /\ DiskFits'
    BY <1>2, <2>1, <2>7 DEF Agreed, TxtKnown, DiskFits
  <2>9. OnLoad'
    BY <1>1, <2>1, <2>2, Appended DEF OnLoad, Loads
  <2> QED
    BY <2>3, <2>4, <2>5, <2>6, <2>8, <2>9 DEF Agreed, MapKnown
<1> QED
  BY <1>5, <1>6

LEMMA TxtGotAgreed ==
  ASSUME Owned, Agreed, link # <<>>, NEW c, c = Head(link), TxtGot(c)
  PROVE  Agreed'
<1> DEFINE m == c.name
           q == Tail(link)
           s == disk[m].str
           d == [map |-> c.doc.map, str |-> s]
<1>1. m \in Map /\ q \in Seq(AnyCall) /\ CallsFit(q) /\ InTurn(q)
  BY Served
<1>2. c.op = "getTxt" /\ c.op \in Loads /\ disk' = disk /\ link' = q
  BY DEF TxtGot, Answered, Loads
<1>3. /\ \A i \in DOMAIN q : StillThere(disk, q[i])
      /\ DiskFits'
  BY <1>2, GotKeeps
<1>4. docs' = <<d>> /\ cur' = 1 /\ original' = s /\ name' = m
  BY DEF TxtGot, Reset
<1>5. /\ Stores(q, "putMap", m) = {} /\ Stores(q, "putTxt", m) = {}
      /\ Stores(link, "putTxt", m) = {}
  BY <1>2, NoneBehind
<1>6. c.doc.map = disk[m].map /\ disk[m].map[2] # 0
  <2>1. link \in Seq(AnyCall) /\ c = link[1] /\ 1 \in DOMAIN link
    BY Tailed DEF Owned
  <2> QED
    BY <1>2, <2>1 DEF Agreed, AllStillThere, StillThere
<1>7. Fits(m, d)
  <2>1. disk[m].map # NoFile
    BY <1>6 DEF NoFile
  <2>2. FitsMap(m, disk[m].map) /\ Ends(link, disk[m], "putTxt", m, disk[m].map[3]) /\ s[1] = m
    BY <1>1, <2>1 DEF Agreed, DiskFits
  <2>3. disk[m].map[3] = s
    BY <1>5, <2>2 DEF Ends, Part
  <2> HIDE DEF s
  <2> QED
    BY <1>6, <2>2, <2>3 DEF Fits
<1>8. DocsFit'
  <2> HIDE DEF d
  <2> QED
    BY <1>4, <1>7 DEF DocsFit
<1>9. AllStillThere'
  BY <1>2, <1>3 DEF AllStillThere
<1>10. TxtKnown'
  <2>1. s[1] = m
    BY <1>7 DEF Fits
  <2>2. Ends(q, disk[m], "putTxt", m, s)
    BY <1>5 DEF Ends, Part
  <2> HIDE DEF s
  <2> QED
    BY <1>1, <1>2, <1>4, <2>1, <2>2 DEF TxtKnown
<1>11. ShownEnds'
  <2>1. Shown'.map = disk[m].map
    BY <1>4, <1>6 DEF Shown
  <2>2. Ends(q, disk[m], "putMap", m, disk[m].map)
    BY <1>5 DEF Ends, Part
  <2> QED
    BY <1>2, <1>4, <2>1, <2>2 DEF ShownEnds
<1> QED
  BY <1>1, <1>2, <1>3, <1>8, <1>9, <1>10, <1>11 DEF Agreed, MapKnown

LEMMA NextKept == Kept /\ [Next]_vars => Kept'
<1> SUFFICES ASSUME Kept, [Next]_vars, ~failed', ~raced' PROVE Agreed'
  BY NextOwned DEF Kept
<1>1. Owned
  BY DEF Kept
<1>2. ASSUME NEW b \in BOOLEAN, Edit(b) PROVE Agreed'
  <2>1. ~failed /\ ~raced
    BY <1>2 DEF Edit
  <2> QED
    BY <1>1, <1>2, <2>1, EditAgreed DEF Kept
<1>3. CASE Undo \/ Redo \/ Save \/ Teleport \/ Leave \/ Enter \/ Revert \/ \E m \in Map : Open(m)
  <2>1. ~failed /\ ~raced
    <3>1. ASSUME NEW by, SaveMap(by) PROVE ~raced
      BY <3>1 DEF SaveMap
    <3>2. ASSUME NEW k, Show(k) PROVE ~failed /\ ~raced
      BY <3>2 DEF Show
    <3>3. Undo \/ Redo => ~failed /\ ~raced
      BY <3>2 DEF Undo, Redo
    <3>4. Save \/ Teleport \/ Leave => ~failed /\ ~raced
      BY <3>1 DEF Save, Teleport, Leave
    <3>5. Enter \/ Revert \/ (\E m \in Map : Open(m)) => ~failed /\ ~raced
      BY DEF Enter, Revert, Open, history
    <3> QED
      BY <1>3, <3>3, <3>4, <3>5
  <2> QED
    BY <1>1, <1>3, <2>1, UserAgreed DEF Kept
<1>4. CASE Answer
  <2> DEFINE c == Head(link)
  <2>1. /\ link # <<>>
        /\ MapPut(c) \/ TxtPut(c) \/ MapGot(c) \/ TxtGot(c) \/ PutFails(c) \/ GetFails(c)
    BY <1>4 DEF Answer
  <2>2. ~(PutFails(c) \/ GetFails(c))
    BY DEF PutFails, GetFails
  <2>3. ~failed /\ ~raced
    BY <2>1, <2>2 DEF MapPut, TxtPut, MapGot, TxtGot, history
  <2> QED
    BY <1>1, <2>1, <2>2, <2>3, MapPutAgreed, TxtPutAgreed, MapGotAgreed, TxtGotAgreed DEF Kept
<1>5. CASE UNCHANGED vars
  <2>1. ~failed /\ ~raced
    BY <1>5 DEF vars
  <2>2. Agreed
    BY <2>1 DEF Kept
  <2>3. DocsFit' /\ MapKnown'
    BY <1>5, <2>2 DEF vars, Agreed, DocsFit, MapKnown, OnLoad, ShownEnds, Shown
  <2>4. UNCHANGED <<disk, link, original>>
    BY <1>5 DEF vars
  <2> QED
    BY <2>2, <2>3, <2>4, StillKeeps DEF Agreed
<1> QED
  BY <1>2, <1>3, <1>4, <1>5 DEF Next

LEMMA QuietEnds ==
  ASSUME Quiet, NEW d, NEW op, NEW m, NEW v, Ends(link, d, op, m, v)
  PROVE  Part(op, d) = v
<1>1. Stores(link, op, m) = {}
  BY DEF Quiet, Stores
<1> QED
  BY <1>1 DEF Ends

\* When no call is under way, a map and its strings on the disk are of one document:
\* saveMap sends the two apart and the strings only if they are not those it takes
\* for stored (MapEditor.vue:751).  Calls that fail and saves of a map that is being
\* loaded are excused.
THEOREM MapAndStringsAgree == Spec => []OneVersion
<1>1. Kept => OneVersion
  <2> SUFFICES ASSUME Kept, Quiet, ~failed, ~raced, NEW m \in Map, disk[m].map # NoFile
               PROVE  disk[m].map[3] = disk[m].str
    BY DEF OneVersion
  <2>1. Ends(link, disk[m], "putTxt", m, disk[m].map[3])
    BY DEF Kept, Agreed, DiskFits
  <2> QED
    BY <2>1, QuietEnds DEF Part
<1> QED
  BY <1>1, InitKept, NextKept, PTL DEF Spec

\* When no call is under way, a shown map that differs from the one on the disk is
\* marked as unsaved, though the mark goes before its save has ended (MapEditor.vue:806);
\* the exceptions are those UnsavedIsMarked names.
THEOREM UnsavedMapIsMarked == Spec => []UnsavedIsMarked
<1>1. Kept => UnsavedIsMarked
  <2> SUFFICES ASSUME Kept, Quiet, active, name # NoMap, ~failed, ~raced, ~changed, ~silent
               PROVE  \/ Shown.map = disk[name].map
                      \/ Shown = EmptyDoc(name) /\ disk[name].map = NoFile
    BY DEF UnsavedIsMarked
  <2>1. ~OnLoad
    BY DEF Quiet, OnLoad
  <2>2. ShownEnds
    BY <2>1 DEF Kept, Agreed, MapKnown
  <2> QED
    BY <2>2, QuietEnds DEF ShownEnds, Part
<1> QED
  BY <1>1, InitKept, NextKept, PTL DEF Spec
=============================================================================
