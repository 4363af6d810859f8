-------------------------- MODULE DDLArchive_proofs --------------------------
(***************************************************************************)
(* Proofs about DDLArchive, for every set of names, contents and groups,   *)
(* every reserve and any combination of faults.                            *)
(***************************************************************************)
EXTENDS DDLArchiveProps, SequenceTheorems, FiniteSetTheorems,
        WellFoundedInduction, TLAPS

(***************************************************************************)
(* What each write makes of an archive.                                    *)
(***************************************************************************)
LEMMA Put1Facts ==
  ASSUME NEW a \in Archive, NEW b \in Block
  PROVE  /\ Put1(a, b) \in Archive
         /\ Put1(a, b).dir = a.dir
         /\ Put1(a, b).log = Append(a.log, b)
<1>1. Append(a.log, b) \in Seq(Block)  BY DEF Archive
<1> QED  BY <1>1 DEF Put1, Archive

LEMMA SetEntryFacts ==
  ASSUME NEW a \in Archive, NEW i, NEW n \in Name \cup {NoName}, NEW v,
         NEW b, b = SetEntry(a, i, n, v)
  PROVE  /\ b \in Archive
         /\ b.log = a.log
         /\ Len(b.dir) = Len(a.dir) /\ DOMAIN b.dir = DOMAIN a.dir
         /\ \A j \in DOMAIN a.dir :
              /\ b.dir[j].name = IF j = i THEN n ELSE a.dir[j].name
              /\ b.dir[j].off = IF j # i THEN a.dir[j].off
                                ELSE IF v = EmptyVal THEN 0 ELSE Eof(a)
              /\ b.dir[j].grp = a.dir[j].grp
<1> DEFINE upd(e) == [name |-> n, grp |-> e.grp,
                      off |-> IF v = EmptyVal THEN 0 ELSE Eof(a)]
           d == [a.dir EXCEPT ![i] = upd(@)]
<1>1. Eof(a) \in Nat  BY DEF Eof, Archive
<1>2. \A e \in Entry : /\ upd(e) \in Entry
                       /\ upd(e).name = n /\ upd(e).grp = e.grp
                       /\ upd(e).off = IF v = EmptyVal THEN 0 ELSE Eof(a)
  BY <1>1 DEF Entry
<1>3. PICK m \in Nat : a.dir \in [1..m -> Entry]  BY SeqDef DEF Archive
<1> HIDE DEF upd
<1>4. d \in [1..m -> Entry]  BY <1>2, <1>3
<1>5. d \in Seq(Entry)  BY <1>4, SeqDef
<1>6. SetEntry(a, i, n, v) = [a EXCEPT !.dir = d]  BY DEF SetEntry, upd
<1>7. b \in Archive /\ b.dir = d /\ b.log = a.log
  BY <1>5, <1>6 DEF Archive
<1>8. Len(d) = m /\ Len(a.dir) = m  BY <1>3, <1>4, <1>5, LenProperties
<1>9. \A j \in 1..m : d[j] = IF j = i THEN upd(a.dir[j]) ELSE a.dir[j]
  BY <1>3
<1> HIDE DEF d
<1>10. \A j \in 1..m :
         /\ d[j].name = IF j = i THEN n ELSE a.dir[j].name
         /\ d[j].off = IF j # i THEN a.dir[j].off
                       ELSE IF v = EmptyVal THEN 0 ELSE Eof(a)
         /\ d[j].grp = a.dir[j].grp
  BY <1>2, <1>3, <1>9
<1> QED  BY <1>3, <1>4, <1>7, <1>8, <1>10

LEMMA SetGroupFacts ==
  ASSUME NEW a \in Archive, NEW i, NEW g \in Group,
         NEW b, b = SetGroup(a, i, g)
  PROVE  /\ b \in Archive
         /\ b.log = a.log
         /\ Len(b.dir) = Len(a.dir) /\ DOMAIN b.dir = DOMAIN a.dir
         /\ \A j \in DOMAIN a.dir :
              /\ b.dir[j].name = a.dir[j].name
              /\ b.dir[j].off = a.dir[j].off
              /\ b.dir[j].grp = IF j = i /\ g # 0 THEN g ELSE a.dir[j].grp
<1>1. CASE g = 0  BY <1>1 DEF SetGroup
<1>2. CASE g # 0
  <2> DEFINE upd(e) == [e EXCEPT !.grp = g]
             d == [a.dir EXCEPT ![i] = upd(@)]
  <2>1. \A e \in Entry : /\ upd(e) \in Entry
                         /\ upd(e).name = e.name /\ upd(e).off = e.off
                         /\ upd(e).grp = g
    BY DEF Entry
  <2>2. PICK m \in Nat : a.dir \in [1..m -> Entry]  BY SeqDef DEF Archive
  <2> HIDE DEF upd
  <2>3. d \in [1..m -> Entry]  BY <2>1, <2>2
  <2>4. d \in Seq(Entry)  BY <2>3, SeqDef
  <2>5. SetGroup(a, i, g) = [a EXCEPT !.dir = d]  BY <1>2 DEF SetGroup, upd
  <2>6. b \in Archive /\ b.dir = d /\ b.log = a.log
    BY <2>4, <2>5 DEF Archive
  <2>7. Len(d) = m /\ Len(a.dir) = m  BY <2>2, <2>3, <2>4, LenProperties
  <2>8. \A j \in 1..m : d[j] = IF j = i THEN upd(a.dir[j]) ELSE a.dir[j]
    BY <2>2
  <2> HIDE DEF d
  <2>9. \A j \in 1..m : /\ d[j].name = a.dir[j].name
                        /\ d[j].off = a.dir[j].off
                        /\ d[j].grp = IF j = i THEN g ELSE a.dir[j].grp
    BY <2>1, <2>2, <2>8
  <2> QED  BY <1>2, <2>2, <2>3, <2>6, <2>7, <2>9
<1> QED  BY <1>1, <1>2

LEMMA BlockTypes ==
  /\ Torn \in Block
  /\ \A p \in Nat : Link(p) \in Block
  /\ \A v \in Value \cup {Damaged} : Data(v) \in Block
BY DEF Torn, Link, Data, Block

LEMMA NewArchiveFacts ==
  ASSUME NEW n \in Nat
  PROVE  /\ NewArchive(n) \in Archive
         /\ NewArchive(n).dir = [i \in 1..n |-> Free]
         /\ NewArchive(n).log = <<>>
<1>1. Free \in Entry  BY GroupAssumption DEF Free, Entry
<1>2. [i \in 1..n |-> Free] \in Seq(Entry)  BY <1>1, SeqDef
<1> QED  BY <1>2, EmptySeq DEF NewArchive, Archive

LEMMA LiveFinite ==
  ASSUME NEW a \in Archive
  PROVE  IsFiniteSet(Live(a)) /\ Cardinality(Live(a)) \in Nat
<1>1. Live(a) \subseteq 1..Len(a.dir) /\ Len(a.dir) \in Nat
  BY LenProperties DEF Live, Archive
<1>2. IsFiniteSet(1..Len(a.dir))  BY <1>1, FS_Interval
<1>3. IsFiniteSet(Live(a))  BY <1>1, <1>2, FS_Subset
<1> QED  BY <1>3, FS_CardinalityType

LEMMA ReadType ==
  ASSUME NEW a \in Archive, NEW o \in Nat
  PROVE  ReadAt(a, o) \in Value \cup {Damaged}
<1>1. \A i \in DOMAIN a.log : a.log[i] \in Block  BY DEF Archive
<1>2. \A b \in Block : b.val \in Value \cup {Damaged}  BY DEF Block
<1> QED  BY <1>1, <1>2, ValueAssumption DEF ReadAt

LEMMA AddDataFacts ==
  ASSUME NEW a \in Archive, NEW v \in Value \cup {Damaged}
  PROVE  AddData(a, v) \in Archive /\ AddData(a, v).dir = a.dir
BY Put1Facts, BlockTypes DEF AddData

LEMMA CutShortFacts ==
  ASSUME NEW a \in Archive, NEW b \in CutShort(a)
  PROVE  b \in Archive /\ b.dir = a.dir
BY Put1Facts, BlockTypes DEF CutShort

LEMMA NatLeast ==
  ASSUME NEW S, S \subseteq Nat, S # {}
  PROVE  \E m \in S : \A j \in S : m <= j
<1>1. PICK m \in S : \A j \in S : ~ (<<j, m>> \in OpToRel(<, Nat))
  BY NatLessThanWellFounded, WFMin
<1>2. ASSUME NEW j \in S  PROVE  m <= j
  <2>1. j \in Nat /\ m \in Nat  OBVIOUS
  <2>2. <<j, m>> \in Nat \X Nat /\ <<j, m>>[1] = j /\ <<j, m>>[2] = m  BY <2>1
  <2>3. ~ (j < m)  BY <1>1, <2>2 DEF OpToRel
  <2> QED  BY <2>1, <2>3
<1> QED  BY <1>2

\* find_file answers the first entry of that name, or 0
LEMMA FindFacts ==
  ASSUME NEW a \in Archive, NEW n
  PROVE  /\ Find(a, n) \in Nat
         /\ Find(a, n) = 0 <=> \A i \in DOMAIN a.dir : a.dir[i].name # n
         /\ Find(a, n) # 0 => /\ Find(a, n) \in DOMAIN a.dir
                              /\ a.dir[Find(a, n)].name = n
                              /\ \A i \in DOMAIN a.dir :
                                   a.dir[i].name = n => Find(a, n) <= i
<1>1. DOMAIN a.dir = 1..Len(a.dir) /\ Len(a.dir) \in Nat
  BY LenProperties DEF Archive
<1>2. Slots(a, n) \subseteq Nat \ {0}  BY <1>1 DEF Slots
<1>3. CASE Slots(a, n) = {}
  BY <1>3 DEF Find, Slots
<1>4. CASE Slots(a, n) # {}
  <2>1. PICK m \in Slots(a, n) : \A j \in Slots(a, n) : m <= j
    BY <1>2, <1>4, NatLeast
  <2>2. FirstOf(Slots(a, n)) \in Slots(a, n)
          /\ \A j \in Slots(a, n) : FirstOf(Slots(a, n)) <= j
    BY <2>1 DEF FirstOf
  <2> QED  BY <1>2, <1>4, <2>2 DEF Find, Slots
<1> QED  BY <1>3, <1>4
-----------------------------------------------------------------------------
(***************************************************************************)
(* No write gives a name a second entry.                                   *)
(***************************************************************************)
LEMMA ArchiveIsArchive ==
  /\ \A a \in Archive : IsArchive(a)
  /\ ~IsArchive(Absent) /\ ~IsArchive(Blank)
  /\ \A a \in Disk : IsArchive(a) => a \in Archive
BY DiskAssumption DEF IsArchive, Disk

LEMMA SameDir ==
  ASSUME NEW a \in Archive, NEW b \in Archive, b.dir = a.dir
  PROVE  Live(b) = Live(a) /\ (OneEntryEach(a) => OneEntryEach(b))
BY ArchiveIsArchive DEF Live, OneEntryEach

LEMMA SetEntryUnique ==
  ASSUME NEW a \in Archive, NEW i, NEW n \in Name \cup {NoName}, NEW v,
         OneEntryEach(a),
         n # NoName => \A j \in DOMAIN a.dir : a.dir[j].name = n => j = i
  PROVE  OneEntryEach(SetEntry(a, i, n, v))
<1> DEFINE b == SetEntry(a, i, n, v)
<1>1. \A j, l \in Live(a) : a.dir[j].name = a.dir[l].name => j = l
  BY ArchiveIsArchive DEF OneEntryEach
<1>2. DOMAIN b.dir = DOMAIN a.dir
        /\ \A j \in DOMAIN a.dir : b.dir[j].name = IF j = i THEN n ELSE a.dir[j].name
  BY SetEntryFacts
<1> HIDE DEF b
<1>3. OneEntryEach(b)  BY <1>1, <1>2 DEF OneEntryEach, Live
<1> QED  BY <1>3 DEF b

LEMMA SetGroupUnique ==
  ASSUME NEW a \in Archive, NEW i, NEW g \in Group, OneEntryEach(a)
  PROVE  OneEntryEach(SetGroup(a, i, g)) /\ Live(SetGroup(a, i, g)) = Live(a)
<1> DEFINE b == SetGroup(a, i, g)
<1>1. \A j, l \in Live(a) : a.dir[j].name = a.dir[l].name => j = l
  BY ArchiveIsArchive DEF OneEntryEach
<1>2. DOMAIN b.dir = DOMAIN a.dir
        /\ \A j \in DOMAIN a.dir : b.dir[j].name = a.dir[j].name
  BY SetGroupFacts
<1> HIDE DEF b
<1>3. OneEntryEach(b) /\ Live(b) = Live(a)
  BY <1>1, <1>2 DEF OneEntryEach, Live
<1> QED  BY <1>3 DEF b

LEMMA NewArchiveUnique ==
  ASSUME NEW n \in Nat
  PROVE  OneEntryEach(NewArchive(n)) /\ Live(NewArchive(n)) = {}
<1> DEFINE b == NewArchive(n)
<1>0. b.dir = [i \in 1..n |-> Free]  BY NewArchiveFacts
<1>1. \A i \in DOMAIN b.dir : b.dir[i].name = NoName
  BY <1>0 DEF Free
<1> HIDE DEF b
<1>2. Live(b) = {}  BY <1>1 DEF Live
<1>3. OneEntryEach(b)  BY <1>2 DEF OneEntryEach
<1> QED  BY <1>2, <1>3 DEF b

(***************************************************************************)
(* An archive with one entry per name keeps that through all that a copy   *)
(* step writes: the entry, the content (whole or cut short), the group.    *)
(***************************************************************************)
LEMMA CopyEntry ==
  ASSUME NEW a \in Archive, OneEntryEach(a), NEW i, NEW n \in Name, NEW v,
         NEW names, n \notin names,
         \A j \in Live(a) : a.dir[j].name \in names
  PROVE  LET b == SetEntry(a, i, n, v)
         IN  /\ b \in Archive /\ OneEntryEach(b)
             /\ \A j \in Live(b) : b.dir[j].name \in names \cup {n}
<1> DEFINE b == SetEntry(a, i, n, v)
<1>1. \A j \in DOMAIN a.dir : a.dir[j].name # n
  BY NameAssumption DEF Live
<1>2. b \in Archive /\ DOMAIN b.dir = DOMAIN a.dir
        /\ \A j \in DOMAIN a.dir : b.dir[j].name = IF j = i THEN n ELSE a.dir[j].name
  BY SetEntryFacts
<1>3. OneEntryEach(b)  BY <1>1, SetEntryUnique
<1> HIDE DEF b
<1>4. \A j \in Live(b) : b.dir[j].name \in names \cup {n}
  BY <1>2 DEF Live
<1> QED  BY <1>2, <1>3, <1>4 DEF b
-----------------------------------------------------------------------------
(***************************************************************************)
(* IInv is inductive.                                                      *)
(***************************************************************************)
LEMMA InitIInv == Init => IInv
<1> SUFFICES ASSUME Init  PROVE IInv
  OBVIOUS
<1>1. NoArg \in Arg  BY ValueAssumption, GroupAssumption DEF NoArg, Arg
<1>2. TypeOK  BY <1>1 DEF Init, TypeOK, Disk
<1>3. Shape /\ SlotIsOwn /\ CopyNames  BY DEF Init, Shape, SlotIsOwn, CopyNames
<1>4. UniqueNames  BY ArchiveIsArchive DEF Init, UniqueNames, OneEntryEach
<1> QED  BY <1>2, <1>3, <1>4 DEF IInv

\* an operation that ends, normally or not, leaves nothing behind it
LEMMA IdleIInv ==
  ASSUME IInv, Idle, main' \in Disk, OneEntryEach(main)', UNCHANGED <<bak, new>>
  PROVE  IInv'
<1>1. NoArg \in Arg  BY ValueAssumption, GroupAssumption DEF NoArg, Arg
<1>2. TypeOK'  BY <1>1 DEF IInv, TypeOK, Idle, Disk
<1>3. Shape' /\ SlotIsOwn' /\ CopyNames'  BY DEF Idle, Shape, SlotIsOwn, CopyNames
<1>4. UniqueNames'  BY DEF IInv, UniqueNames, OneEntryEach, IsArchive, Live
<1> QED  BY <1>2, <1>3, <1>4 DEF IInv

LEMMA PutIInv ==
  ASSUME IInv,
         \/ \E n \in Name, v \in Value, g \in Group : PutCall(n, v, g)
         \/ PutOpen \/ PutFormat \/ PutLink \/ PutFull \/ PutEntry \/ PutPayload
         \/ PutGroup \/ DiskFullInPut
  PROVE  IInv'
<1> USE DEF IInv
<1>1. CASE \E n \in Name, v \in Value, g \in Group : PutCall(n, v, g)
  <2>1. arg' \in Arg /\ arg'.name \in Name  BY <1>1 DEF PutCall, Arg
  <2>2. TypeOK'  BY <1>1, <2>1 DEF PutCall, TypeOK, Disk
  <2>3. Shape' /\ SlotIsOwn' /\ CopyNames'
    BY <1>1, <2>1 DEF PutCall, Shape, SlotIsOwn, CopyNames
  <2>4. UniqueNames'  BY <1>1 DEF PutCall, UniqueNames, OneEntryEach, IsArchive, Live
  <2> QED  BY <2>2, <2>3, <2>4
<1>2. CASE PutOpen
  <2>1. main' \in Disk /\ OneEntryEach(main)' /\ (pc' = "find" => main' \in Archive)
    BY <1>2, ArchiveIsArchive
    DEF PutOpen, TypeOK, UniqueNames, OneEntryEach, IsArchive, Live, Disk
  <2>2. TypeOK'  BY <1>2, <2>1 DEF PutOpen, TypeOK, Disk
  <2>3. Shape' /\ SlotIsOwn' /\ CopyNames'
    BY <1>2, <2>1 DEF PutOpen, Shape, SlotIsOwn, CopyNames
  <2>4. UniqueNames'
    BY <1>2, <2>1 DEF PutOpen, UniqueNames, OneEntryEach, IsArchive, Live
  <2> QED  BY <2>2, <2>3, <2>4
<1>3. CASE PutFormat
  <2>1. main' \in Archive /\ OneEntryEach(main')
    BY <1>3, BoundAssumption, NewArchiveFacts, NewArchiveUnique DEF PutFormat
  <2>2. TypeOK'  BY <1>3, <2>1 DEF PutFormat, TypeOK, Disk
  <2>3. Shape' /\ SlotIsOwn' /\ CopyNames'
    BY <1>3, <2>1 DEF PutFormat, Shape, SlotIsOwn, CopyNames
  <2>4. UniqueNames'
    BY <1>3, <2>1 DEF PutFormat, UniqueNames, OneEntryEach, IsArchive, Live
  <2> QED  BY <2>2, <2>3, <2>4
<1>4. CASE PutFull
  <2>1. TypeOK' /\ Shape' /\ SlotIsOwn' /\ CopyNames'
    BY <1>4 DEF PutFull, TypeOK, Disk, Shape, SlotIsOwn, CopyNames
  <2>2. UniqueNames'  BY <1>4 DEF PutFull, UniqueNames, OneEntryEach, IsArchive, Live
  <2> QED  BY <2>1, <2>2
<1>5. CASE PutLink
  <2>1. main \in Archive /\ arg.name \in Name /\ pc = "find"
    BY <1>5 DEF PutLink, Shape
  <2>2. /\ slot' \in DOMAIN main.dir
        /\ \A i \in DOMAIN main.dir : main.dir[i].name = arg.name => i = slot'
    <3>1. CASE Find(main, arg.name) # 0
      <4>1. slot' = Find(main, arg.name)  BY <1>5, <3>1 DEF PutLink, SlotFor
      <4>2. slot' \in Live(main) /\ main.dir[slot'].name = arg.name
        BY <2>1, <3>1, <4>1, FindFacts, NameAssumption DEF Live
      <4>3. \A i, j \in Live(main) : main.dir[i].name = main.dir[j].name => i = j
        BY <2>1, ArchiveIsArchive DEF UniqueNames, OneEntryEach
      <4> QED  BY <2>1, <4>2, <4>3, NameAssumption DEF Live
    <3>2. CASE Find(main, arg.name) = 0
      <4>1. slot' = Find(main, NoName) /\ slot' # 0  BY <1>5, <3>2 DEF PutLink, SlotFor
      <4> QED  BY <2>1, <3>2, <4>1, FindFacts
    <3> QED  BY <3>1, <3>2
  <2>3. slot' \in Nat /\ main.dir[slot'].off \in Nat
    <3>1. main.dir \in Seq(Entry)  BY <2>1 DEF Archive
    <3>2. slot' \in 1..Len(main.dir) /\ main.dir[slot'] \in Entry  BY <2>2, <3>1
    <3> QED  BY <3>1, <3>2 DEF Entry
  <2>4. /\ main' \in Archive /\ main'.dir = main.dir
        /\ OneEntryEach(main) => OneEntryEach(main')
    BY <1>5, <2>1, <2>3, BlockTypes, Put1Facts, SameDir DEF PutLink
  <2>5. before' \in File \cup {NoFile}
    <3>1. CASE Find(main, arg.name) = 0  BY <1>5, <3>1 DEF PutLink, Get
    <3>2. CASE Find(main, arg.name) # 0
      <4> DEFINE e == main.dir[Find(main, arg.name)]
      <4>1. e \in Entry  BY <2>1, <3>2, FindFacts DEF Archive
      <4>2. ReadAt(main, e.off) \in Value \cup {Damaged} /\ e.grp \in Group
        BY <2>1, <4>1, ReadType DEF Entry
      <4>3. before' = [val |-> ReadAt(main, e.off), grp |-> e.grp]
        BY <1>5, <3>2 DEF PutLink, Get
      <4> HIDE DEF e
      <4> QED  BY <4>2, <4>3 DEF File
    <3> QED  BY <3>1, <3>2
  <2>6. TypeOK'  BY <1>5, <2>3, <2>4, <2>5 DEF PutLink, TypeOK, Disk
  <2>7. Shape' /\ CopyNames'  BY <1>5, <2>1, <2>4 DEF PutLink, Shape, CopyNames
  <2>8. SlotIsOwn'  BY <1>5, <2>2, <2>4 DEF PutLink, SlotIsOwn
  <2>9. UniqueNames'
    BY <1>5, <2>4 DEF PutLink, UniqueNames, OneEntryEach, IsArchive, Live
  <2> QED  BY <2>6, <2>7, <2>8, <2>9
<1>6. CASE PutEntry
  <2>1. main \in Archive /\ arg.name \in Name /\ slot \in DOMAIN main.dir
    BY <1>6 DEF PutEntry, Shape, SlotIsOwn
  <2>2. main' \in Archive /\ DOMAIN main'.dir = DOMAIN main.dir
    BY <1>6, <2>1, SetEntryFacts DEF PutEntry
  <2>3. OneEntryEach(main')
    BY <1>6, <2>1, SetEntryUnique DEF PutEntry, SlotIsOwn, UniqueNames
  <2>4. TypeOK'  BY <1>6, <2>2 DEF PutEntry, TypeOK, Disk
  <2>5. Shape' /\ SlotIsOwn' /\ CopyNames'
    BY <1>6, <2>1, <2>2 DEF PutEntry, Shape, SlotIsOwn, CopyNames
  <2>6. UniqueNames'
    BY <1>6, <2>3 DEF PutEntry, UniqueNames, OneEntryEach, IsArchive, Live
  <2> QED  BY <2>4, <2>5, <2>6
<1>7. CASE PutPayload \/ DiskFullInPut
  <2>1. main \in Archive /\ arg.name \in Name /\ slot \in DOMAIN main.dir /\ arg.val \in Value
    BY <1>7 DEF PutPayload, DiskFullInPut, Shape, SlotIsOwn, TypeOK, Arg
  <2>2. main' \in Archive /\ main'.dir = main.dir
    BY <1>7, <2>1, AddDataFacts, CutShortFacts DEF PutPayload, DiskFullInPut
  <2>3. OneEntryEach(main')  BY <2>1, <2>2, SameDir DEF UniqueNames
  <2>4. TypeOK'  BY <1>7, <2>2 DEF PutPayload, DiskFullInPut, TypeOK, Disk
  <2>5. Shape' /\ SlotIsOwn' /\ CopyNames'
    BY <1>7, <2>1, <2>2 DEF PutPayload, DiskFullInPut, Shape, SlotIsOwn, CopyNames
  <2>6. UniqueNames'
    BY <1>7, <2>3 DEF PutPayload, DiskFullInPut, UniqueNames, OneEntryEach, IsArchive, Live
  <2> QED  BY <2>4, <2>5, <2>6
<1>8. CASE PutGroup
  <2>1. main \in Archive /\ arg.name \in Name /\ arg.grp \in Group
    BY <1>8 DEF PutGroup, Shape, TypeOK, Arg
  <2>2. main' \in Archive  BY <1>8, <2>1, SetGroupFacts DEF PutGroup
  <2>3. OneEntryEach(main')  BY <1>8, <2>1, SetGroupUnique DEF PutGroup, UniqueNames
  <2>4. TypeOK'  BY <1>8, <2>2 DEF PutGroup, TypeOK, Disk
  <2>5. Shape' /\ SlotIsOwn' /\ CopyNames'
    BY <1>8, <2>1, <2>2 DEF PutGroup, Shape, SlotIsOwn, CopyNames
  <2>6. UniqueNames'
    BY <1>8, <2>3 DEF PutGroup, UniqueNames, OneEntryEach, IsArchive, Live
  <2> QED  BY <2>4, <2>5, <2>6
<1> QED  BY <1>1, <1>2, <1>3, <1>4, <1>5, <1>6, <1>7, <1>8

\* erase frees the entry, which then has no name
LEMMA EraseIInv ==
  ASSUME IInv, NEW n \in Name, Erase(n)
  PROVE  IInv'
<1> USE DEF IInv
<1>1. main \in Archive /\ pc = "idle"
  BY ArchiveIsArchive DEF Erase, TypeOK
<1>2. main' \in Archive  BY <1>1, SetEntryFacts DEF Erase
<1>3. OneEntryEach(main')  BY <1>1, SetEntryUnique DEF Erase, UniqueNames
<1>4. TypeOK'  BY <1>2 DEF Erase, TypeOK, Disk
<1>5. Shape' /\ SlotIsOwn' /\ CopyNames'  BY <1>1 DEF Erase, Shape, SlotIsOwn, CopyNames
<1>6. UniqueNames'  BY <1>3 DEF Erase, UniqueNames, OneEntryEach, IsArchive, Live
<1> QED  BY <1>4, <1>5, <1>6

LEMMA CompactIInv ==
  ASSUME IInv,
         \/ CompactCall \/ CompactCreate \/ CompactItem \/ DiskFullInCopy
         \/ CompactBackup \/ CompactSwap
  PROVE  IInv'
<1> USE DEF IInv
<1>1. CASE CompactCall
  <2>1. main \in Archive  BY <1>1, ArchiveIsArchive DEF CompactCall, TypeOK
  <2>2. TypeOK' /\ Shape' /\ SlotIsOwn' /\ CopyNames'
    BY <1>1, <2>1 DEF CompactCall, TypeOK, Disk, Shape, SlotIsOwn, CopyNames
  <2>3. UniqueNames'  BY <1>1 DEF CompactCall, UniqueNames, OneEntryEach, IsArchive, Live
  <2> QED  BY <2>2, <2>3
<1>2. CASE CompactCreate
  <2>1. main \in Archive  BY <1>2 DEF CompactCreate, Shape
  <2>2. Cardinality(Live(main)) + Reserve \in Nat
    BY <2>1, LiveFinite, BoundAssumption
  <2>3. new' \in Archive /\ OneEntryEach(new') /\ Live(new') = {}
    BY <1>2, <2>2, NewArchiveFacts, NewArchiveUnique DEF CompactCreate
  <2>4. TypeOK'  BY <1>2, <2>3 DEF CompactCreate, TypeOK, Disk
  <2>5. Shape' /\ SlotIsOwn'  BY <1>2, <2>1, <2>3 DEF CompactCreate, Shape, SlotIsOwn
  <2>6. CopyNames'  BY <1>2, <2>3 DEF CompactCreate, CopyNames, Live
  <2>7. UniqueNames'
    BY <1>2, <2>3 DEF CompactCreate, UniqueNames, OneEntryEach, IsArchive, Live
  <2> QED  BY <2>4, <2>5, <2>6, <2>7
<1>3. CASE CompactItem \/ DiskFullInCopy
  <2>1. main \in Archive /\ new \in Archive /\ pc = "copy" /\ k \in Nat
          /\ k \in DOMAIN main.dir
    BY <1>3 DEF CompactItem, DiskFullInCopy, Shape, TypeOK, Live
  <2> DEFINE names == {main.dir[j].name : j \in {i \in Live(main) : i < k}}
  <2>2. \A i \in Live(new) : new.dir[i].name \in names
    BY <2>1 DEF CopyNames
  <2>3. OneEntryEach(new) /\ \A i, j \in Live(main) :
                               main.dir[i].name = main.dir[j].name => i = j
    BY <2>1, ArchiveIsArchive DEF UniqueNames, OneEntryEach
  <2>4. /\ new' \in Archive /\ OneEntryEach(new')
        /\ \A i \in Live(new') : new'.dir[i].name \in
               names \cup (IF k \in Live(main) THEN {Source.name} ELSE {})
    <3>1. CASE k \notin Live(main)
      <4>1. new' = new  BY <1>3, <3>1 DEF CompactItem, DiskFullInCopy
      <4> QED  BY <2>1, <2>2, <2>3, <3>1, <4>1
    <3>2. CASE k \in Live(main)
      <4>1. Source \in Entry /\ Source.name \in Name
        <5>1. main.dir \in Seq(Entry)  BY <2>1 DEF Archive
        <5>2. Source \in Entry  BY <2>1, <5>1 DEF Source
        <5>3. Source.name # NoName  BY <3>2 DEF Source, Live
        <5> QED  BY <5>2, <5>3 DEF Entry
      <4>2. Source.off \in Nat /\ Source.grp \in Group  BY <4>1 DEF Entry
      <4>3. Source.name \notin names
        <5>1. ASSUME NEW j \in Live(main), j < k, main.dir[j].name = Source.name
              PROVE  FALSE
          <6>1. j = k  BY <2>3, <3>2, <5>1 DEF Source
          <6> QED  BY <2>1, <5>1, <6>1
        <5> QED  BY <5>1
      <4>4. PICK v \in Value \cup {Damaged} :
              LET a == SetEntry(new, Target, Source.name, v)
              IN  \/ new' = SetGroup(AddData(a, v), Target, Source.grp)
                  \/ new' \in CutShort(a)
        <5>1. CASE CompactItem
          BY <2>1, <3>2, <4>2, <5>1, ReadType DEF CompactItem, CopyAs
        <5>2. CASE DiskFullInCopy  BY <5>2 DEF DiskFullInCopy
        <5> QED  BY <1>3, <5>1, <5>2
      <4> DEFINE a == SetEntry(new, Target, Source.name, v)
      <4>5. /\ a \in Archive /\ OneEntryEach(a)
            /\ \A j \in Live(a) : a.dir[j].name \in names \cup {Source.name}
        <5> HIDE DEF names
        <5> QED  BY <2>1, <2>2, <2>3, <4>1, <4>3, CopyEntry
      <4> HIDE DEF a, names
      <4>6. PICK c \in Archive : /\ c.dir = a.dir
                                 /\ new' = c \/ new' = SetGroup(c, Target, Source.grp)
        <5>1. CASE new' = SetGroup(AddData(a, v), Target, Source.grp)
          BY <4>5, <5>1, AddDataFacts
        <5>2. CASE new' \in CutShort(a)  BY <4>5, <5>2, CutShortFacts
        <5> QED  BY <4>4, <5>1, <5>2 DEF a
      <4>7. OneEntryEach(c) /\ Live(c) = Live(a)  BY <4>5, <4>6, SameDir
      <4>8. CASE new' = c  BY <3>2, <4>5, <4>6, <4>7, <4>8
      <4>9. CASE new' = SetGroup(c, Target, Source.grp)
        <5>1. new' \in Archive /\ OneEntryEach(new') /\ Live(new') = Live(c)
          BY <4>2, <4>7, <4>9, SetGroupFacts, SetGroupUnique
        <5>2. \A j \in DOMAIN c.dir : new'.dir[j].name = c.dir[j].name
          BY <4>2, <4>9, SetGroupFacts
        <5> QED  BY <3>2, <4>5, <4>6, <4>7, <5>1, <5>2 DEF Live
      <4> QED  BY <4>6, <4>8, <4>9
    <3> QED  BY <3>1, <3>2
  <2>5. main' = main /\ bak' = bak /\ k' = k + 1 /\ UNCHANGED <<pc, arg, slot, before>>
    BY <1>3 DEF CompactItem, DiskFullInCopy
  <2>6. TypeOK'  BY <2>1, <2>4, <2>5 DEF TypeOK, Disk
  <2>7. Shape' /\ SlotIsOwn'  BY <2>1, <2>4, <2>5 DEF Shape, SlotIsOwn
  <2>8. CopyNames'
    <3>1. DOMAIN main.dir \subseteq Nat  BY <2>1, LenProperties DEF Archive
    <3> QED  BY <2>1, <2>4, <2>5, <3>1 DEF CopyNames, Source, Live
  <2>9. UniqueNames'
    BY <2>4, <2>5 DEF UniqueNames, OneEntryEach, IsArchive, Live
  <2> QED  BY <2>6, <2>7, <2>8, <2>9
<1>4. CASE CompactBackup
  <2>1. main \in Archive /\ new \in Archive  BY <1>4 DEF CompactBackup, Shape
  <2>2. TypeOK'  BY <1>4, <2>1 DEF CompactBackup, TypeOK, Disk
  <2>3. Shape' /\ SlotIsOwn' /\ CopyNames'
    BY <1>4, <2>1 DEF CompactBackup, Shape, SlotIsOwn, CopyNames
  <2>4. UniqueNames'
    BY <1>4 DEF CompactBackup, UniqueNames, OneEntryEach, IsArchive, Live
  <2> QED  BY <2>2, <2>3, <2>4
<1>5. CASE CompactSwap
  <2>1. new \in Archive  BY <1>5 DEF CompactSwap, Shape
  <2>2. TypeOK'  BY <1>5, <2>1 DEF CompactSwap, TypeOK, Disk
  <2>3. arg.name # NoName => arg.name \in Name  BY DEF TypeOK, Arg
  <2>4. Shape' /\ SlotIsOwn' /\ CopyNames'
    BY <1>5, <2>1, <2>3 DEF CompactSwap, Shape, SlotIsOwn, CopyNames
  <2>5. UniqueNames'
    BY <1>5 DEF CompactSwap, UniqueNames, OneEntryEach, IsArchive, Live
  <2> QED  BY <2>2, <2>4, <2>5
<1> QED  BY <1>1, <1>2, <1>3, <1>4, <1>5

LEMMA EndIInv ==
  ASSUME IInv, PutReturn \/ CompactThrow \/ Crash \/ DiskFullInLink
  PROVE  IInv'
<1>1. CASE PutReturn \/ CompactThrow
  BY <1>1, IdleIInv DEF PutReturn, CompactThrow, IInv, TypeOK, UniqueNames,
                        OneEntryEach, IsArchive, Live
<1>2. CASE Crash
  <2>1. CASE pc = "payload" /\ arg.val # EmptyVal
    <3>1. main \in Archive /\ main' \in CutShort(main)
      BY <1>2, <2>1 DEF Crash, IInv, Shape
    <3>2. main' \in Archive /\ OneEntryEach(main')
      BY <3>1, CutShortFacts, SameDir DEF IInv, UniqueNames
    <3> QED  BY <1>2, <3>2, IdleIInv DEF Crash, Disk, OneEntryEach, IsArchive, Live
  <2>2. CASE ~(pc = "payload" /\ arg.val # EmptyVal)
    BY <1>2, <2>2, IdleIInv DEF Crash, IInv, TypeOK, UniqueNames, OneEntryEach,
                                IsArchive, Live
  <2> QED  BY <2>1, <2>2
<1>3. CASE DiskFullInLink
  <2>1. main \in Archive /\ main' \in CutShort(main)
    BY <1>3 DEF DiskFullInLink, IInv, Shape
  <2>2. main' \in Archive /\ OneEntryEach(main')
    BY <2>1, CutShortFacts, SameDir DEF IInv, UniqueNames
  <2> QED  BY <1>3, <2>2, IdleIInv DEF DiskFullInLink, Disk, OneEntryEach, IsArchive, Live
<1> QED  BY <1>1, <1>2, <1>3

LEMMA StutterIInv == IInv /\ UNCHANGED vars => IInv'
BY DEF vars, IInv, TypeOK, Disk, Shape, SlotIsOwn, CopyNames, UniqueNames,
       OneEntryEach, IsArchive, Live

LEMMA NextIInv == IInv /\ [Next]_vars => IInv'
BY PutIInv, EraseIInv, CompactIInv, EndIInv, StutterIInv DEF Next, Step

(***************************************************************************)
(* The types of every variable, whatever operations and faults happened.   *)
(***************************************************************************)
THEOREM TypeCorrect == Spec => []TypeOK
<1>1. IInv => TypeOK  BY DEF IInv
<1> QED  BY <1>1, InitIInv, NextIInv, PTL DEF Spec

(***************************************************************************)
(* No archive ever has two entries for one file: put's choice of the entry *)
(* (ddlman.cpp:41-53), erase and compaction keep the directory a map, also *)
(* when the process is killed or the disk is full at any of their writes.  *)
(***************************************************************************)
THEOREM NamesUnique == Spec => []UniqueNames
<1>1. IInv => UniqueNames  BY DEF IInv
<1> QED  BY <1>1, InitIInv, NextIInv, PTL DEF Spec
-----------------------------------------------------------------------------
(***************************************************************************)
(* The archive implements FileStore.  First, what reading one name gives.  *)
(***************************************************************************)
LEMMA EntryTypes ==
  ASSUME NEW a \in Archive, NEW i \in DOMAIN a.dir
  PROVE  /\ a.dir[i].off \in Nat /\ a.dir[i].grp \in Group
         /\ a.dir[i].name \in Name \cup {NoName} /\ i \in Nat
<1>1. a.dir \in Seq(Entry)  BY DEF Archive
<1>2. a.dir[i] \in Entry /\ i \in Nat  BY <1>1
<1> QED  BY <1>2 DEF Entry

LEMMA EofType == \A a \in Archive : Eof(a) = Len(a.log) + 1 /\ Len(a.log) \in Nat
BY LenProperties DEF Eof, Archive

\* a block appended changes what is read at the old end only, and not even that
\* when the block is none of a content
LEMMA ReadAppend ==
  ASSUME NEW a \in Archive, NEW b \in Block, NEW o \in Nat,
         o # Eof(a) \/ b.val = Damaged
  PROVE  ReadAt(Put1(a, b), o) = ReadAt(a, o)
<1>1. a.log \in Seq(Block)  BY DEF Archive
<1>2. Put1(a, b).log = Append(a.log, b)  BY Put1Facts
<1>3. /\ DOMAIN a.log = 1..Len(a.log) /\ Len(a.log) \in Nat
      /\ DOMAIN Append(a.log, b) = 1..Len(a.log) + 1
      /\ \A i \in 1..Len(a.log) : Append(a.log, b)[i] = a.log[i]
      /\ Append(a.log, b)[Len(a.log) + 1] = b
  BY <1>1, AppendProperties, LenProperties
<1> QED  BY <1>2, <1>3 DEF ReadAt, Eof

LEMMA ReadEnd ==
  ASSUME NEW a \in Archive, NEW v \in Value \cup {Damaged}
  PROVE  ReadAt(AddData(a, v), IF v = EmptyVal THEN 0 ELSE Eof(a)) = v
<1>1. CASE v = EmptyVal  BY <1>1 DEF ReadAt
<1>2. CASE v # EmptyVal
  <2>1. AddData(a, v).log = Append(a.log, Data(v)) /\ a.log \in Seq(Block)
    BY <1>2, Put1Facts, BlockTypes DEF AddData, Archive
  <2>2. /\ Len(a.log) + 1 \in DOMAIN Append(a.log, Data(v)) /\ Len(a.log) \in Nat
        /\ Append(a.log, Data(v))[Len(a.log) + 1] = Data(v)
    BY <2>1, BlockTypes, AppendProperties, LenProperties
  <2>3. Eof(a) # 0 /\ Eof(a) = Len(a.log) + 1  BY <2>2 DEF Eof
  <2>4. ReadAt(AddData(a, v), Eof(a)) = Data(v).val
    BY <2>1, <2>2, <2>3 DEF ReadAt
  <2> QED  BY <1>2, <2>4 DEF Data
<1> QED  BY <1>1, <1>2

\* the one entry of a name is the one find_file answers
LEMMA GetOf ==
  ASSUME NEW a \in Archive, OneEntryEach(a), NEW n \in Name,
         NEW i \in DOMAIN a.dir, a.dir[i].name = n
  PROVE  /\ Find(a, n) = i
         /\ Get(a, n) = [val |-> ReadAt(a, a.dir[i].off), grp |-> a.dir[i].grp]
         /\ Get(a, n) \in File
<1>1. Find(a, n) # 0 /\ Find(a, n) \in DOMAIN a.dir /\ a.dir[Find(a, n)].name = n
  BY FindFacts
<1>2. Find(a, n) = i
  BY <1>1, ArchiveIsArchive, NameAssumption DEF OneEntryEach, Live
<1>3. Get(a, n) = [val |-> ReadAt(a, a.dir[i].off), grp |-> a.dir[i].grp]
  BY <1>1, <1>2 DEF Get
<1> QED  BY <1>2, <1>3, EntryTypes, ReadType DEF File

LEMMA GetNone ==
  ASSUME NEW a \in Archive, NEW n, \A i \in DOMAIN a.dir : a.dir[i].name # n
  PROVE  Get(a, n) = NoFile
BY FindFacts DEF Get

\* two archives give the same for a name when each has an entry of it if the
\* other has, with the same group and an offset that reads the same
LEMMA SameGet ==
  ASSUME NEW a \in Archive, OneEntryEach(a), NEW b \in Archive, OneEntryEach(b),
         NEW n \in Name,
         \A i \in DOMAIN a.dir : a.dir[i].name = n =>
            \E j \in DOMAIN b.dir : /\ b.dir[j].name = n /\ b.dir[j].grp = a.dir[i].grp
                                    /\ ReadAt(b, b.dir[j].off) = ReadAt(a, a.dir[i].off),
         \A j \in DOMAIN b.dir : b.dir[j].name = n =>
            \E i \in DOMAIN a.dir : a.dir[i].name = n
  PROVE  Get(b, n) = Get(a, n)
<1>1. CASE \E i \in DOMAIN a.dir : a.dir[i].name = n
  <2>1. PICK i \in DOMAIN a.dir : a.dir[i].name = n  BY <1>1
  <2>2. PICK j \in DOMAIN b.dir : /\ b.dir[j].name = n /\ b.dir[j].grp = a.dir[i].grp
                                  /\ ReadAt(b, b.dir[j].off) = ReadAt(a, a.dir[i].off)
    BY <2>1
  <2> QED  BY <2>1, <2>2, GetOf
<1>2. CASE \A i \in DOMAIN a.dir : a.dir[i].name # n
  BY <1>2, GetNone
<1> QED  BY <1>1, <1>2

\* what an archive gives when one entry is written over
LEMMA GetSetEntry ==
  ASSUME NEW a \in Archive, OneEntryEach(a), NEW i \in DOMAIN a.dir,
         NEW m \in Name \cup {NoName}, NEW v, NEW n \in Name, m # n, a.dir[i].name # n,
         m # NoName => \A j \in DOMAIN a.dir : a.dir[j].name = m => j = i
  PROVE  Get(SetEntry(a, i, m, v), n) = Get(a, n)
<1>1. PICK b : b = SetEntry(a, i, m, v)
  OBVIOUS
<1>2. b \in Archive
  BY <1>1, SetEntryFacts
<1>8. DOMAIN b.dir = DOMAIN a.dir
  BY <1>1, SetEntryFacts
<1>7. b.log = a.log
  BY <1>1 DEF SetEntry, Archive
<1>3. \A j \in DOMAIN a.dir :
        /\ b.dir[j].name = IF j = i THEN m ELSE a.dir[j].name
        /\ b.dir[j].off = IF j # i THEN a.dir[j].off
                          ELSE IF v = EmptyVal THEN 0 ELSE Eof(a)
        /\ b.dir[j].grp = a.dir[j].grp
  BY <1>1, SetEntryFacts
<1>4. OneEntryEach(b)  BY <1>1, SetEntryUnique
<1>5. \A o : ReadAt(b, o) = ReadAt(a, o)  BY <1>7 DEF ReadAt
<1>6. Get(b, n) = Get(a, n)  BY <1>2, <1>3, <1>4, <1>5, <1>8, SameGet
<1> QED  BY <1>1, <1>6

\* and when a block is appended to which no entry of the name leads
LEMMA GetAppend ==
  ASSUME NEW a \in Archive, OneEntryEach(a), NEW b \in Block, NEW n \in Name,
         \A i \in DOMAIN a.dir :
           a.dir[i].name = n => a.dir[i].off # Eof(a) \/ b.val = Damaged
  PROVE  Get(Put1(a, b), n) = Get(a, n)
<1> DEFINE c == Put1(a, b)
<1>1. c \in Archive /\ c.dir = a.dir  BY Put1Facts
<1>2. OneEntryEach(c)  BY <1>1, SameDir
<1>3. \A i \in DOMAIN a.dir : a.dir[i].name = n =>
        ReadAt(c, a.dir[i].off) = ReadAt(a, a.dir[i].off)
  BY ReadAppend, EntryTypes
<1> HIDE DEF c
<1>4. Get(c, n) = Get(a, n)  BY <1>1, <1>2, <1>3, SameGet
<1> QED  BY <1>4 DEF c
-----------------------------------------------------------------------------
(***************************************************************************)
(* StoreInv is inductive on a disk that is never full.                     *)
(***************************************************************************)
LEMMA InitStoreInv == Init => StoreInv
<1> SUFFICES ASSUME Init PROVE StoreInv
  OBVIOUS
<1>1. IInv  BY InitIInv
<1>2. WithinFile  BY ArchiveIsArchive DEF Init, WithinFile, Within
<1>3. Between  BY DEF Init, Between, NoArg
<1>4. Pending /\ Copied  BY DEF Init, Pending, Copied
<1> QED  BY <1>1, <1>2, <1>3, <1>4 DEF StoreInv

\* Steps after which no write is pending and no copy is made.
LEMMA RestStoreInv ==
  ASSUME IInv', WithinFile', Between',
         pc' \in {"idle", "open", "format", "find", "done", "create"}
  PROVE  StoreInv'
BY DEF StoreInv, Pending, Copied

LEMMA WithinAppend ==
  ASSUME NEW a \in Archive, NEW b \in Block, \A i \in DOMAIN a.dir : a.dir[i].off <= Eof(a)
  PROVE  \A i \in DOMAIN Put1(a, b).dir : Put1(a, b).dir[i].off < Eof(Put1(a, b))
<1>1. Put1(a, b) \in Archive /\ Put1(a, b).dir = a.dir  BY Put1Facts
<1>2. Eof(Put1(a, b)) = Eof(a) + 1
  BY Put1Facts, AppendProperties DEF Eof, Archive
<1> QED  BY <1>1, <1>2, EofType, EntryTypes

LEMMA CallStoreInv ==
  ASSUME StoreInv,
         \/ \E n \in Name, v \in Value, g \in Group : PutCall(n, v, g)
         \/ PutOpen \/ PutFull \/ PutReturn \/ CompactCall \/ CompactThrow \/ UNCHANGED vars
  PROVE  StoreInv'
<1>1. IInv'  BY PutIInv, CompactIInv, EndIInv, StutterIInv DEF StoreInv
<1>2. CASE UNCHANGED vars
  BY <1>1, <1>2 DEF vars, StoreInv, WithinFile, Within, IsArchive, Eof, Between, Pending,
                    Written, Copied, CopyHas, Target
<1>3. CASE ~UNCHANGED vars
  <2>1. main' = main \/ main' = Blank
    BY <1>3 DEF PutCall, PutOpen, PutFull, PutReturn, CompactCall, CompactThrow
  <2>2. WithinFile'
    BY <2>1, ArchiveIsArchive DEF StoreInv, WithinFile, Within
  <2>3. pc' \in {"idle", "open", "format", "find", "done", "create"} /\ Between'
    BY <1>3 DEF PutCall, PutOpen, PutFull, PutReturn, CompactCall, CompactThrow, Idle,
                Between, NoArg
  <2> QED  BY <1>1, <2>2, <2>3, RestStoreInv
<1> QED  BY <1>2, <1>3

LEMMA FormatStoreInv == ASSUME StoreInv, PutFormat PROVE StoreInv'
<1>1. IInv'  BY PutIInv DEF StoreInv
<1>2. main' = NewArchive(Reserve) /\ pc' = "find"  BY DEF PutFormat
<1>3. main' \in Archive /\ main'.dir = [i \in 1..Reserve |-> Free]
  BY <1>2, BoundAssumption, NewArchiveFacts
<1>4. \A i \in DOMAIN main'.dir : main'.dir[i].off = 0
  BY <1>3 DEF Free
<1>5. WithinFile'  BY <1>3, <1>4, EofType DEF WithinFile, Within
<1> QED  BY <1>1, <1>2, <1>5, RestStoreInv DEF Between

LEMMA PutLinkStoreInv == ASSUME StoreInv, PutLink PROVE StoreInv'
<1>1. IInv'  BY PutIInv DEF StoreInv
<1>2. main \in Archive /\ OneEntryEach(main) /\ arg.name \in Name /\ pc = "find"
  BY DEF PutLink, StoreInv, IInv, Shape, UniqueNames
<1>3. slot' \in DOMAIN main.dir /\ pc' = "entry" /\ UNCHANGED arg
  <2>1. Find(main, arg.name) # 0 => Find(main, arg.name) \in DOMAIN main.dir
    BY <1>2, FindFacts
  <2>2. Find(main, NoName) # 0 => Find(main, NoName) \in DOMAIN main.dir
    BY <1>2, FindFacts
  <2> QED  BY <2>1, <2>2 DEF PutLink, SlotFor
<1> DEFINE b == Link(main.dir[slot'].off)
<1>4. b \in Block /\ b.val = Damaged
  BY <1>2, <1>3, EntryTypes, BlockTypes DEF Link
<1>5. main' = Put1(main, b)  BY DEF PutLink
<1> HIDE DEF b
<1>6. \A i \in DOMAIN main.dir : main.dir[i].off <= Eof(main)
  BY <1>2, ArchiveIsArchive DEF StoreInv, WithinFile, Within
<1>7. main' \in Archive /\ main'.dir = main.dir  BY <1>2, <1>4, <1>5, Put1Facts
<1>8. \A i \in DOMAIN main'.dir : main'.dir[i].off < Eof(main')
  BY <1>2, <1>4, <1>5, <1>6, WithinAppend
<1>9. Get(main', arg.name) = Get(main, arg.name)
  BY <1>2, <1>4, <1>5, GetAppend
<1>10. \A i \in DOMAIN main'.dir : main'.dir[i].off \in Nat /\ Eof(main') \in Nat
  BY <1>7, EntryTypes, EofType
<1>11. WithinFile'  BY <1>8, <1>10 DEF WithinFile, Within
<1>12. main.dir[slot'].name \in {NoName, arg.name}
  <2>1. Find(main, arg.name) # 0 => main.dir[Find(main, arg.name)].name = arg.name
    BY <1>2, FindFacts
  <2>2. Find(main, NoName) # 0 => main.dir[Find(main, NoName)].name = NoName
    BY <1>2, FindFacts
  <2> QED  BY <2>1, <2>2 DEF PutLink, SlotFor
<1>13. main'.dir[slot'].name \in {NoName, arg.name}  BY <1>7, <1>12
<1>14. before' = Get(main', arg.name)  BY <1>9 DEF PutLink
<1>15. Pending'
  BY <1>3, <1>8, <1>10, <1>13, <1>14 DEF Pending
<1>16. Between' /\ Copied'  BY <1>3 DEF Between, Copied
<1> QED  BY <1>1, <1>11, <1>15, <1>16 DEF StoreInv

LEMMA PutEntryStoreInv == ASSUME StoreInv, PutEntry PROVE StoreInv'
<1>1. IInv'  BY PutIInv DEF StoreInv
<1>2. main \in Archive /\ OneEntryEach(main) /\ arg.name \in Name /\ slot \in DOMAIN main.dir
  BY DEF PutEntry, StoreInv, IInv, Shape, UniqueNames, SlotIsOwn
<1>3. main' = SetEntry(main, slot, arg.name, arg.val) /\ pc' = "payload"
      /\ UNCHANGED <<arg, slot, before>>
  BY DEF PutEntry
<1>4. main' \in Archive
  BY <1>2, <1>3, SetEntryFacts
<1>5. main'.log = main.log
  BY <1>3 DEF SetEntry
<1>6. DOMAIN main'.dir = DOMAIN main.dir
  BY <1>2, <1>3, SetEntryFacts
<1>7. \A j \in DOMAIN main.dir :
        /\ main'.dir[j].name = IF j = slot THEN arg.name ELSE main.dir[j].name
        /\ main'.dir[j].off = IF j # slot THEN main.dir[j].off
                              ELSE IF arg.val = EmptyVal THEN 0 ELSE Eof(main)
        /\ main'.dir[j].grp = main.dir[j].grp
  BY <1>2, <1>3, SetEntryFacts
<1>8. Eof(main') = Eof(main) /\ Eof(main) \in Nat /\ Eof(main) # 0
  BY <1>2, <1>5, EofType DEF Eof
<1>9. \A i \in DOMAIN main.dir : main.dir[i].off <= Eof(main) /\ main.dir[i].off # Eof(main)
  BY <1>2, ArchiveIsArchive DEF StoreInv, WithinFile, Within, Pending, PutEntry
<1>10. WithinFile'
  BY <1>2, <1>6, <1>7, <1>8, <1>9, EntryTypes DEF WithinFile, Within
<1>11. before # NoFile => main.dir[slot].grp = before.grp
  <2>1. before = Get(main, arg.name)  BY DEF StoreInv, Pending, PutEntry
  <2>2. CASE main.dir[slot].name = arg.name
    BY <1>2, <2>1, <2>2, GetOf
  <2>3. CASE main.dir[slot].name # arg.name
    <3>1. \A i \in DOMAIN main.dir : main.dir[i].name # arg.name
      BY <2>3 DEF StoreInv, IInv, SlotIsOwn, PutEntry
    <3> QED  BY <1>2, <2>1, <3>1, GetNone
  <2> QED  BY <2>2, <2>3
<1>12. Written'
  BY <1>2, <1>3, <1>6, <1>7, <1>11 DEF Written
<1>13. Pending'
  <2>1. main'.dir[slot].off = IF arg.val = EmptyVal THEN 0 ELSE Eof(main')
    BY <1>2, <1>7, <1>8
  <2>2. \A i \in DOMAIN main'.dir : main'.dir[i].off = Eof(main') => i = slot
    BY <1>6, <1>7, <1>8, <1>9
  <2> QED  BY <1>3, <1>12, <2>1, <2>2 DEF Pending
<1>14. Between' /\ Copied'  BY <1>3 DEF Between, Copied
<1> QED  BY <1>1, <1>10, <1>13, <1>14 DEF StoreInv

LEMMA PutPayloadStoreInv == ASSUME StoreInv, PutPayload PROVE StoreInv'
<1>1. IInv'  BY PutIInv DEF StoreInv
<1>2. main \in Archive /\ arg.val \in Value /\ slot \in DOMAIN main.dir
  BY DEF PutPayload, StoreInv, IInv, TypeOK, Arg, Shape, SlotIsOwn
<1>3. main' = AddData(main, arg.val) /\ pc' = "group" /\ UNCHANGED <<arg, slot, before>>
  BY DEF PutPayload
<1>4. main' \in Archive /\ main'.dir = main.dir
  BY <1>2, <1>3, AddDataFacts
<1>5. \A i \in DOMAIN main.dir : main.dir[i].off <= Eof(main)
  BY <1>2, ArchiveIsArchive DEF StoreInv, WithinFile, Within
<1>6. WithinFile'
  <2>1. CASE arg.val = EmptyVal
    BY <1>3, <1>5, <2>1 DEF AddData, WithinFile, Within
  <2>2. CASE arg.val # EmptyVal
    <3>1. \A i \in DOMAIN main'.dir : main'.dir[i].off < Eof(main')
      BY <1>2, <1>3, <1>5, <2>2, WithinAppend, BlockTypes DEF AddData
    <3> QED  BY <1>4, <3>1, EntryTypes, EofType DEF WithinFile, Within
  <2> QED  BY <2>1, <2>2
<1>7. ReadAt(main', main.dir[slot].off) = arg.val
  <2>1. main.dir[slot].off = IF arg.val = EmptyVal THEN 0 ELSE Eof(main)
    BY DEF StoreInv, Pending, PutPayload
  <2> QED  BY <1>2, <1>3, <2>1, ReadEnd
<1>8. Written'
  BY <1>3, <1>4 DEF StoreInv, Pending, Written, PutPayload
<1>9. Pending'
  BY <1>3, <1>4, <1>7, <1>8 DEF Pending
<1>10. Between' /\ Copied'  BY <1>3 DEF Between, Copied
<1> QED  BY <1>1, <1>6, <1>9, <1>10 DEF StoreInv

LEMMA PutGroupStoreInv == ASSUME StoreInv, PutGroup PROVE StoreInv'
<1>1. IInv'  BY PutIInv DEF StoreInv
<1>2. main \in Archive /\ arg.grp \in Group
  BY DEF PutGroup, StoreInv, IInv, TypeOK, Arg, Shape
<1>3. main' = SetGroup(main, slot, arg.grp) /\ pc' = "done"  BY DEF PutGroup
<1>4. main'.log = main.log  BY <1>3 DEF SetGroup
<1>5. DOMAIN main'.dir = DOMAIN main.dir  BY <1>2, <1>3, SetGroupFacts
<1>6. \A j \in DOMAIN main.dir : main'.dir[j].off = main.dir[j].off
  BY <1>2, <1>3, SetGroupFacts
<1>7. WithinFile'
  BY <1>2, <1>4, <1>5, <1>6, ArchiveIsArchive DEF StoreInv, WithinFile, Within, Eof
<1> QED  BY <1>1, <1>3, <1>7, RestStoreInv DEF Between

LEMMA EraseStoreInv == ASSUME StoreInv, NEW n \in Name, Erase(n) PROVE StoreInv'
<1>1. IInv'  BY EraseIInv DEF StoreInv
<1>2. main \in Archive  BY ArchiveIsArchive DEF Erase, StoreInv, IInv, TypeOK
<1> DEFINE i == Find(main, n)
<1>3. main' = SetEntry(main, i, NoName, EmptyVal)  BY DEF Erase
<1> HIDE DEF i
<1>4. main'.log = main.log  BY <1>3 DEF SetEntry
<1>5. DOMAIN main'.dir = DOMAIN main.dir  BY <1>2, <1>3, SetEntryFacts
<1>6. \A j \in DOMAIN main.dir : main'.dir[j].off = IF j # i THEN main.dir[j].off ELSE 0
  BY <1>2, <1>3, SetEntryFacts
<1>7. WithinFile'
  BY <1>2, <1>4, <1>5, <1>6, ArchiveIsArchive, EofType DEF StoreInv, WithinFile, Within, Eof
<1> QED  BY <1>1, <1>7, RestStoreInv DEF Erase, StoreInv, Between

LEMMA CrashStoreInv == ASSUME StoreInv, Crash PROVE StoreInv'
<1>1. IInv'  BY EndIInv DEF StoreInv
<1>2. pc' = "idle" /\ arg' = NoArg  BY DEF Crash, Idle
<1>3. WithinFile'
  <2>1. CASE main' = main  BY <2>1 DEF StoreInv, WithinFile, Within
  <2>2. CASE main' # main
    <3>1. main \in Archive /\ main' = Put1(main, Torn)
      BY <2>2 DEF Crash, CutShort, StoreInv, IInv, Shape
    <3>2. main' \in Archive  BY <3>1, BlockTypes, Put1Facts
    <3>3. \A i \in DOMAIN main'.dir : main'.dir[i].off < Eof(main')
      BY <3>1, BlockTypes, WithinAppend, ArchiveIsArchive DEF StoreInv, WithinFile, Within
    <3> QED  BY <3>2, <3>3, EntryTypes, EofType DEF WithinFile, Within
  <2> QED  BY <2>1, <2>2
<1> QED  BY <1>1, <1>2, <1>3, RestStoreInv DEF Between, NoArg
LEMMA CreateStoreInv == ASSUME StoreInv, CompactCreate PROVE StoreInv'
<1>1. IInv'  BY CompactIInv DEF StoreInv
<1>2. main \in Archive  BY DEF CompactCreate, StoreInv, IInv, Shape
<1> DEFINE n == Cardinality(Live(main)) + Reserve
<1>3. n \in Nat  BY <1>2, LiveFinite, BoundAssumption
<1>4. new' = NewArchive(n) /\ pc' = "copy" /\ k' = 1 /\ UNCHANGED <<main, arg>>
  BY DEF CompactCreate
<1> HIDE DEF n
<1>5. new' \in Archive /\ new'.dir = [i \in 1..n |-> Free] /\ new'.log = <<>>
  BY <1>3, <1>4, NewArchiveFacts
<1>6. Len(new'.dir) = n /\ DOMAIN new'.dir = 1..n /\ Len(new'.log) = 0
  BY <1>3, <1>5, LenProperties, EmptySeq DEF Archive
<1>7. \A i \in DOMAIN new'.dir : new'.dir[i] = Free  BY <1>5, <1>6
<1>8. \A j \in Live(main) : ~(j < 1)
  BY <1>2, EntryTypes, LenProperties DEF Live, Archive
<1>9. Copied'
  BY <1>4, <1>6, <1>7, <1>8 DEF Copied, n, Free
<1>10. WithinFile' /\ Between' /\ Pending'
  BY <1>4 DEF StoreInv, WithinFile, Within, Between, Pending
<1> QED  BY <1>1, <1>9, <1>10 DEF StoreInv

\* Where a copy step writes is one of the entries the copy was given.
LEMMA TargetFacts ==
  ASSUME NEW a \in Archive, NEW j \in Nat
  PROVE  LET T(x) == Cardinality({i \in Live(a) : i < x}) + 2
         IN /\ T(j) \in Nat /\ T(j) >= 2
            /\ j \in Live(a) => T(j) <= Cardinality(Live(a)) + 1 /\ T(j + 1) = T(j) + 1
            /\ j \notin Live(a) => T(j + 1) = T(j)
<1> DEFINE S == {i \in Live(a) : i < j}
           R == {i \in Live(a) : i < j + 1}
<1>1. IsFiniteSet(Live(a)) /\ Cardinality(Live(a)) \in Nat /\ Live(a) \subseteq Nat
  BY LiveFinite, EntryTypes DEF Live
<1>2. IsFiniteSet(S) /\ Cardinality(S) \in Nat
  BY <1>1, FS_Subset, FS_CardinalityType
<1>3. ASSUME j \in Live(a)
      PROVE  Cardinality(S) + 1 <= Cardinality(Live(a)) /\ Cardinality(R) = Cardinality(S) + 1
  <2>1. R = S \cup {j} /\ j \notin S  BY <1>1, <1>3
  <2>2. Cardinality(R) = Cardinality(S) + 1  BY <1>2, <2>1, FS_AddElement
  <2>3. R \subseteq Live(a)  OBVIOUS
  <2>4. Cardinality(R) <= Cardinality(Live(a))  BY <1>1, <2>3, FS_Subset
  <2> QED  BY <2>2, <2>4
<1>4. j \notin Live(a) => R = S  BY <1>1
<1> HIDE DEF S, R
<1>5. Cardinality(S) + 2 \in Nat /\ Cardinality(S) + 2 >= 2  BY <1>2
<1>6. j \in Live(a) => /\ Cardinality(S) + 2 <= Cardinality(Live(a)) + 1
                       /\ Cardinality(R) + 2 = Cardinality(S) + 2 + 1
  BY <1>1, <1>2, <1>3
<1> QED  BY <1>4, <1>5, <1>6 DEF S, R

\* One file copied: the entry taken, its content appended, its group set.
LEMMA CopyAsFacts ==
  ASSUME NEW a \in Archive, NEW i \in DOMAIN a.dir, a.dir[i] = Free,
         \A j \in DOMAIN a.dir : a.dir[j].off <= Len(a.log),
         NEW n \in Name, NEW v \in Value \cup {Damaged}, NEW g \in Group,
         NEW b, b = SetGroup(AddData(SetEntry(a, i, n, v), v), i, g)
  PROVE  /\ Len(b.dir) = Len(a.dir)
         /\ DOMAIN b.dir = DOMAIN a.dir
         /\ b.dir[i].name = n /\ b.dir[i].grp = g /\ ReadAt(b, b.dir[i].off) = v
         /\ \A j \in DOMAIN a.dir : j # i =>
              /\ b.dir[j].name = a.dir[j].name /\ b.dir[j].grp = a.dir[j].grp
              /\ b.dir[j].off = a.dir[j].off
              /\ ReadAt(b, b.dir[j].off) = ReadAt(a, a.dir[j].off)
         /\ \A j \in DOMAIN b.dir : b.dir[j].off <= Len(b.log)
<1>1. PICK e : e = SetEntry(a, i, n, v)  OBVIOUS
<1>2. e \in Archive  BY <1>1, SetEntryFacts
<1>3. e.log = a.log  BY <1>1 DEF SetEntry, Archive
<1>5. DOMAIN e.dir = DOMAIN a.dir  BY <1>1, SetEntryFacts
<1>4. Len(e.dir) = Len(a.dir)
  <2>1. e.dir \in Seq(Entry) /\ a.dir \in Seq(Entry)  BY <1>2 DEF Archive
  <2> QED  BY <1>5, <2>1, LenProperties
<1>6. \A j \in DOMAIN a.dir :
        /\ e.dir[j].name = IF j = i THEN n ELSE a.dir[j].name
        /\ e.dir[j].off = IF j # i THEN a.dir[j].off
                          ELSE IF v = EmptyVal THEN 0 ELSE Eof(a)
        /\ e.dir[j].grp = a.dir[j].grp
  BY <1>1, SetEntryFacts
<1>7. PICK c : c = AddData(e, v)  OBVIOUS
<1>8. c \in Archive /\ c.dir = e.dir  BY <1>2, <1>7, AddDataFacts
<1>9. b = SetGroup(c, i, g)  BY <1>1, <1>7
<1>10. b.log = c.log  BY <1>8, <1>9 DEF SetGroup, Archive
<1>11. Len(b.dir) = Len(c.dir)  BY <1>8, <1>9, SetGroupFacts
<1>12. DOMAIN b.dir = DOMAIN c.dir  BY <1>8, <1>9, SetGroupFacts
<1>13. \A j \in DOMAIN c.dir : /\ b.dir[j].name = c.dir[j].name
                               /\ b.dir[j].off = c.dir[j].off
                               /\ b.dir[j].grp = IF j = i /\ g # 0 THEN g ELSE c.dir[j].grp
  BY <1>8, <1>9, SetGroupFacts
<1>14. \A o : ReadAt(b, o) = ReadAt(c, o)  BY <1>10 DEF ReadAt
<1>15. Eof(e) = Eof(a) /\ Eof(a) = Len(a.log) + 1 /\ Len(a.log) \in Nat
  BY <1>3, EofType DEF Eof
<1>16. ReadAt(b, b.dir[i].off) = v
  <2>1. b.dir[i].off = IF v = EmptyVal THEN 0 ELSE Eof(e)
    BY <1>5, <1>6, <1>8, <1>13, <1>15
  <2> QED  BY <1>2, <1>7, <1>14, <2>1, ReadEnd
<1>17. ASSUME NEW j \in DOMAIN a.dir, j # i
       PROVE  ReadAt(b, b.dir[j].off) = ReadAt(a, a.dir[j].off)
  <2>1. b.dir[j].off = a.dir[j].off  BY <1>5, <1>6, <1>8, <1>13, <1>17
  <2>2. a.dir[j].off \in Nat /\ a.dir[j].off # Eof(e)  BY <1>15, EntryTypes
  <2>3. ReadAt(c, a.dir[j].off) = ReadAt(e, a.dir[j].off)
    BY <1>2, <1>7, <2>2, ReadAppend, BlockTypes DEF AddData
  <2>4. ReadAt(e, a.dir[j].off) = ReadAt(a, a.dir[j].off)  BY <1>3 DEF ReadAt
  <2> QED  BY <1>14, <2>1, <2>3, <2>4
<1>18. Len(b.log) = IF v = EmptyVal THEN Len(a.log) ELSE Len(a.log) + 1
  <2>1. CASE v = EmptyVal  BY <1>3, <1>7, <1>10, <2>1 DEF AddData
  <2>2. CASE v # EmptyVal
    <3>1. c.log = Append(e.log, Data(v)) /\ e.log \in Seq(Block) /\ Data(v) \in Block
      BY <1>2, <1>7, <2>2, Put1Facts, BlockTypes DEF AddData, Archive
    <3> QED  BY <1>3, <1>10, <2>2, <3>1, AppendProperties
  <2> QED  BY <2>1, <2>2
<1>19. \A j \in DOMAIN b.dir : b.dir[j].off <= Len(b.log)
  BY <1>5, <1>6, <1>8, <1>12, <1>13, <1>15, <1>18, EntryTypes
<1>20. b.dir[i].name = n  BY <1>5, <1>6, <1>8, <1>13
<1>21. b.dir[i].grp = g  BY <1>5, <1>6, <1>8, <1>13, GroupAssumption DEF Free
<1>22. \A j \in DOMAIN a.dir : j # i =>
         /\ b.dir[j].name = a.dir[j].name /\ b.dir[j].grp = a.dir[j].grp
         /\ b.dir[j].off = a.dir[j].off
  BY <1>5, <1>6, <1>8, <1>13
<1> QED
  BY <1>4, <1>5, <1>8, <1>11, <1>12, <1>16, <1>17, <1>19, <1>20, <1>21, <1>22
LEMMA CopyStoreInv == ASSUME StoreInv, CompactItem PROVE StoreInv'
<1>1. IInv'  BY CompactIInv DEF StoreInv
<1>2. main \in Archive /\ new \in Archive /\ pc = "copy" /\ k \in Nat /\ k \in DOMAIN main.dir
      /\ k' = k + 1 /\ UNCHANGED <<main, pc, arg>>
  BY DEF CompactItem, StoreInv, IInv, Shape, TypeOK
<1>3. /\ Len(new.dir) = Cardinality(Live(main)) + Reserve
      /\ \A j \in Live(main) : j < k => CopyHas(j)
      /\ \A i \in DOMAIN new.dir : i >= Target => new.dir[i] = Free
      /\ \A i \in DOMAIN new.dir : new.dir[i].off <= Len(new.log)
  BY <1>2 DEF StoreInv, Copied
<1>4. WithinFile' /\ Between' /\ Pending'
  BY <1>2 DEF StoreInv, WithinFile, Within, Between, Pending
<1>5. Live(main) \subseteq Nat  BY <1>2, EntryTypes DEF Live
<1>6. CASE k \notin Live(main)
  <2>1. new' = new  BY <1>6 DEF CompactItem
  <2>2. Target' = Target  BY <1>2, <1>6, TargetFacts DEF Target
  <2>3. \A j \in Live(main) : j < k + 1 => j < k  BY <1>2, <1>5, <1>6
  <2>4. Copied'  BY <1>2, <1>3, <2>1, <2>2, <2>3 DEF Copied, CopyHas
  <2> QED  BY <1>1, <1>4, <2>4 DEF StoreInv
<1>7. CASE k \in Live(main)
  <2> DEFINE v == ReadAt(main, Source.off)
             n == Source.name
             g == Source.grp
             T == Target
  <2>1. n \in Name /\ v \in Value \cup {Damaged} /\ g \in Group
    BY <1>2, <1>7, EntryTypes, ReadType DEF Source, Live
  <2>2. T \in Nat /\ T >= 2 /\ T <= Cardinality(Live(main)) + 1 /\ Target' = T + 1
    BY <1>2, <1>7, TargetFacts DEF Target
  <2>3. DOMAIN new.dir = 1..Len(new.dir)  BY <1>2, LenProperties DEF Archive
  <2>4. T \in DOMAIN new.dir /\ new.dir[T] = Free
    BY <1>2, <1>3, <2>2, <2>3, LiveFinite, BoundAssumption
  <2>5. new' = SetGroup(AddData(SetEntry(new, T, n, v), v), T, g)
    BY <1>7 DEF CompactItem, CopyAs
  <2> HIDE DEF n, v, g, T
  <2>6. Len(new'.dir) = Len(new.dir)
    BY <1>2, <1>3, <2>1, <2>4, <2>5, CopyAsFacts
  <2>7. DOMAIN new'.dir = DOMAIN new.dir
    BY <1>2, <1>3, <2>1, <2>4, <2>5, CopyAsFacts
  <2>8. new'.dir[T].name = n /\ new'.dir[T].grp = g /\ ReadAt(new', new'.dir[T].off) = v
    BY <1>2, <1>3, <2>1, <2>4, <2>5, CopyAsFacts
  <2>9. \A j \in DOMAIN new.dir : j # T =>
          /\ new'.dir[j].name = new.dir[j].name /\ new'.dir[j].grp = new.dir[j].grp
          /\ new'.dir[j].off = new.dir[j].off
          /\ ReadAt(new', new'.dir[j].off) = ReadAt(new, new.dir[j].off)
    BY <1>2, <1>3, <2>1, <2>4, <2>5, CopyAsFacts
  <2>10. \A j \in DOMAIN new'.dir : new'.dir[j].off <= Len(new'.log)
    BY <1>2, <1>3, <2>1, <2>4, <2>5, CopyAsFacts
  <2>11. ASSUME NEW j \in Live(main), j < k + 1 PROVE CopyHas(j)'
    <3>1. CASE j = k
      BY <1>2, <2>4, <2>7, <2>8, <3>1 DEF CopyHas, Source, n, v, g
    <3>2. CASE j # k
      <4>1. CopyHas(j)  BY <1>2, <1>3, <1>5, <2>11, <3>2
      <4>2. PICK i \in DOMAIN new.dir :
              /\ new.dir[i].name = main.dir[j].name /\ new.dir[i].grp = main.dir[j].grp
              /\ ReadAt(new, new.dir[i].off) = ReadAt(main, main.dir[j].off)
        BY <4>1 DEF CopyHas
      <4>3. i # T  BY <2>4, <4>2 DEF Live, Free
      <4> QED  BY <1>2, <2>7, <2>9, <4>2, <4>3 DEF CopyHas
    <3> QED  BY <3>1, <3>2
  <2>12. ASSUME NEW i \in DOMAIN new'.dir, i >= T + 1 PROVE new'.dir[i] = Free
    <3>1. i \in DOMAIN new.dir /\ i \in Nat /\ i # T /\ i >= Target
      BY <2>2, <2>3, <2>7, <2>12 DEF T
    <3>2. new.dir[i] = Free  BY <1>3, <3>1
    <3>3. new'.dir[i] \in Entry  BY <1>1, <1>2 DEF IInv, Shape, Archive
    <3>4. new'.dir[i].name = NoName /\ new'.dir[i].off = 0 /\ new'.dir[i].grp = 0
      BY <2>9, <3>1, <3>2 DEF Free
    <3> QED  BY <3>3, <3>4 DEF Entry, Free
  <2>13. Copied'
    BY <1>2, <1>3, <2>2, <2>6, <2>10, <2>11, <2>12 DEF Copied
  <2> QED  BY <1>1, <1>4, <2>13 DEF StoreInv
<1> QED  BY <1>6, <1>7

\* A compaction that comes to its end has copied every file.
LEMMA BackupStoreInv == ASSUME StoreInv, CompactBackup PROVE StoreInv'
<1>1. IInv'  BY CompactIInv DEF StoreInv
<1>2. main \in Archive /\ new \in Archive /\ OneEntryEach(main) /\ OneEntryEach(new)
      /\ pc = "copy" /\ k > Len(main.dir) /\ k \in Nat
  BY DEF CompactBackup, StoreInv, IInv, Shape, TypeOK, UniqueNames
<1>3. bak' = main /\ main' = Absent /\ pc' = "swap" /\ UNCHANGED <<new, arg>>
  BY DEF CompactBackup
<1>4. DOMAIN main.dir = 1..Len(main.dir) /\ Len(main.dir) \in Nat
  BY <1>2, LenProperties DEF Archive
<1>5. ASSUME NEW n \in Name PROVE Get(new, n) = Get(main, n)
  <2>1. ASSUME NEW i \in DOMAIN main.dir, main.dir[i].name = n
        PROVE  \E j \in DOMAIN new.dir :
                 /\ new.dir[j].name = n /\ new.dir[j].grp = main.dir[i].grp
                 /\ ReadAt(new, new.dir[j].off) = ReadAt(main, main.dir[i].off)
    <3>1. i \in Live(main)  BY <2>1, NameAssumption DEF Live
    <3>2. i < k  BY <1>2, <1>4
    <3>3. CopyHas(i)  BY <1>2, <3>1, <3>2 DEF StoreInv, Copied
    <3> QED  BY <2>1, <3>3 DEF CopyHas
  <2>2. ASSUME NEW j \in DOMAIN new.dir, new.dir[j].name = n
        PROVE  \E i \in DOMAIN main.dir : main.dir[i].name = n
    <3>1. j \in Live(new)  BY <2>2, NameAssumption DEF Live
    <3> QED  BY <1>2, <2>2, <3>1 DEF StoreInv, IInv, CopyNames, Live
  <2> QED  BY <1>2, <2>1, <2>2, SameGet
<1>6. Copied'  BY <1>2, <1>3, <1>5 DEF StoreInv, Copied
<1>7. WithinFile' /\ Between' /\ Pending'
  BY <1>3, ArchiveIsArchive DEF WithinFile, Within, Between, Pending
<1> QED  BY <1>1, <1>6, <1>7 DEF StoreInv

LEMMA SwapStoreInv == ASSUME StoreInv, CompactSwap PROVE StoreInv'
<1>1. IInv'  BY CompactIInv DEF StoreInv
<1>2. new \in Archive /\ pc = "swap" /\ main' = new /\ UNCHANGED arg
      /\ pc' = IF arg.name = NoName THEN "idle" ELSE "open"
  BY DEF CompactSwap, StoreInv, IInv, Shape
<1>3. \A i \in DOMAIN new.dir : new.dir[i].off <= Len(new.log)
  BY <1>2 DEF StoreInv, Copied
<1>4. WithinFile'  BY <1>2, <1>3, EntryTypes, EofType DEF WithinFile, Within
<1>5. Between'  BY <1>2 DEF Between
<1> QED  BY <1>1, <1>2, <1>4, <1>5, RestStoreInv

LEMMA NextStoreInv ==
  ASSUME "disk_full" \notin Faults, StoreInv, [Next]_vars
  PROVE  StoreInv'
<1>1. ~DiskFullInLink /\ ~DiskFullInPut /\ ~DiskFullInCopy
  BY DEF DiskFullInLink, DiskFullInPut, DiskFullInCopy
<1> QED
  BY <1>1, CallStoreInv, FormatStoreInv, PutLinkStoreInv, PutEntryStoreInv,
     PutPayloadStoreInv, PutGroupStoreInv, EraseStoreInv, CreateStoreInv, CopyStoreInv,
     BackupStoreInv, SwapStoreInv, CrashStoreInv DEF Next, Step
-----------------------------------------------------------------------------
(***************************************************************************)
(* Every step of the archive is a step of FileStore or none.               *)
(***************************************************************************)
StoreStep == Store!Next \/ (Crash /\ Store!Crash)

LEMMA Unseen ==
  ASSUME \A n \in Name : Visible(n)' = Visible(n), UNCHANGED arg,
         (pc \in {"create", "copy", "swap"})' = (pc \in {"create", "copy", "swap"})
  PROVE  UNCHANGED Store!vars
BY DEF Store!vars

\* What the file looks like to readers at most steps.
LEMMA VisibleGet ==
  ASSUME NEW n \in Name, main \in Archive, pc # "swap",
         pc \in {"payload", "group"} => n # arg.name
  PROVE  Visible(n) = Get(main, n)
BY ArchiveIsArchive DEF Visible

\* Calls and answers.
LEMMA CallSimulates ==
  ASSUME StoreInv,
         \/ \E n \in Name, v \in Value, g \in Group : PutCall(n, v, g)
         \/ PutOpen \/ PutFull \/ PutReturn \/ CompactCall \/ CompactThrow \/ UNCHANGED vars
  PROVE  StoreStep \/ UNCHANGED Store!vars
<1>1. ASSUME NEW n \in Name PROVE Visible(n)' = Visible(n)
  <2>1. CASE PutOpen
    BY <2>1, ArchiveIsArchive DEF PutOpen, Visible
  <2>2. CASE UNCHANGED vars
    BY <2>2 DEF Visible, vars
  <2>3. CASE ~PutOpen /\ ~UNCHANGED vars
    BY <2>3 DEF PutCall, PutFull, PutReturn, CompactCall, CompactThrow, Idle, Visible
  <2> QED  BY <2>1, <2>2, <2>3
<1>2. CASE \E n \in Name, v \in Value, g \in Group : PutCall(n, v, g)
  <2>1. PICK n \in Name : arg'.name = n /\ pc = "idle" /\ pc' = "open"
    BY <1>2 DEF PutCall
  <2>2. Store!BeginPut(n)
    BY <1>1, <2>1 DEF StoreInv, Between, Store!BeginPut
  <2> QED  BY <2>2 DEF StoreStep, Store!Next
<1>3. CASE PutOpen \/ UNCHANGED vars
  <2>1. UNCHANGED arg
    BY <1>3 DEF PutOpen, vars
  <2>2. (pc \in {"create", "copy", "swap"})' = (pc \in {"create", "copy", "swap"})
    BY <1>3 DEF PutOpen, vars
  <2> QED  BY <1>1, <2>1, <2>2, Unseen
<1>4. CASE PutFull \/ CompactCall
  <2>1. Store!BeginCompact
    BY <1>1, <1>4 DEF PutFull, CompactCall, Store!BeginCompact
  <2> QED  BY <2>1 DEF StoreStep, Store!Next
<1>5. CASE PutReturn \/ CompactThrow
  <2>1. Store!EndPut
    BY <1>1, <1>5 DEF PutReturn, CompactThrow, Idle, NoArg, Store!EndPut
  <2> QED  BY <2>1 DEF StoreStep, Store!Next
<1> QED  BY <1>2, <1>3, <1>4, <1>5

\* The writes of a put that nobody sees.
LEMMA WriteSimulates ==
  ASSUME StoreInv, PutFormat \/ PutLink \/ PutEntry \/ PutPayload
  PROVE  UNCHANGED Store!vars
<1>1. UNCHANGED arg /\ pc \notin {"create", "copy", "swap"} /\ pc' \notin {"create", "copy", "swap"}
      /\ arg.name \in Name
  BY DEF PutFormat, PutLink, PutEntry, PutPayload, StoreInv, IInv, Shape
<1>2. ASSUME NEW n \in Name PROVE Visible(n)' = Visible(n)
  <2>1. CASE PutFormat
    <3>1. main' \in Archive /\ main'.dir = [i \in 1..Reserve |-> Free]
      BY <2>1, BoundAssumption, NewArchiveFacts DEF PutFormat
    <3>2. \A i \in DOMAIN main'.dir : main'.dir[i].name # n
      BY <3>1, NameAssumption DEF Free
    <3>3. Visible(n)' = NoFile
      BY <2>1, <3>1, <3>2, GetNone, ArchiveIsArchive DEF PutFormat, Visible
    <3>4. CASE ~IsArchive(main)  BY <2>1, <3>3, <3>4 DEF PutFormat, Visible
    <3>5. CASE IsArchive(main)  BY <2>1, <3>5, ArchiveIsArchive DEF PutFormat, StoreInv, IInv, Shape
    <3> QED  BY <3>4, <3>5
  <2>2. CASE ~PutFormat
    <3>1. main \in Archive /\ OneEntryEach(main)
      BY <2>2 DEF PutLink, PutEntry, PutPayload, StoreInv, IInv, Shape, UniqueNames
    <3>2. CASE PutLink
      <4>1. slot' \in DOMAIN main.dir
        <5>1. Find(main, arg.name) # 0 => Find(main, arg.name) \in DOMAIN main.dir
          BY <3>1, FindFacts
        <5>2. Find(main, NoName) # 0 => Find(main, NoName) \in DOMAIN main.dir
          BY <3>1, FindFacts
        <5> QED  BY <3>2, <5>1, <5>2 DEF PutLink, SlotFor
      <4> DEFINE b == Link(main.dir[slot'].off)
      <4>2. b \in Block /\ b.val = Damaged
        BY <3>1, <4>1, EntryTypes, BlockTypes DEF Link
      <4>3. main' = Put1(main, b)  BY <3>2 DEF PutLink
      <4> HIDE DEF b
      <4>4. Get(main', n) = Get(main, n)  BY <3>1, <4>2, <4>3, GetAppend
      <4>5. main' \in Archive  BY <3>1, <4>2, <4>3, Put1Facts
      <4>6. Visible(n)' = Get(main', n)
        BY <3>2, <4>5, ArchiveIsArchive DEF PutLink, Visible
      <4>7. Visible(n) = Get(main, n)
        BY <3>1, <3>2, ArchiveIsArchive DEF PutLink, Visible
      <4> QED  BY <4>4, <4>6, <4>7
    <3>3. CASE PutEntry
      <4>1. slot \in DOMAIN main.dir
            /\ \A i \in DOMAIN main.dir : main.dir[i].name = arg.name => i = slot
        BY <3>3 DEF PutEntry, StoreInv, IInv, SlotIsOwn
      <4>2. main' = SetEntry(main, slot, arg.name, arg.val) /\ pc = "entry" /\ pc' = "payload"
            /\ UNCHANGED before
        BY <3>3 DEF PutEntry
      <4>3. main' \in Archive  BY <1>1, <3>1, <4>2, SetEntryFacts
      <4>4. Visible(n) = Get(main, n)
        BY <3>1, <4>2, ArchiveIsArchive DEF Visible
      <4>5. CASE n = arg.name
        <5>1. Visible(n)' = before
          BY <1>1, <4>2, <4>3, <4>5, ArchiveIsArchive DEF Visible
        <5> QED  BY <4>2, <4>4, <4>5, <5>1 DEF StoreInv, Pending
      <4>6. CASE n # arg.name
        <5>1. Visible(n)' = Get(main', n)
          BY <1>1, <4>2, <4>3, <4>6, ArchiveIsArchive DEF Visible
        <5>2. main.dir[slot].name # n
          <6>1. main.dir[slot].name \in {NoName, arg.name}
            BY <4>2 DEF StoreInv, Pending
          <6> QED  BY <4>6, <6>1, NameAssumption
        <5>3. Get(main', n) = Get(main, n)
          BY <1>1, <3>1, <4>1, <4>2, <4>6, <5>2, GetSetEntry
        <5> QED  BY <4>4, <5>1, <5>3
      <4> QED  BY <4>5, <4>6
    <3>4. CASE PutPayload
      <4>1. main' = AddData(main, arg.val) /\ arg.val \in Value /\ slot \in DOMAIN main.dir
            /\ pc = "payload" /\ pc' = "group" /\ UNCHANGED before
        BY <3>4 DEF PutPayload, StoreInv, IInv, TypeOK, Arg, SlotIsOwn
      <4>2. main' \in Archive  BY <3>1, <4>1, AddDataFacts
      <4>3. CASE n = arg.name
        BY <1>1, <3>1, <4>1, <4>2, <4>3, ArchiveIsArchive DEF Visible
      <4>4. CASE n # arg.name
        <5>1. Visible(n)' = Get(main', n) /\ Visible(n) = Get(main, n)
          BY <1>1, <3>1, <4>1, <4>2, <4>4, ArchiveIsArchive DEF Visible
        <5>2. \A i \in DOMAIN main.dir : main.dir[i].name = n => main.dir[i].off # Eof(main)
          BY <4>1, <4>4 DEF StoreInv, Pending, Written
        <5>3. Get(main', n) = Get(main, n)
          BY <3>1, <4>1, <5>2, GetAppend, BlockTypes DEF AddData
        <5> QED  BY <5>1, <5>3
      <4> QED  BY <4>3, <4>4
    <3> QED  BY <2>2, <3>2, <3>3, <3>4
  <2> QED  BY <2>1, <2>2
<1> QED  BY <1>1, <1>2, Unseen

\* The last write of a put, which makes the file visible.
LEMMA GroupSimulates == ASSUME StoreInv, PutGroup PROVE StoreStep
<1>1. /\ pc = "group" /\ pc' = "done" /\ UNCHANGED arg
      /\ main' = SetGroup(main, slot, arg.grp) /\ main \in Archive /\ OneEntryEach(main)
      /\ arg.name \in Name /\ arg.val \in Value /\ arg.grp \in Group
  BY DEF PutGroup, StoreInv, IInv, TypeOK, Shape, UniqueNames, Arg
<1>2. /\ slot \in DOMAIN main.dir /\ main.dir[slot].name = arg.name
      /\ before # NoFile => main.dir[slot].grp = before.grp
      /\ ReadAt(main, main.dir[slot].off) = arg.val
  BY <1>1 DEF StoreInv, Pending, Written
<1>3. main' \in Archive  BY <1>1, SetGroupFacts
<1>4. OneEntryEach(main')  BY <1>1, SetGroupUnique
<1>5. DOMAIN main'.dir = DOMAIN main.dir  BY <1>1, SetGroupFacts
<1>6. \A j \in DOMAIN main.dir :
        /\ main'.dir[j].name = main.dir[j].name
        /\ main'.dir[j].off = main.dir[j].off
        /\ main'.dir[j].grp = IF j = slot /\ arg.grp # 0 THEN arg.grp ELSE main.dir[j].grp
  BY <1>1, SetGroupFacts
<1>7. main'.log = main.log  BY <1>1 DEF SetGroup
<1>8. \A o : ReadAt(main', o) = ReadAt(main, o)  BY <1>7 DEF ReadAt
<1> DEFINE h == main'.dir[slot].grp
<1>9. h \in Group /\ (arg.grp # 0 => h = arg.grp)
      /\ (arg.grp = 0 /\ before # NoFile => h = before.grp)
  BY <1>1, <1>2, <1>6, EntryTypes
<1>10. Get(main', arg.name) = [val |-> arg.val, grp |-> h]
  BY <1>1, <1>2, <1>3, <1>4, <1>5, <1>6, <1>8, GetOf
<1> HIDE DEF h
<1>11. ASSUME NEW n \in Name, n # arg.name PROVE Get(main', n) = Get(main, n)
  <2>1. \A i \in DOMAIN main.dir : main.dir[i].name = n =>
          /\ main'.dir[i].name = n /\ main'.dir[i].grp = main.dir[i].grp
          /\ ReadAt(main', main'.dir[i].off) = ReadAt(main, main.dir[i].off)
    BY <1>2, <1>6, <1>8, <1>11
  <2> QED  BY <1>1, <1>3, <1>4, <1>5, <1>6, <2>1, SameGet
<1>12. ASSUME NEW n \in Name
       PROVE  /\ Visible(n)' = Get(main', n)
              /\ Visible(n) = IF n = arg.name THEN before ELSE Get(main, n)
  BY <1>1, <1>3, ArchiveIsArchive DEF Visible
<1>13. Store!CommitPut(arg.val, arg.grp)
  <2>1. [n \in Name |-> Visible(n)'] =
          [[n \in Name |-> Visible(n)] EXCEPT ![arg.name] = [val |-> arg.val, grp |-> h]]
    BY <1>10, <1>11, <1>12
  <2>2. [n \in Name |-> Visible(n)][arg.name] = before  BY <1>1, <1>12
  <2> QED  BY <1>1, <1>9, <2>1, <2>2, NameAssumption DEF Store!CommitPut
<1> QED  BY <1>1, <1>13 DEF StoreStep, Store!Next

LEMMA EraseSimulates == ASSUME StoreInv, NEW n \in Name, Erase(n) PROVE StoreStep
<1> DEFINE i == Find(main, n)
<1>1. main \in Archive /\ OneEntryEach(main) /\ pc = "idle" /\ pc' = "idle" /\ i # 0
      /\ UNCHANGED arg /\ arg.name = NoName
  BY ArchiveIsArchive DEF Erase, StoreInv, IInv, TypeOK, UniqueNames, Between
<1>2. i \in DOMAIN main.dir /\ main.dir[i].name = n  BY <1>1, FindFacts
<1>3. main' = SetEntry(main, i, NoName, EmptyVal)  BY DEF Erase
<1> HIDE DEF i
<1>4. main' \in Archive  BY <1>1, <1>3, SetEntryFacts
<1>5. DOMAIN main'.dir = DOMAIN main.dir  BY <1>1, <1>3, SetEntryFacts
<1>6. \A j \in DOMAIN main.dir :
        main'.dir[j].name = IF j = i THEN NoName ELSE main.dir[j].name
  BY <1>1, <1>3, SetEntryFacts
<1>7. Get(main', n) = NoFile
  <2>1. \A j \in DOMAIN main.dir : main.dir[j].name = n => j = i
    BY <1>1, <1>2, ArchiveIsArchive, NameAssumption DEF OneEntryEach, Live
  <2> QED  BY <1>4, <1>5, <1>6, <2>1, GetNone, NameAssumption
<1>8. \A m \in Name : m # n => Get(main', m) = Get(main, m)
  BY <1>1, <1>2, <1>3, GetSetEntry, NameAssumption
<1>9. \A m \in Name : Visible(m)' = Get(main', m) /\ Visible(m) = Get(main, m)
  BY <1>1, <1>4, ArchiveIsArchive DEF Visible
<1>10. Store!Erase(n)
  BY <1>1, <1>7, <1>8, <1>9 DEF Store!Erase
<1> QED  BY <1>10 DEF StoreStep, Store!Next

LEMMA CompactSimulates ==
  ASSUME StoreInv, CompactCreate \/ CompactItem \/ CompactBackup \/ CompactSwap
  PROVE  StoreStep \/ UNCHANGED Store!vars
<1>1. CASE CompactCreate \/ CompactItem \/ CompactBackup
  <2>1. UNCHANGED arg /\ pc \in {"create", "copy"} /\ pc' \in {"create", "copy", "swap"}
    BY <1>1 DEF CompactCreate, CompactItem, CompactBackup
  <2>2. ASSUME NEW n \in Name PROVE Visible(n)' = Visible(n)
    BY <1>1 DEF CompactCreate, CompactItem, CompactBackup, Visible
  <2> QED  BY <2>1, <2>2, Unseen
<1>2. CASE CompactSwap
  <2>1. /\ pc = "swap" /\ pc' \in {"idle", "open"} /\ UNCHANGED arg /\ main' = new
        /\ new \in Archive /\ bak \in Archive
        /\ \A n \in Name : Get(new, n) = Get(bak, n)
    BY <1>2 DEF CompactSwap, StoreInv, IInv, Shape, Copied
  <2>2. ASSUME NEW n \in Name PROVE Visible(n)' = Visible(n)
    BY <2>1, ArchiveIsArchive DEF Visible
  <2>3. Store!EndCompact  BY <2>1, <2>2 DEF Store!EndCompact
  <2> QED  BY <2>3 DEF StoreStep, Store!Next
<1> QED  BY <1>1, <1>2

\* A kill of the process.
LEMMA CrashSimulates == ASSUME StoreInv, Crash PROVE StoreStep
<1>1. pc # "idle" /\ pc' = "idle" /\ arg'.name = NoName /\ UNCHANGED <<bak, new>>
      /\ main' \in CutShort(main) /\ (main' = main \/ pc = "payload")
  BY DEF Crash, Idle, NoArg, CutShort
<1>2. CASE pc \in {"open", "format", "find", "entry", "done", "create", "copy"}
  <2>1. ASSUME NEW n \in Name PROVE Visible(n)' = Visible(n)
    BY <1>1, <1>2 DEF Visible
  <2>2. Store!EndPut  BY <1>1, <2>1 DEF Store!EndPut
  <2> QED  BY <2>2 DEF StoreStep, Store!Next
<1>3. CASE pc \in {"payload", "group"}
  <2>1. main \in Archive /\ OneEntryEach(main) /\ arg.name \in Name
    BY <1>3 DEF StoreInv, IInv, Shape, UniqueNames
  <2>2. main' \in Archive /\ main'.dir = main.dir  BY <1>1, <2>1, CutShortFacts
  <2>3. OneEntryEach(main')  BY <2>1, <2>2, SameDir
  <2>4. \A n \in Name : n # arg.name => Get(main', n) = Get(main, n)
    <3>1. Torn \in Block /\ Torn.val = Damaged  BY BlockTypes DEF Torn
    <3> QED  BY <1>1, <2>1, <3>1, GetAppend DEF CutShort
  <2> DEFINE f == Get(main', arg.name)
  <2>5. f \in File
    <3>1. slot \in DOMAIN main.dir /\ main.dir[slot].name = arg.name
      BY <1>3 DEF StoreInv, Pending, Written
    <3> QED  BY <2>1, <2>2, <2>3, <3>1, GetOf
  <2>6. ASSUME NEW n \in Name
        PROVE  Visible(n)' = IF n = arg.name THEN f ELSE Visible(n)
    BY <1>1, <1>3, <2>1, <2>2, <2>4, ArchiveIsArchive DEF Visible
  <2> HIDE DEF f
  <2>7. [n \in Name |-> Visible(n)'] = [[n \in Name |-> Visible(n)] EXCEPT ![arg.name] = f]
    BY <2>6
  <2>8. f \in Store!File  BY <2>5 DEF Store!File, File
  <2>9. Store!Crash
    <3>1. arg'.name = NoName /\ (pc \in {"create", "copy", "swap"})' = FALSE  BY <1>1
    <3>2. arg.name # NoName /\ pc \notin {"create", "copy", "swap"}
      BY <1>3, <2>1, NameAssumption
    <3> QED  BY <2>7, <2>8, <3>1, <3>2 DEF Store!Crash
  <2> QED  BY <2>9 DEF StoreStep
<1>4. CASE pc = "swap"
  <2>1. main' = Absent  BY <1>1, <1>4 DEF StoreInv, IInv, Shape
  <2>2. ASSUME NEW n \in Name PROVE Visible(n)' = NoFile
    BY <1>1, <2>1, ArchiveIsArchive DEF Visible
  <2>3. Store!Crash  BY <1>1, <1>4, <2>2 DEF Store!Crash, Store!Empty
  <2> QED  BY <2>3 DEF StoreStep
<1> QED  BY <1>1, <1>2, <1>3, <1>4 DEF StoreInv, IInv, TypeOK

(***************************************************************************)
(* The archive is a FileStore: on a disk that is never full, every write   *)
(* of put, erase and compact is one step of the abstract store or none,    *)
(* and a kill spoils at most the file being written, or leaves an empty    *)
(* archive when it falls between the two renames.                          *)
(***************************************************************************)
THEOREM ArchiveIsAStore ==
  ASSUME "disk_full" \notin Faults
  PROVE  Spec => ImplementsStore
<1>1. Init => StoreInv /\ Store!Init
  <2> SUFFICES ASSUME Init PROVE StoreInv /\ Store!Init
    OBVIOUS
  <2>1. ASSUME NEW n \in Name PROVE Visible(n) = NoFile
    BY ArchiveIsArchive DEF Init, Visible
  <2>2. Store!Init  BY <2>1 DEF Init, NoArg, Store!Init, Store!Empty
  <2> QED  BY <2>2, InitStoreInv
<1>2. StoreInv /\ [Next]_vars => StoreInv'  BY NextStoreInv
<1>3. StoreInv /\ [Next]_vars => [StoreStep]_(Store!vars)
  <2> SUFFICES ASSUME StoreInv, [Next]_vars PROVE StoreStep \/ UNCHANGED Store!vars
    OBVIOUS
  <2>1. ~DiskFullInLink /\ ~DiskFullInPut /\ ~DiskFullInCopy
    BY DEF DiskFullInLink, DiskFullInPut, DiskFullInCopy
  <2> QED
    BY <2>1, CallSimulates, WriteSimulates, GroupSimulates, EraseSimulates,
       CompactSimulates, CrashSimulates DEF Next, Step
<1> QED  BY <1>1, <1>2, <1>3, PTL DEF Spec, ImplementsStore, StoreStep
-----------------------------------------------------------------------------
(***************************************************************************)
(* The chains of revisions.                                                *)
(***************************************************************************)
LEMMA PrevFacts ==
  ASSUME NEW a \in Archive, NEW o \in 1..Eof(a)
  PROVE  Prev(a, o) \in 0..(o - 1)
<1>1. \A i \in DOMAIN a.log : a.log[i] \in Block  BY DEF Archive
<1>2. \A b \in Block : b.prev \in Nat  BY DEF Block
<1> QED  BY <1>1, <1>2, EofType DEF Prev

\* the recursion of Chain has a solution, since each link leads to a lower offset
LEMMA ChainExists ==
  ASSUME NEW a \in Archive
  PROVE  \E f : f = [o \in 0..Eof(a) |-> IF o = 0 THEN {} ELSE {o} \cup f[Prev(a, o)]]
<1> DEFINE Is(f, m) == f = [o \in 0..m |-> IF o = 0 THEN {} ELSE {o} \cup f[Prev(a, o)]]
           Bad == {m \in 0..Eof(a) : ~ \E f : Is(f, m)}
<1>1. Eof(a) \in Nat  BY EofType
<1>2. Bad = {}
  <2>1. SUFFICES ASSUME Bad # {} PROVE FALSE
    OBVIOUS
  <2>2. PICK m \in Bad : \A j \in Bad : m <= j
    <3>1. Bad \subseteq Nat  BY <1>1
    <3> HIDE DEF Bad
    <3> QED  BY <2>1, <3>1, NatLeast
  <2>3. m \in 0..Eof(a) /\ ~ \E f : Is(f, m)  BY <2>2
  <2>4. m # 0
    <3>1. Is([o \in 0..0 |-> {}], 0)  OBVIOUS
    <3> QED  BY <2>3, <3>1
  <2>5. m - 1 \in 0..Eof(a) /\ m - 1 \notin Bad
    <3>1. m - 1 \in 0..Eof(a) /\ ~(m <= m - 1)  BY <1>1, <2>3, <2>4
    <3> HIDE DEF Bad
    <3> QED  BY <2>2, <3>1
  <2>6. PICK f : Is(f, m - 1)  BY <2>5
  <2> DEFINE g == [o \in 0..m |-> IF o = m THEN {m} \cup f[Prev(a, m)] ELSE f[o]]
  <2>7. ASSUME NEW o \in 0..m
        PROVE  g[o] = IF o = 0 THEN {} ELSE {o} \cup g[Prev(a, o)]
    <3>1. CASE o = 0
      <4>1. f[0] = {}  BY <1>1, <2>3, <2>4, <2>6
      <4> QED  BY <2>4, <3>1, <4>1
    <3>2. CASE o # 0
      <4>1. Prev(a, o) \in 0..(o - 1)
        <5>1. o \in 1..Eof(a)  BY <1>1, <2>3, <3>2
        <5> QED  BY <5>1, PrevFacts
      <4>2. Prev(a, o) \in 0..m /\ Prev(a, o) # m  BY <1>1, <2>3, <2>7, <4>1
      <4>3. g[Prev(a, o)] = f[Prev(a, o)]  BY <4>2
      <4>4. CASE o = m  BY <3>2, <4>3, <4>4
      <4>5. CASE o # m
        <5>1. o \in 0..(m - 1)  BY <1>1, <2>3, <4>5
        <5>2. f[o] = {o} \cup f[Prev(a, o)]  BY <2>6, <3>2, <5>1
        <5> QED  BY <3>2, <4>3, <4>5, <5>2
      <4> QED  BY <4>4, <4>5
    <3> QED  BY <3>1, <3>2
  <2>8. DOMAIN g = 0..m  OBVIOUS
  <2>9. g = [o \in 0..m |-> g[o]]  OBVIOUS
  <2> HIDE DEF g
  <2>10. Is(g, m)  BY <2>7, <2>9
  <2> QED  BY <2>3, <2>10
<1>3. Eof(a) \in 0..Eof(a)  BY <1>1
<1>4. \E f : Is(f, Eof(a))  BY <1>2, <1>3
<1> QED  BY <1>4

LEMMA ChainFacts ==
  ASSUME NEW a \in Archive
  PROVE  /\ Chain(a)[0] = {}
         /\ \A o \in 1..Eof(a) : Chain(a)[o] = {o} \cup Chain(a)[Prev(a, o)]
<1>1. Eof(a) \in Nat  BY EofType
<1>2. Chain(a) = [o \in 0..Eof(a) |-> IF o = 0 THEN {} ELSE {o} \cup Chain(a)[Prev(a, o)]]
  BY ChainExists DEF Chain
<1> DEFINE N == Eof(a)
           C == Chain(a)
<1> HIDE DEF N, C
<1>3. \A o \in 0..N : C[o] = IF o = 0 THEN {} ELSE {o} \cup C[Prev(a, o)]
  BY <1>2 DEF N, C
<1>4. C[0] = {}
  <2>1. 0 \in 0..N  BY <1>1 DEF N
  <2> QED  BY <1>3, <2>1, Zenon
<1>5. ASSUME NEW o \in 1..N PROVE C[o] = {o} \cup C[Prev(a, o)]
  <2>1. o \in 0..N /\ o # 0  BY <1>1 DEF N
  <2> QED  BY <1>3, <2>1, Zenon
<1> QED  BY <1>4, <1>5 DEF N, C

LEMMA SameChain ==
  ASSUME NEW a \in Archive, NEW b \in Archive, Eof(a) <= Eof(b),
         \A o \in 1..Eof(a) : Prev(b, o) = Prev(a, o)
  PROVE  \A o \in 0..Eof(a) : Chain(b)[o] = Chain(a)[o]
<1> DEFINE Bad == {o \in 0..Eof(a) : Chain(b)[o] # Chain(a)[o]}
<1>1. Eof(a) \in Nat /\ Eof(b) \in Nat  BY EofType
<1>2. Bad = {}
  <2>1. SUFFICES ASSUME Bad # {} PROVE FALSE
    OBVIOUS
  <2>2. PICK m \in Bad : \A j \in Bad : m <= j
    <3>1. Bad \subseteq Nat  BY <1>1
    <3> HIDE DEF Bad
    <3> QED  BY <2>1, <3>1, NatLeast
  <2>3. m \in 0..Eof(a) /\ Chain(b)[m] # Chain(a)[m]  BY <2>2
  <2>4. m \in 1..Eof(a)  BY <1>1, <2>3, ChainFacts
  <2>5. m \in 1..Eof(b)  BY <1>1, <2>4
  <2>6. Prev(a, m) \in 0..(m - 1)  BY <2>4, PrevFacts
  <2>7. Prev(a, m) \notin Bad /\ Prev(a, m) \in 0..Eof(a)
    BY <1>1, <2>2, <2>4, <2>6
  <2>8. Chain(b)[Prev(a, m)] = Chain(a)[Prev(a, m)]  BY <2>7
  <2> HIDE DEF Bad
  <2>9. Chain(a)[m] = {m} \cup Chain(a)[Prev(a, m)]  BY <2>4, ChainFacts
  <2>10. Chain(b)[m] = {m} \cup Chain(b)[Prev(b, m)]  BY <2>5, ChainFacts
  <2> QED  BY <2>3, <2>4, <2>8, <2>9, <2>10
<1> QED  BY <1>2

LEMMA ChainAppend ==
  ASSUME NEW a \in Archive, NEW b \in Block
  PROVE  /\ \A o \in 0..Eof(a) : Chain(Put1(a, b))[o] = Chain(a)[o]
         /\ \A o \in DOMAIN a.log : ReadAt(Put1(a, b), o) = ReadAt(a, o)
<1>1. PICK c : c = Put1(a, b)  OBVIOUS
<1>2. c \in Archive /\ c.log = Append(a.log, b)  BY <1>1, Put1Facts
<1>3. /\ DOMAIN a.log = 1..Len(a.log) /\ Len(a.log) \in Nat
      /\ DOMAIN c.log = 1..Len(a.log) + 1 /\ Len(c.log) = Len(a.log) + 1
      /\ \A i \in 1..Len(a.log) : c.log[i] = a.log[i]
  <2>1. a.log \in Seq(Block)  BY DEF Archive
  <2> QED  BY <1>2, <2>1, AppendProperties, LenProperties
<1>4. \A o \in 1..Eof(a) : Prev(c, o) = Prev(a, o)
  BY <1>3 DEF Prev, Eof
<1>5. Eof(a) <= Eof(c)  BY <1>3 DEF Eof
<1>6. \A o \in 0..Eof(a) : Chain(c)[o] = Chain(a)[o]
  BY <1>2, <1>4, <1>5, SameChain
<1>7. \A o \in DOMAIN a.log : ReadAt(c, o) = ReadAt(a, o)
  BY <1>3 DEF ReadAt
<1> QED  BY <1>1, <1>6, <1>7

\* Two archives with the same log have the same chains.
LEMMA ChainSameLog ==
  ASSUME NEW a \in Archive, NEW b \in Archive, b.log = a.log
  PROVE  /\ \A o \in 0..Eof(a) : Chain(b)[o] = Chain(a)[o]
         /\ \A o : ReadAt(b, o) = ReadAt(a, o)
<1>1. Eof(b) = Eof(a) /\ Eof(a) \in Nat  BY EofType DEF Eof
<1>2. \A o \in 1..Eof(a) : Prev(b, o) = Prev(a, o)  BY DEF Prev
<1>3. \A o \in 0..Eof(a) : Chain(b)[o] = Chain(a)[o]  BY <1>1, <1>2, SameChain
<1> QED  BY <1>3 DEF ReadAt

\* b keeps the revisions that a has of n, in the sense of RevisionKept.
Kept(a, b, n) ==
  /\ Find(a, n) # 0 /\ Find(b, n) # 0
  /\ a.dir[Find(a, n)].off # 0 => b.dir[Find(b, n)].off # 0
  => /\ History(a, n) \subseteq History(b, n)
     /\ \A o \in History(a, n) : o \in DOMAIN a.log => ReadAt(b, o) = ReadAt(a, o)

LEMMA KeptAppend ==
  ASSUME NEW a \in Archive, Within(a), NEW b \in Block, NEW n
  PROVE  Kept(a, Put1(a, b), n)
<1>1. PICK c : c = Put1(a, b)  OBVIOUS
<1>2. c.dir = a.dir  BY <1>1, Put1Facts
<1>3. Find(c, n) = Find(a, n)  BY <1>2 DEF Find, Slots
<1>4. CASE Find(a, n) = 0  BY <1>1, <1>4 DEF Kept
<1>5. CASE Find(a, n) # 0
  <2> DEFINE o == a.dir[Find(a, n)].off
  <2>1. o \in 0..Eof(a)
    BY <1>5, FindFacts, EntryTypes, EofType DEF Within
  <2>2. Chain(c)[o] = Chain(a)[o]  BY <1>1, <2>1, ChainAppend
  <2>3. History(c, n) = History(a, n)
    BY <1>2, <1>3, <1>5, <2>2 DEF History
  <2>4. \A r \in DOMAIN a.log : ReadAt(c, r) = ReadAt(a, r)  BY <1>1, ChainAppend
  <2> QED  BY <1>1, <2>3, <2>4 DEF Kept
<1> QED  BY <1>4, <1>5

LEMMA KeptCutShort ==
  ASSUME NEW a \in Archive, Within(a), NEW b \in CutShort(a), NEW n
  PROVE  Kept(a, b, n)
BY KeptAppend, BlockTypes DEF CutShort, Kept

\* A write to the directory that leaves the entry of n alone.
LEMMA KeptDir ==
  ASSUME NEW a \in Archive, Within(a), NEW b \in Archive, OneEntryEach(b), NEW n \in Name,
         b.log = a.log, DOMAIN b.dir = DOMAIN a.dir,
         \A i \in DOMAIN a.dir : a.dir[i].name = n =>
            b.dir[i].name = n /\ b.dir[i].off = a.dir[i].off
  PROVE  Kept(a, b, n)
<1>1. CASE Find(a, n) = 0  BY <1>1 DEF Kept
<1>2. CASE Find(a, n) # 0
  <2> DEFINE i == Find(a, n)
             o == a.dir[i].off
  <2>1. i \in DOMAIN a.dir /\ a.dir[i].name = n  BY <1>2, FindFacts
  <2>2. b.dir[i].name = n /\ b.dir[i].off = o  BY <2>1
  <2>3. o \in 0..Eof(a)  BY <2>1, EntryTypes, EofType DEF Within
  <2> HIDE DEF i
  <2>4. Find(b, n) = i  BY <2>1, <2>2, GetOf
  <2>5. Chain(b)[o] = Chain(a)[o]  BY <2>3, ChainSameLog
  <2>6. History(b, n) = History(a, n)
    BY <1>2, <2>2, <2>4, <2>5 DEF History, i
  <2>7. \A r : ReadAt(b, r) = ReadAt(a, r)  BY ChainSameLog
  <2> QED  BY <2>6, <2>7 DEF Kept
<1> QED  BY <1>1, <1>2

\* A write to the entry of n itself, behind the link to what it had before.
LEMMA KeptEntry ==
  ASSUME NEW a \in Archive, Within(a), OneEntryEach(a), NEW n \in Name, NEW v,
         NEW i \in DOMAIN a.dir, \A j \in DOMAIN a.dir : a.dir[j].name = n => j = i,
         a.log # <<>>, a.log[Len(a.log)] = Link(a.dir[i].off), a.dir[i].off < Eof(a)
  PROVE  Kept(a, SetEntry(a, i, n, v), n)
<1>1. PICK b : b = SetEntry(a, i, n, v)  OBVIOUS
<1>2. b \in Archive /\ OneEntryEach(b)  BY <1>1, SetEntryFacts, SetEntryUnique
<1>3. DOMAIN b.dir = DOMAIN a.dir  BY <1>1, SetEntryFacts
<1>4. b.log = a.log  BY <1>1 DEF SetEntry, Archive
<1>5. b.dir[i].name = n /\ b.dir[i].off = IF v = EmptyVal THEN 0 ELSE Eof(a)
  BY <1>1, SetEntryFacts
<1>6. Find(b, n) = i  BY <1>2, <1>3, <1>5, GetOf
<1>7. CASE Find(a, n) = 0  BY <1>1, <1>7 DEF Kept
<1>8. CASE Find(a, n) # 0
  <2>1. Find(a, n) = i  BY <1>8, FindFacts
  <2> DEFINE o == a.dir[i].off
  <2>2. o \in Nat /\ Eof(a) \in Nat /\ Eof(a) = Len(a.log) + 1 /\ Len(a.log) \in Nat
    BY EntryTypes, EofType
  <2>3. Len(a.log) # 0 /\ Len(a.log) \in DOMAIN a.log
    BY <2>2, EmptySeq, LenProperties DEF Archive
  <2>4. Prev(a, Eof(a)) = o
    BY <2>2, <2>3 DEF Prev, Link
  <2>5. Chain(a)[Eof(a)] = {Eof(a)} \cup Chain(a)[o]
    BY <2>2, <2>4, ChainFacts
  <2>6. Chain(b)[Eof(a)] = Chain(a)[Eof(a)] /\ \A r : ReadAt(b, r) = ReadAt(a, r)
    BY <1>2, <1>4, <2>2, ChainSameLog
  <2>7. History(a, n) = Chain(a)[o]  BY <1>8, <2>1 DEF History
  <2>8. CASE o = 0
    <3>1. History(a, n) = {}  BY <2>7, <2>8, ChainFacts
    <3> QED  BY <1>1, <3>1 DEF Kept
  <2>9. CASE o # 0 /\ b.dir[i].off # 0
    <3>1. History(b, n) = Chain(b)[Eof(a)]  BY <1>5, <1>6, <1>8, <2>1, <2>9 DEF History
    <3> QED  BY <1>1, <2>5, <2>6, <2>7, <3>1 DEF Kept
  <2>10. CASE o # 0 /\ b.dir[i].off = 0
    BY <1>1, <1>6, <2>1, <2>10 DEF Kept
  <2> QED  BY <2>8, <2>9, <2>10
<1> QED  BY <1>7, <1>8
-----------------------------------------------------------------------------
(***************************************************************************)
(* RevInv is inductive, whatever faults happen.                            *)
(***************************************************************************)
LEMMA WithinPut1 ==
  ASSUME NEW a \in Archive, Within(a), NEW b \in Block
  PROVE  Within(Put1(a, b))
<1>1. Put1(a, b) \in Archive  BY Put1Facts
<1>2. \A i \in DOMAIN Put1(a, b).dir : Put1(a, b).dir[i].off < Eof(Put1(a, b))
  BY WithinAppend DEF Within
<1> QED  BY <1>1, <1>2, EntryTypes, EofType DEF Within

LEMMA WithinSetEntry ==
  ASSUME NEW a \in Archive, Within(a), NEW i, NEW n \in Name \cup {NoName}, NEW v
  PROVE  Within(SetEntry(a, i, n, v))
<1>1. PICK b : b = SetEntry(a, i, n, v)  OBVIOUS
<1>2. b \in Archive  BY <1>1, SetEntryFacts
<1>3. DOMAIN b.dir = DOMAIN a.dir  BY <1>1, SetEntryFacts
<1>4. b.log = a.log  BY <1>1 DEF SetEntry, Archive
<1>5. Eof(b) = Eof(a) /\ Eof(a) \in Nat  BY <1>4, EofType DEF Eof
<1>6. \A j \in DOMAIN a.dir : b.dir[j].off = IF j # i THEN a.dir[j].off
                                             ELSE IF v = EmptyVal THEN 0 ELSE Eof(a)
  BY <1>1, SetEntryFacts
<1>7. Within(b)  BY <1>3, <1>5, <1>6 DEF Within
<1> QED  BY <1>1, <1>7

LEMMA WithinSetGroup ==
  ASSUME NEW a \in Archive, Within(a), NEW i, NEW g \in Group
  PROVE  Within(SetGroup(a, i, g))
<1>1. PICK b : b = SetGroup(a, i, g)  OBVIOUS
<1>2. DOMAIN b.dir = DOMAIN a.dir  BY <1>1, SetGroupFacts
<1>3. b.log = a.log  BY <1>1 DEF SetGroup
<1>4. \A j \in DOMAIN a.dir : b.dir[j].off = a.dir[j].off  BY <1>1, SetGroupFacts
<1>5. Within(b)  BY <1>2, <1>3, <1>4 DEF Within, Eof
<1> QED  BY <1>1, <1>5

LEMMA WithinNew == ASSUME NEW n \in Nat PROVE Within(NewArchive(n))
<1>1. PICK b : b = NewArchive(n)  OBVIOUS
<1>2. b \in Archive /\ b.dir = [i \in 1..n |-> Free]  BY <1>1, NewArchiveFacts
<1>3. \A i \in DOMAIN b.dir : b.dir[i].off = 0  BY <1>2 DEF Free
<1>4. Within(b)  BY <1>2, <1>3, EofType DEF Within
<1> QED  BY <1>1, <1>4

LEMMA WithinCutShort ==
  ASSUME NEW a \in Archive, Within(a), NEW b \in CutShort(a)
  PROVE  Within(b)
BY WithinPut1, BlockTypes DEF CutShort

\* Steps after which no entry is about to be written and no copy is made.
LEMMA RestRevInv ==
  ASSUME IInv', WithinFile', pc' \notin {"entry", "copy", "swap"}
  PROVE  RevInv'
BY DEF RevInv, Linked

LEMMA PutLinkRevInv == ASSUME RevInv, PutLink PROVE RevInv'
<1>1. IInv'  BY PutIInv DEF RevInv
<1>2. main \in Archive /\ pc' = "entry" /\ UNCHANGED arg /\ Within(main)
  BY ArchiveIsArchive DEF PutLink, RevInv, IInv, Shape, WithinFile
<1>3. slot' \in DOMAIN main.dir /\ main.dir[slot'].name \in {NoName, arg.name}
  <2>1. Find(main, arg.name) # 0 =>
          /\ Find(main, arg.name) \in DOMAIN main.dir
          /\ main.dir[Find(main, arg.name)].name = arg.name
    BY <1>2, FindFacts
  <2>2. Find(main, NoName) # 0 =>
          /\ Find(main, NoName) \in DOMAIN main.dir
          /\ main.dir[Find(main, NoName)].name = NoName
    BY <1>2, FindFacts
  <2> QED  BY <2>1, <2>2 DEF PutLink, SlotFor
<1> DEFINE o == main.dir[slot'].off
<1>4. o \in Nat /\ o <= Eof(main)  BY <1>2, <1>3, EntryTypes DEF Within
<1>5. main' = Put1(main, Link(o)) /\ Link(o) \in Block
  BY <1>4, BlockTypes DEF PutLink
<1>6. main' \in Archive /\ main'.dir = main.dir /\ main'.log = Append(main.log, Link(o))
  BY <1>2, <1>5, Put1Facts
<1>7. main'.log # <<>> /\ main'.log[Len(main'.log)] = Link(o) /\ Eof(main') = Eof(main) + 1
  <2>1. main.log \in Seq(Block)  BY <1>2 DEF Archive
  <2> QED  BY <1>5, <1>6, <2>1, AppendProperties, LenProperties, EmptySeq DEF Eof
<1> HIDE DEF o
<1>8. WithinFile'  BY <1>2, <1>5, WithinPut1 DEF WithinFile
<1>9. o < Eof(main')  BY <1>2, <1>4, <1>7, EofType
<1>10. main'.dir[slot'].off = o /\ main'.dir[slot'].name \in {NoName, arg.name}
  BY <1>3, <1>6 DEF o
<1>11. Linked'  BY <1>2, <1>7, <1>9, <1>10 DEF Linked
<1> QED  BY <1>1, <1>2, <1>8, <1>11 DEF RevInv

LEMMA PutRevInv ==
  ASSUME RevInv,
         \/ \E n \in Name, v \in Value, g \in Group : PutCall(n, v, g)
         \/ PutOpen \/ PutFormat \/ PutFull \/ PutEntry \/ PutPayload \/ PutGroup
         \/ PutReturn \/ \E n \in Name : Erase(n)
  PROVE  RevInv'
<1>1. IInv'  BY PutIInv, EraseIInv, EndIInv DEF RevInv
<1>2. pc' \notin {"entry", "copy", "swap"}
  BY DEF PutCall, PutOpen, PutFormat, PutFull, PutEntry, PutPayload, PutGroup, PutReturn,
         Idle, Erase
<1>3. main' = main \/ main' = Blank => WithinFile'
  BY ArchiveIsArchive DEF RevInv, WithinFile
<1>4. CASE main' = main \/ main' = Blank
  BY <1>1, <1>2, <1>3, <1>4, RestRevInv
<1>5. CASE PutFormat
  <2>1. Within(main')  BY <1>5, BoundAssumption, WithinNew DEF PutFormat
  <2> QED  BY <1>1, <1>2, <2>1, RestRevInv DEF WithinFile
<1>6. CASE PutEntry \/ PutPayload \/ PutGroup
  <2>1. main \in Archive /\ Within(main) /\ arg.name \in Name /\ arg.val \in Value
        /\ arg.grp \in Group
    BY <1>6, ArchiveIsArchive
    DEF PutEntry, PutPayload, PutGroup, RevInv, WithinFile, IInv, Shape, TypeOK, Arg
  <2>2. Within(main')
    BY <1>6, <2>1, WithinSetEntry, WithinPut1, WithinSetGroup, BlockTypes
    DEF PutEntry, PutPayload, PutGroup, AddData
  <2> QED  BY <1>1, <1>2, <2>2, RestRevInv DEF WithinFile
<1>7. CASE \E n \in Name : Erase(n)
  <2>1. main \in Archive /\ Within(main)
    BY <1>7, ArchiveIsArchive DEF Erase, RevInv, WithinFile, IInv, TypeOK
  <2>2. Within(main')  BY <1>7, <2>1, WithinSetEntry DEF Erase
  <2> QED  BY <1>1, <1>2, <2>2, RestRevInv DEF WithinFile
<1> QED  BY <1>4, <1>5, <1>6, <1>7 DEF PutCall, PutOpen, PutFull, PutReturn

LEMMA CompactRevInv ==
  ASSUME RevInv,
         \/ CompactCall \/ CompactCreate \/ CompactItem \/ CompactThrow \/ CompactBackup
         \/ CompactSwap \/ DiskFullInCopy
  PROVE  RevInv'
<1>1. IInv'  BY CompactIInv, EndIInv DEF RevInv
<1>2. CASE CompactCall \/ CompactThrow
  <2>1. WithinFile' /\ pc' \notin {"entry", "copy", "swap"}
    BY <1>2 DEF CompactCall, CompactThrow, Idle, RevInv, WithinFile
  <2> QED  BY <1>1, <2>1, RestRevInv
<1>3. CASE CompactCreate
  <2>1. main \in Archive  BY <1>3 DEF CompactCreate, RevInv, IInv, Shape
  <2>2. Within(new')
    BY <1>3, <2>1, LiveFinite, BoundAssumption, WithinNew DEF CompactCreate
  <2>3. WithinFile' /\ Linked'  BY <1>3 DEF CompactCreate, RevInv, WithinFile, Linked
  <2> QED  BY <1>1, <2>2, <2>3 DEF RevInv
<1>4. CASE CompactItem \/ DiskFullInCopy
  <2>1. main \in Archive /\ new \in Archive /\ Within(new) /\ UNCHANGED <<main, pc>>
        /\ pc = "copy"
    BY <1>4 DEF CompactItem, DiskFullInCopy, RevInv, IInv, Shape
  <2>2. CASE new' = new  BY <1>1, <2>1, <2>2 DEF RevInv, WithinFile, Linked
  <2>3. CASE new' # new
    <3>1. k \in Live(main)
      BY <1>4, <2>3 DEF CompactItem, DiskFullInCopy
    <3>2. /\ Source.name \in Name /\ Source.grp \in Group
          /\ ReadAt(main, Source.off) \in Value \cup {Damaged}
      BY <2>1, <3>1, EntryTypes, ReadType DEF Source, Live
    <3>3. ASSUME NEW v PROVE LET b == SetEntry(new, Target, Source.name, v)
                             IN  b \in Archive /\ Within(b)
      BY <2>1, <3>2, SetEntryFacts, WithinSetEntry
    <3>4. CASE DiskFullInCopy
      <4>1. Within(new')
        BY <3>3, <3>4, WithinCutShort DEF DiskFullInCopy
      <4> QED  BY <1>1, <2>1, <4>1 DEF RevInv, WithinFile, Linked
    <3>5. CASE CompactItem
      <4> DEFINE v == ReadAt(main, Source.off)
      <4>1. PICK b : b = SetEntry(new, Target, Source.name, v)  OBVIOUS
      <4>2. new' = SetGroup(AddData(b, v), Target, Source.grp)
        BY <3>1, <3>5, <4>1 DEF CompactItem, CopyAs
      <4>3. v \in Value \cup {Damaged}  BY <3>2
      <4> HIDE DEF v
      <4>4. b \in Archive /\ Within(b)  BY <3>3, <4>1
      <4>5. AddData(b, v) \in Archive /\ Within(AddData(b, v))
        BY <4>3, <4>4, AddDataFacts, WithinPut1, BlockTypes DEF AddData
      <4>6. Within(new')  BY <3>2, <4>2, <4>5, WithinSetGroup
      <4> QED  BY <1>1, <2>1, <4>6 DEF RevInv, WithinFile, Linked
    <3> QED  BY <1>4, <3>4, <3>5
  <2> QED  BY <2>2, <2>3
<1>5. CASE CompactBackup
  BY <1>1, <1>5, ArchiveIsArchive DEF CompactBackup, RevInv, WithinFile, Linked
<1>6. CASE CompactSwap
  <2>1. WithinFile' /\ pc' \notin {"entry", "copy", "swap"}
    BY <1>6 DEF CompactSwap, RevInv, WithinFile
  <2> QED  BY <1>1, <2>1, RestRevInv
<1> QED  BY <1>2, <1>3, <1>4, <1>5, <1>6

LEMMA FaultRevInv ==
  ASSUME RevInv, Crash \/ DiskFullInLink \/ DiskFullInPut
  PROVE  RevInv'
<1>1. IInv'  BY PutIInv, EndIInv DEF RevInv
<1>2. pc' \notin {"entry", "copy", "swap"}
  BY DEF Crash, DiskFullInLink, DiskFullInPut, Idle
<1>3. CASE main' = main  BY <1>1, <1>2, <1>3, RestRevInv DEF RevInv, WithinFile
<1>4. CASE main' # main
  <2>1. main \in Archive /\ main' \in CutShort(main) /\ Within(main)
    BY <1>4, ArchiveIsArchive
    DEF Crash, DiskFullInLink, DiskFullInPut, RevInv, IInv, Shape, WithinFile
  <2>2. WithinFile'  BY <2>1, WithinCutShort DEF WithinFile
  <2> QED  BY <1>1, <1>2, <2>2, RestRevInv
<1> QED  BY <1>3, <1>4

LEMMA NextRevInv == RevInv /\ [Next]_vars => RevInv'
<1>1. ASSUME RevInv, UNCHANGED vars PROVE RevInv'
  BY <1>1, StutterIInv DEF RevInv, vars, WithinFile, Within, Linked, IsArchive, Eof
<1> QED
  BY <1>1, PutRevInv, PutLinkRevInv, CompactRevInv, FaultRevInv DEF Next, Step
-----------------------------------------------------------------------------
(***************************************************************************)
(* A step of the archive loses no revision.                                *)
(***************************************************************************)
LEMMA WriteKeeps ==
  ASSUME RevInv, PutLink \/ PutEntry \/ PutPayload \/ PutGroup, NEW n \in Name
  PROVE  Kept(main, main', n)
<1>1. main \in Archive /\ Within(main) /\ OneEntryEach(main) /\ arg \in Arg
      /\ arg.name \in Name
  BY ArchiveIsArchive
  DEF PutLink, PutEntry, PutPayload, PutGroup, RevInv, WithinFile, IInv, Shape,
      UniqueNames, TypeOK
<1>2. arg.val \in Value /\ arg.grp \in Group  BY <1>1 DEF Arg
<1>3. CASE PutLink
  <2>1. slot' \in DOMAIN main.dir
    <3>1. Find(main, arg.name) # 0 => Find(main, arg.name) \in DOMAIN main.dir
      BY <1>1, FindFacts
    <3>2. Find(main, NoName) # 0 => Find(main, NoName) \in DOMAIN main.dir
      BY <1>1, FindFacts
    <3> QED  BY <1>3, <3>1, <3>2 DEF PutLink, SlotFor
  <2> QED  BY <1>1, <1>3, <2>1, EntryTypes, BlockTypes, KeptAppend DEF PutLink
<1>4. CASE PutEntry
  <2>1. /\ slot \in DOMAIN main.dir /\ main.dir[slot].name \in {NoName, arg.name}
        /\ \A i \in DOMAIN main.dir : main.dir[i].name = arg.name => i = slot
        /\ main.log # <<>> /\ main.log[Len(main.log)] = Link(main.dir[slot].off)
        /\ main.dir[slot].off < Eof(main)
        /\ main' = SetEntry(main, slot, arg.name, arg.val)
    BY <1>4 DEF PutEntry, RevInv, Linked, IInv, SlotIsOwn
  <2>2. CASE n = arg.name  BY <1>1, <2>1, <2>2, KeptEntry
  <2>3. CASE n # arg.name
    <3>1. main' \in Archive  BY <1>1, <2>1, SetEntryFacts
    <3>2. OneEntryEach(main')  BY <1>1, <2>1, SetEntryUnique
    <3>3. DOMAIN main'.dir = DOMAIN main.dir  BY <1>1, <2>1, SetEntryFacts
    <3>4. main'.log = main.log  BY <2>1 DEF SetEntry
    <3>5. \A i \in DOMAIN main.dir : main.dir[i].name = n => i # slot
      BY <2>1, <2>3, NameAssumption
    <3>6. \A i \in DOMAIN main.dir : i # slot =>
            main'.dir[i].name = main.dir[i].name /\ main'.dir[i].off = main.dir[i].off
      BY <1>1, <2>1, SetEntryFacts
    <3> QED  BY <1>1, <3>1, <3>2, <3>3, <3>4, <3>5, <3>6, KeptDir
  <2> QED  BY <2>2, <2>3
<1>5. CASE PutPayload
  <2>1. CASE arg.val = EmptyVal
    BY <1>5, <2>1 DEF PutPayload, AddData, Kept
  <2>2. CASE arg.val # EmptyVal
    BY <1>1, <1>2, <1>5, <2>2, BlockTypes, KeptAppend DEF PutPayload, AddData
  <2> QED  BY <2>1, <2>2
<1>6. CASE PutGroup
  <2>1. main' = SetGroup(main, slot, arg.grp)  BY <1>6 DEF PutGroup
  <2>2. main' \in Archive  BY <1>1, <1>2, <2>1, SetGroupFacts
  <2>3. OneEntryEach(main')  BY <1>1, <1>2, <2>1, SetGroupUnique
  <2>4. DOMAIN main'.dir = DOMAIN main.dir  BY <1>1, <1>2, <2>1, SetGroupFacts
  <2>5. main'.log = main.log  BY <2>1 DEF SetGroup
  <2>6. \A i \in DOMAIN main.dir :
          main'.dir[i].name = main.dir[i].name /\ main'.dir[i].off = main.dir[i].off
    BY <1>1, <1>2, <2>1, SetGroupFacts
  <2> QED  BY <1>1, <2>2, <2>3, <2>4, <2>5, <2>6, KeptDir
<1> QED  BY <1>3, <1>4, <1>5, <1>6

LEMMA EraseKeeps ==
  ASSUME RevInv, NEW m \in Name, Erase(m), NEW n \in Name
  PROVE  Kept(main, main', n)
<1>1. main \in Archive /\ Within(main) /\ OneEntryEach(main)
  BY ArchiveIsArchive DEF Erase, RevInv, WithinFile, IInv, TypeOK, UniqueNames
<1> DEFINE i == Find(main, m)
<1>2. i \in DOMAIN main.dir /\ main.dir[i].name = m  BY <1>1, FindFacts DEF Erase
<1>3. main' = SetEntry(main, i, NoName, EmptyVal)  BY DEF Erase
<1> HIDE DEF i
<1>4. main' \in Archive  BY <1>1, <1>3, SetEntryFacts
<1>5. OneEntryEach(main')  BY <1>1, <1>3, SetEntryUnique
<1>6. DOMAIN main'.dir = DOMAIN main.dir  BY <1>1, <1>3, SetEntryFacts
<1>7. main'.log = main.log  BY <1>3 DEF SetEntry
<1>8. \A j \in DOMAIN main.dir :
        /\ main'.dir[j].name = IF j = i THEN NoName ELSE main.dir[j].name
        /\ j # i => main'.dir[j].off = main.dir[j].off
  BY <1>1, <1>3, SetEntryFacts
<1>9. CASE n = m
  <2>1. \A j \in DOMAIN main.dir : main.dir[j].name = m => j = i
    BY <1>1, <1>2, ArchiveIsArchive, NameAssumption DEF OneEntryEach, Live
  <2>2. Find(main', n) = 0
    BY <1>4, <1>6, <1>8, <1>9, <2>1, FindFacts, NameAssumption
  <2> QED  BY <2>2 DEF Kept
<1>10. CASE n # m
  <2>1. \A j \in DOMAIN main.dir : main.dir[j].name = n =>
          main'.dir[j].name = n /\ main'.dir[j].off = main.dir[j].off
    BY <1>2, <1>8, <1>10
  <2> QED  BY <1>1, <1>4, <1>5, <1>6, <1>7, <2>1, KeptDir
<1> QED  BY <1>9, <1>10

LEMMA StepKeeps ==
  ASSUME RevInv, [Next]_vars, pc # "swap", NEW n \in Name
  PROVE  RevisionKept(n)
<1>1. SUFFICES ASSUME IsArchive(main), IsArchive(main') PROVE Kept(main, main', n)
  BY DEF RevisionKept, Kept
<1>2. main \in Archive /\ Within(main)
  BY <1>1, ArchiveIsArchive DEF RevInv, WithinFile, IInv, TypeOK
<1>3. CASE main' = main  BY <1>3 DEF Kept
<1>4. CASE main' \in CutShort(main)  BY <1>2, <1>4, KeptCutShort
<1>5. CASE PutLink \/ PutEntry \/ PutPayload \/ PutGroup  BY <1>5, WriteKeeps
<1>6. CASE \E m \in Name : Erase(m)  BY <1>6, EraseKeeps
<1>7. CASE PutFormat
  BY <1>1, <1>7, ArchiveIsArchive DEF PutFormat, RevInv, IInv, Shape
<1> QED
  BY <1>1, <1>3, <1>4, <1>5, <1>6, <1>7, ArchiveIsArchive
  DEF Next, Step, vars, PutCall, PutOpen, PutFull, PutReturn, CompactCall, CompactCreate,
      CompactItem, CompactThrow, CompactBackup, CompactSwap, Crash, DiskFullInLink,
      DiskFullInPut, DiskFullInCopy

(***************************************************************************)
(* Whatever is put, erased or killed and however full the disk, no step    *)
(* other than the swap of a compaction takes a revision from a file that   *)
(* keeps its entry and a content of its own, or changes what it reads as.  *)
(***************************************************************************)
THEOREM RevisionsStay == Spec => RevisionsKept
<1>1. Init => RevInv
  <2> SUFFICES ASSUME Init PROVE RevInv
    OBVIOUS
  <2> QED  BY InitIInv, ArchiveIsArchive DEF Init, RevInv, WithinFile, Linked
<1>2. RevInv /\ [Next]_vars => RevInv'  BY NextRevInv
<1>3. RevInv /\ [Next]_vars => [pc # "swap" => \A n \in Name : RevisionKept(n)]_vars
  BY StepKeeps
<1> QED  BY <1>1, <1>2, <1>3, PTL DEF Spec, RevisionsKept
=============================================================================
