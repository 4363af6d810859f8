------------------------------ MODULE DDLArchive ------------------------------
(***************************************************************************)
(* The DDL archive file behind every project (class DDLManager in          *)
(* src/src/miniserver/ddlman.cpp): a directory of fixed entries, followed  *)
(* by an append-only sequence of blocks.  Storing a file appends a history *)
(* link to the previous version, points the entry at the end of the file,  *)
(* and only then appends the content; nothing is ever overwritten but the  *)
(* entry.  Compaction copies the live files to <archive>.new, renames the  *)
(* archive to .bak and the copy to the archive.                            *)
(*                                                                         *)
(* Offsets are counted in blocks, not bytes: block i of the log is at      *)
(* offset i, the end of the file is Len(log)+1, and offset 0 (which the    *)
(* code writes for an empty content) reads as the empty content.  Names    *)
(* stand for the upper-cased 12 bytes the code compares.  Every write the  *)
(* code issues separately is an action of its own, so that a kill of the   *)
(* process falls between any two of them.  Readers are excluded by the     *)
(* server's lock for the length of a put (module ProjectServer).           *)
(***************************************************************************)
EXTENDS Naturals, Sequences, FiniteSets

CONSTANTS Name,      \* file names
          NoName,    \* the name of a free directory entry
          Value,     \* file contents
          EmptyVal,  \* the content of length 0
          Damaged,   \* what reading a broken block gives: an error or junk
          Group,     \* file groups; 0 leaves the group field alone
          NoFile,    \* answer for a name without an entry
          Absent,    \* a file that is not on the disk
          Blank,     \* a file of length 0
          Reserve,   \* entries a new archive gets, and a compacted one gets spare
          MaxLog,    \* bound: no put starts that could exceed this many blocks
          Faults     \* which of "crash" and "disk_full" may happen

ASSUME NameAssumption == NoName \notin Name
ASSUME ValueAssumption == EmptyVal \in Value /\ Damaged \notin Value
ASSUME GroupAssumption == 0 \in Group /\ Group \subseteq Nat
ASSUME BoundAssumption == Reserve \in Nat \ {0} /\ MaxLog \in Nat
ASSUME FaultAssumption == Faults \subseteq {"crash", "disk_full"}

VARIABLES
  main, bak, new,   \* the archive and its .bak and .new siblings
  pc,               \* the step of the running operation, "idle" between two
  arg,              \* the arguments of the running put; name = NoName in a bare compact
  slot,             \* the directory entry the put writes
  k,                \* compaction: the next entry of main to look at
  before            \* history variable: the file as it was when the put began
vars == <<main, bak, new, pc, arg, slot, k, before>>

Entry == [name : Name \cup {NoName}, off : Nat, grp : Group]
Block == [kind : {"link", "file", "torn"}, prev : Nat, val : Value \cup {Damaged}]
Archive == [dir : Seq(Entry), log : Seq(Block)]
File == [val : Value \cup {Damaged}, grp : Group]

ASSUME DiskAssumption == Absent # Blank /\ Absent \notin Archive /\ Blank \notin Archive
ASSUME FileAssumption == NoFile \notin File

Arg == [name : Name \cup {NoName}, val : Value, grp : Group]

Link(p) == [kind |-> "link", prev |-> p, val |-> Damaged]
Data(v) == [kind |-> "file", prev |-> 0, val |-> v]
Torn == [kind |-> "torn", prev |-> 0, val |-> Damaged]
Free == [name |-> NoName, off |-> 0, grp |-> 0]
NoArg == [name |-> NoName, val |-> EmptyVal, grp |-> 0]

IsArchive(a) == a \notin {Absent, Blank}
-----------------------------------------------------------------------------
(***************************************************************************)
(* Reading an archive.                                                     *)
(***************************************************************************)
Eof(a) == Len(a.log) + 1

Slots(a, n) == {i \in DOMAIN a.dir : a.dir[i].name = n}
FirstOf(S) == CHOOSE i \in S : \A j \in S : i <= j

\* find_file: the first entry with that name; 0 when there is none
Find(a, n) == IF Slots(a, n) = {} THEN 0 ELSE FirstOf(Slots(a, n))

\* get_file: what the block at an offset reads as
ReadAt(a, o) == IF o = 0 THEN EmptyVal
                ELSE IF o \in DOMAIN a.log THEN a.log[o].val ELSE Damaged

\* list and get of one name
Get(a, n) == IF Find(a, n) = 0 THEN NoFile
             ELSE LET e == a.dir[Find(a, n)]
                  IN [val |-> ReadAt(a, e.off), grp |-> e.grp]

\* get_previous_version: 0 when the block before is not a usable link
Prev(a, o) ==
  IF o > 1 /\ (o - 1) \in DOMAIN a.log /\ a.log[o - 1].kind = "link"
       /\ a.log[o - 1].prev < o
  THEN a.log[o - 1].prev ELSE 0

\* the versions an offset leads to: its own and those of the chain of links
Chain(a) == LET walk[o \in 0..Eof(a)] ==
                  IF o = 0 THEN {} ELSE {o} \cup walk[Prev(a, o)]
            IN walk

\* get_history: the revisions that get(name, rev) can return
History(a, n) == IF Find(a, n) = 0 THEN {} ELSE Chain(a)[a.dir[Find(a, n)].off]

\* get_file throws: nothing or a link is there, or the last block is cut short;
\* blocks appended behind a torn one may make up its length
MayThrow(a, o) == /\ o # 0
                  /\ o \in DOMAIN a.log => a.log[o].kind # "file"
MayRead(a, o) == \/ o = 0
                 \/ /\ o \in DOMAIN a.log
                    /\ \/ a.log[o].kind = "file"
                       \/ a.log[o].kind = "torn" /\ o < Len(a.log)

Live(a) == {i \in DOMAIN a.dir : a.dir[i].name # NoName}
NewArchive(entries) == [dir |-> [i \in 1..entries |-> Free], log |-> <<>>]
-----------------------------------------------------------------------------
(***************************************************************************)
(* Writing one: append_history_node and the three writes of replace_entry. *)
(***************************************************************************)
Put1(a, b) == [a EXCEPT !.log = Append(@, b)]
\* broken variants: the end of the file taken before the history link went out,
\* or a whole link too early
SetEntry_BeforeLink(a, i, n, v) ==
  [a EXCEPT !.dir[i] = [name |-> n, grp |-> @.grp,
                       off |-> IF v = EmptyVal THEN 0 ELSE Len(a.log)]]
SetEntry_TooLow(a, i, n, v) ==
  [a EXCEPT !.dir[i] = [name |-> n, grp |-> @.grp,
                       off |-> IF v = EmptyVal THEN 0 ELSE Len(a.log) - 1]]
SetEntry(a, i, n, v) ==
  [a EXCEPT !.dir[i] = [name |-> n, grp |-> @.grp,
                       off |-> IF v = EmptyVal THEN 0 ELSE Eof(a)]]
SetGroup(a, i, g) == IF g = 0 THEN a ELSE [a EXCEPT !.dir[i] = [@ EXCEPT !.grp = g]]
AddData(a, v) == IF v = EmptyVal THEN a ELSE Put1(a, Data(v))

\* broken variants: a free entry before the file's own, or never a free one
SlotFor_FreeFirst(a, n) ==
  IF Find(a, NoName) # 0 THEN Find(a, NoName) ELSE Find(a, n)
SlotFor_OwnOnly(a, n) == Find(a, n)

\* the entry put uses: the file's own, or a free one
SlotFor(a, n) == IF Find(a, n) # 0 THEN Find(a, n) ELSE Find(a, NoName)

Init == /\ main = Absent /\ bak = Absent /\ new = Absent
        /\ pc = "idle" /\ arg = NoArg /\ slot = 0 /\ k = 0 /\ before = NoFile

Idle == pc' = "idle" /\ arg' = NoArg /\ slot' = 0 /\ k' = 0 /\ before' = NoFile

PutCall(n, v, g) ==
  /\ pc = "idle"
  /\ IsArchive(main) => Len(main.log) + 2 <= MaxLog
  /\ pc' = "open" /\ arg' = [name |-> n, val |-> v, grp |-> g]
  /\ UNCHANGED <<main, bak, new, slot, k, before>>

PutOpen ==
  /\ pc = "open"
  /\ IF IsArchive(main)
     THEN pc' = "find" /\ main' = main
     ELSE pc' = "format" /\ main' = Blank
  /\ UNCHANGED <<bak, new, arg, slot, k, before>>

PutFormat ==
  /\ pc = "format"
  /\ main' = NewArchive(Reserve) /\ pc' = "find"
  /\ UNCHANGED <<bak, new, arg, slot, k, before>>

PutLink ==
  /\ pc = "find" /\ SlotFor(main, arg.name) # 0
  /\ slot' = SlotFor(main, arg.name)
  /\ main' = Put1(main, Link(main.dir[slot'].off))
  /\ before' = Get(main, arg.name)
  /\ pc' = "entry"
  /\ UNCHANGED <<bak, new, arg, k>>

PutFull ==
  /\ pc = "find" /\ SlotFor(main, arg.name) = 0
  /\ pc' = "create"
  /\ UNCHANGED <<main, bak, new, arg, slot, k, before>>

PutEntry ==
  /\ pc = "entry"
  /\ main' = SetEntry(main, slot, arg.name, arg.val)
  /\ pc' = "payload"
  /\ UNCHANGED <<bak, new, arg, slot, k, before>>

PutPayload ==
  /\ pc = "payload"
  /\ main' = AddData(main, arg.val) /\ pc' = "group"
  /\ UNCHANGED <<bak, new, arg, slot, k, before>>

PutGroup ==
  /\ pc = "group"
  /\ main' = SetGroup(main, slot, arg.grp) /\ pc' = "done"
  /\ UNCHANGED <<bak, new, arg, slot, k, before>>

PutReturn == pc = "done" /\ Idle /\ UNCHANGED <<main, bak, new>>

\* erase: replace_entry with no name and no content leaves the group field
Erase(n) ==
  /\ pc = "idle" /\ IsArchive(main) /\ Find(main, n) # 0
  /\ main' = SetEntry(main, Find(main, n), NoName, EmptyVal)
  /\ UNCHANGED <<bak, new, pc, arg, slot, k, before>>
-----------------------------------------------------------------------------
(***************************************************************************)
(* Compaction, called for itself or by a put that found no free entry.     *)
(* Entry j of the copy's directory is filled from the (j-1)-th live one.   *)
(***************************************************************************)
CompactCall ==
  /\ pc = "idle" /\ IsArchive(main)
  /\ pc' = "create"
  /\ UNCHANGED <<main, bak, new, arg, slot, k, before>>

CompactCreate ==
  /\ pc = "create"
  /\ new' = NewArchive(Cardinality(Live(main)) + Reserve)
  /\ k' = 1 /\ pc' = "copy"
  /\ UNCHANGED <<main, bak, arg, slot, before>>

Target == Cardinality({i \in Live(main) : i < k}) + 2
Source == main.dir[k]

CopyAs(v) == SetGroup(AddData(SetEntry(new, Target, Source.name, v), v),
                      Target, Source.grp)

\* broken variant: a file that cannot be read is left out of the copy
CompactItem_Skips ==
  /\ pc = "copy" /\ k \in DOMAIN main.dir
  /\ new' = IF k \in Live(main) /\ MayRead(main, Source.off)
            THEN CopyAs(ReadAt(main, Source.off)) ELSE new
  /\ k' = k + 1
  /\ UNCHANGED <<main, bak, pc, arg, slot, before>>

CompactItem ==
  /\ pc = "copy" /\ k \in DOMAIN main.dir
  /\ IF k \in Live(main)
     THEN MayRead(main, Source.off) /\ new' = CopyAs(ReadAt(main, Source.off))
     ELSE new' = new
  /\ k' = k + 1
  /\ UNCHANGED <<main, bak, pc, arg, slot, before>>

\* a file that cannot be read ends the compaction and the put that asked for it
CompactThrow ==
  /\ pc = "copy" /\ k \in Live(main) /\ MayThrow(main, Source.off)
  /\ Idle
  /\ UNCHANGED <<main, bak, new>>

CompactBackup ==
  /\ pc = "copy" /\ k > Len(main.dir)
  /\ bak' = main /\ main' = Absent /\ pc' = "swap"
  /\ UNCHANGED <<new, arg, slot, k, before>>

CompactSwap ==
  /\ pc = "swap"
  /\ main' = new /\ new' = Absent
  /\ k' = 0 /\ pc' = IF arg.name = NoName THEN "idle" ELSE "open"
  /\ UNCHANGED <<bak, arg, slot, before>>
-----------------------------------------------------------------------------
(***************************************************************************)
(* Faults.  A kill ends the operation between two writes or inside the     *)
(* write of a content.  A full disk cuts a content short: the stream goes  *)
(* bad, the group is not written, and f.clear() drops the error, so the    *)
(* caller goes on as if the content had been stored.  When it cuts the     *)
(* history link short instead, replace_entry throws at its first seek.     *)
(***************************************************************************)
CutShort(a) == {a, Put1(a, Torn)}

Crash ==
  /\ "crash" \in Faults /\ pc # "idle"
  /\ Idle
  /\ IF pc = "payload" /\ arg.val # EmptyVal
     THEN main' \in CutShort(main) ELSE main' = main
  /\ UNCHANGED <<bak, new>>

DiskFullInLink ==
  /\ "disk_full" \in Faults /\ pc = "find" /\ SlotFor(main, arg.name) # 0
  /\ Idle
  /\ main' \in CutShort(main)
  /\ UNCHANGED <<bak, new>>

DiskFullInPut ==
  /\ "disk_full" \in Faults /\ pc = "payload" /\ arg.val # EmptyVal
  /\ main' \in CutShort(main) /\ pc' = "done"
  /\ UNCHANGED <<bak, new, arg, slot, k, before>>

DiskFullInCopy ==
  /\ "disk_full" \in Faults /\ pc = "copy" /\ k \in Live(main)
  /\ MayRead(main, Source.off) /\ ReadAt(main, Source.off) # EmptyVal
  /\ new' \in CutShort(SetEntry(new, Target, Source.name, Damaged))
  /\ k' = k + 1
  /\ UNCHANGED <<main, bak, pc, arg, slot, before>>

Step == \/ PutOpen \/ PutFormat \/ PutLink \/ PutFull \/ PutEntry \/ PutPayload
        \/ PutGroup \/ PutReturn
        \/ CompactCreate \/ CompactItem \/ CompactThrow \/ CompactBackup
        \/ CompactSwap

Next == \/ \E n \in Name, v \in Value, g \in Group : PutCall(n, v, g)
        \/ \E n \in Name : Erase(n)
        \/ CompactCall
        \/ Step
        \/ Crash \/ DiskFullInLink \/ DiskFullInPut \/ DiskFullInCopy

Spec == Init /\ [][Next]_vars

\* an operation runs on in its thread until it returns
FairSpec == Spec /\ WF_vars(Step)
=============================================================================
