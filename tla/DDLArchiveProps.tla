--------------------------- MODULE DDLArchiveProps ---------------------------
(***************************************************************************)
(* What DDLArchive is meant to guarantee.                                  *)
(***************************************************************************)
EXTENDS DDLArchive

Disk == Archive \cup {Absent, Blank}

\* Types: the three files, the running operation and its registers.
TypeOK ==
  /\ main \in Disk /\ bak \in Disk /\ new \in Disk
  /\ pc \in {"idle", "open", "format", "find", "entry", "payload", "group",
             "done", "create", "copy", "swap"}
  /\ arg \in Arg /\ slot \in Nat /\ k \in Nat
  /\ before \in File \cup {NoFile}

(***************************************************************************)
(* UniqueNames: whatever sequence of puts, erases, compactions and kills   *)
(* happened, no archive on the disk has two entries for one name.  Were it *)
(* otherwise, find_file would return the older of the two and erase would  *)
(* bring the other back.                                                   *)
(***************************************************************************)
OneEntryEach(a) ==
  IsArchive(a) => \A i, j \in Live(a) : a.dir[i].name = a.dir[j].name => i = j
UniqueNames == OneEntryEach(main) /\ OneEntryEach(bak) /\ OneEntryEach(new)

(***************************************************************************)
(* RevisionsKept: a revision that get_history lists stays listed for the   *)
(* same file, and get(name, rev) keeps returning the same content, as long *)
(* as the archive is not compacted, the file is not erased and no empty    *)
(* content is stored (both write offset 0, which ends the chain).  It      *)
(* holds across kills too: the link to the old version is on the disk      *)
(* before the entry moves on.                                              *)
(***************************************************************************)
RevisionKept(n) ==
  /\ IsArchive(main) /\ IsArchive(main')
  /\ Find(main, n) # 0 /\ Find(main, n)' # 0
  /\ main.dir[Find(main, n)].off # 0 => (main.dir[Find(main, n)].off)' # 0
  => /\ History(main, n) \subseteq History(main, n)'
     /\ \A o \in History(main, n) : o \in DOMAIN main.log =>
          ReadAt(main, o)' = ReadAt(main, o)
RevisionsKept == [][pc # "swap" => \A n \in Name : RevisionKept(n)]_vars

(***************************************************************************)
(* PutReturns: every call ends.  put() calls itself again after compact(), *)
(* so this needs compaction to leave a free entry behind, and each file it *)
(* cannot read to end it by the exception.                                 *)
(***************************************************************************)
PutReturns == pc # "idle" ~> pc = "idle"

(***************************************************************************)
(* Refinement: the archive is a FileStore.  A put takes effect with its    *)
(* last write (readers wait for the server's lock meanwhile); while the    *)
(* archive is renamed away its content is the backup's.                    *)
(***************************************************************************)
Visible(n) ==
  LET a == IF pc = "swap" THEN bak ELSE main
  IN IF ~IsArchive(a) THEN NoFile
     ELSE IF pc \in {"payload", "group"} /\ n = arg.name THEN before
     ELSE Get(a, n)

Store == INSTANCE FileStore WITH
           store <- [n \in Name |-> Visible(n)],
           writing <- arg.name,
           compacting <- pc \in {"create", "copy", "swap"}

\* ImplementsStore: every write of put, erase and compact is a step of the store
\* or none, and a kill of the process at any point spoils at most the file that
\* was being written, or leaves an empty archive when it hits between the two
\* renames.
ImplementsStore ==
  Store!Init /\ [][Store!Next \/ (Crash /\ Store!Crash)]_(Store!vars)
-----------------------------------------------------------------------------
(***************************************************************************)
(* The inductive invariant behind the theorems of DDLArchive_proofs.       *)
(***************************************************************************)
\* which of the three files is an archive at which step
Shape ==
  /\ pc \in {"find", "entry", "payload", "group", "done", "create", "copy"}
       => main \in Archive
  /\ pc = "format" => main = Blank
  /\ pc \in {"copy", "swap"} => new \in Archive
  /\ pc = "swap" => bak \in Archive /\ main = Absent
  /\ pc \in {"open", "format", "find", "entry", "payload", "group", "done"}
       => arg.name \in Name

\* the entry a put is about to write is the only one that may have its name
SlotIsOwn ==
  /\ pc = "entry" => /\ slot \in DOMAIN main.dir
                     /\ \A i \in DOMAIN main.dir :
                          main.dir[i].name = arg.name => i = slot
  /\ pc \in {"payload", "group"} => slot \in DOMAIN main.dir

\* the copy names only files of the entries already visited
CopyNames ==
  pc = "copy" => \A i \in Live(new) : \E j \in Live(main) :
                   j < k /\ main.dir[j].name = new.dir[i].name

IInv == TypeOK /\ Shape /\ UniqueNames /\ SlotIsOwn /\ CopyNames

(***************************************************************************)
(* What the refinement needs beyond that, on a disk that is never full.    *)
(***************************************************************************)
\* no entry leads behind the end of the file; it may lead to the end itself
\* when a kill came between the entry and its content
Within(a) == \A i \in DOMAIN a.dir : a.dir[i].off <= Eof(a)
WithinFile == IsArchive(main) => Within(main)
\* no file is announced between two calls
Between == pc = "idle" => arg.name = NoName

\* the state of a put: the entry it found, what it has written of it, and that
\* no other entry leads to where the content goes
Written == /\ slot \in DOMAIN main.dir /\ main.dir[slot].name = arg.name
           /\ before # NoFile => main.dir[slot].grp = before.grp
Pending ==
  /\ pc = "entry" => /\ before = Get(main, arg.name)
                     /\ main.dir[slot].name \in {NoName, arg.name}
  /\ pc \in {"entry", "payload"} => \A i \in DOMAIN main.dir :
       main.dir[i].off = Eof(main) => pc = "payload" /\ i = slot
  /\ pc \in {"payload", "group"} => Written
  /\ pc = "payload" => main.dir[slot].off = IF arg.val = EmptyVal THEN 0 ELSE Eof(main)
  /\ pc = "group" => ReadAt(main, main.dir[slot].off) = arg.val

\* the copy: each file visited has its entry, and the entries from Target on
\* are still free
CopyHas(j) ==
  \E i \in DOMAIN new.dir : /\ new.dir[i].name = main.dir[j].name
                            /\ new.dir[i].grp = main.dir[j].grp
                            /\ ReadAt(new, new.dir[i].off) = ReadAt(main, main.dir[j].off)
Copied ==
  /\ pc = "copy" => /\ Len(new.dir) = Cardinality(Live(main)) + Reserve
                    /\ \A j \in Live(main) : j < k => CopyHas(j)
                    /\ \A i \in DOMAIN new.dir : i >= Target => new.dir[i] = Free
                    /\ \A i \in DOMAIN new.dir : new.dir[i].off <= Len(new.log)
  /\ pc = "swap" => /\ \A n \in Name : Get(new, n) = Get(bak, n)
                    /\ \A i \in DOMAIN new.dir : new.dir[i].off <= Len(new.log)

StoreInv == IInv /\ Between /\ WithinFile /\ Pending /\ Copied

(***************************************************************************)
(* What the revisions need beyond IInv, whatever fails.                    *)
(***************************************************************************)
\* when the entry is written, the link behind the last block leads to what the
\* file had before, and nothing else loses its entry
Linked == pc = "entry" =>
  /\ main.log # <<>> /\ main.log[Len(main.log)] = Link(main.dir[slot].off)
  /\ main.dir[slot].off < Eof(main) /\ main.dir[slot].name \in {NoName, arg.name}

RevInv == /\ IInv /\ WithinFile /\ Linked
          /\ pc \in {"copy", "swap"} => Within(new)
=============================================================================
