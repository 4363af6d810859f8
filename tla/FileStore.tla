------------------------------ MODULE FileStore ------------------------------
(***************************************************************************)
(* What a DDL archive promises its callers (class DDLManager, ddlman.hpp): *)
(* a map from file names to a content and a group, changed by one writer   *)
(* at a time.  `store` is what a reader would get, `writing` the file a    *)
(* put is working on and `compacting` says that the archive is being       *)
(* rewritten.  A crash may spoil the file being written and no other; a    *)
(* crash while the archive is rewritten may leave an empty archive.        *)
(***************************************************************************)
EXTENDS Naturals

CONSTANTS Name,      \* file names
          NoName,    \* no file is being written
          Value,     \* file contents
          Damaged,   \* a content nobody stored, or a read that fails
          Group,     \* file groups; 0 asks to leave the group alone
          NoFile     \* the value of a name that is not in the archive

VARIABLES store, writing, compacting
vars == <<store, writing, compacting>>

File == [val : Value \cup {Damaged}, grp : Group]
Empty == [n \in Name |-> NoFile]

Init == store = Empty /\ writing = NoName /\ compacting = FALSE

(***************************************************************************)
(* A put announces its file and later stores it at once.  A group of 0     *)
(* keeps the group of a file that exists; that of a new file is left over  *)
(* from whatever used its directory slot before.                           *)
(***************************************************************************)
BeginPut(n) ==
  /\ writing = NoName /\ ~compacting
  /\ writing' = n
  /\ UNCHANGED <<store, compacting>>

CommitPut(v, g) ==
  /\ writing # NoName /\ ~compacting
  /\ \E h \in Group :
       /\ g # 0 => h = g
       /\ (g = 0 /\ store[writing] # NoFile) => h = store[writing].grp
       /\ store' = [store EXCEPT ![writing] = [val |-> v, grp |-> h]]
  /\ UNCHANGED <<writing, compacting>>

EndPut == /\ writing' = NoName /\ compacting' = FALSE
          /\ UNCHANGED store

Erase(n) ==
  /\ writing = NoName /\ ~compacting
  /\ store' = [store EXCEPT ![n] = NoFile]
  /\ UNCHANGED <<writing, compacting>>

BeginCompact == ~compacting /\ compacting' = TRUE /\ UNCHANGED <<store, writing>>
EndCompact == compacting /\ compacting' = FALSE /\ UNCHANGED <<store, writing>>

Next == \/ \E n \in Name : BeginPut(n) \/ Erase(n)
        \/ \E v \in Value, g \in Group : CommitPut(v, g)
        \/ EndPut \/ BeginCompact \/ EndCompact

Spec == Init /\ [][Next]_vars

(***************************************************************************)
(* The same store when the process may be killed during an operation.      *)
(***************************************************************************)
Crash ==
  /\ writing' = NoName /\ compacting' = FALSE
  /\ \/ writing # NoName /\ ~compacting
        /\ \E f \in File : store' = [store EXCEPT ![writing] = f]
     \/ compacting /\ store' = Empty

=============================================================================
