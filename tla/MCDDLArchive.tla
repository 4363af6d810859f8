---------------------------- MODULE MCDDLArchive ----------------------------
(* Small instances of DDLArchive and the properties TLC checks on them.    *)
EXTENDS DDLArchiveProps, TLC

\* The .bak file is read by no step, and .new only while a compaction runs:
\* states that differ in what is left of them have the same future.
Relevant == <<main, pc, arg, slot, k, before,
              IF pc = "swap" THEN bak ELSE Absent,
              IF pc \in {"copy", "swap"} THEN new ELSE Absent>>

Symmetric == Permutations(Name) \cup Permutations(Value \ {EmptyVal})
=============================================================================
