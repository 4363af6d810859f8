----------------------------- MODULE ArrayDiff -----------------------------
(***************************************************************************)
(* utils/madiff.ts: the difference of two action lists, and its            *)
(* application to a third one.  MapEditor's Apply takes the difference     *)
(* between a side's actions and the panel's, and applies it to the sides   *)
(* the mode names, whose lists may be others.                              *)
(*                                                                         *)
(* An item is a pair <<look, body>>: two items are equal when both agree   *)
(* (JSON.stringify) and alike when their looks do (action, once, cancel    *)
(* and flags), which is what the application compares.                     *)
(***************************************************************************)
EXTENDS Naturals, Sequences, SequencesExt, FiniteSets, FiniteSetsExt

CONSTANTS Look, Body,
          MaxLen     \* bound: the length of a list
Item == Look \X Body
NoItem == <<>>       \* undefined: read past the end
Alike(c, d) == c[1] = d[1]

At(list, i) == IF i <= Len(list) THEN list[i] ELSE NoItem
Op(o, x) == [op |-> o, item |-> x]
Copies(ops) == Len(SelectSeq(ops, LAMBDA o : o.op = "c"))

\* slip: an item that is only in b is copied instead of inserted
Longer_Copies(del, ins, x, y) ==
  IF Copies(ins) > Copies(del) THEN <<Op("c", NoItem)>> \o ins ELSE <<Op("d", x)>> \o del
\* the branch that copies more, the deletion when they copy as much
Longer(del, ins, x, y) ==
  IF Copies(ins) > Copies(del) THEN <<Op("i", y)>> \o ins ELSE <<Op("d", x)>> \o del

\* create_array_diff.  walk_arrays pushes at the end and the whole is reversed;
\* walk[i, j] is the difference of the lists from i and from j on.  b is read one
\* past its end before the branch for its end is taken (ofs_b > b.length).
Diff(a, b) ==
  LET walk[i \in 1..Len(a) + 1, j \in 1..Len(b) + 2] ==
        CASE i > Len(a) -> [k \in 1..(IF j > Len(b) THEN 0 ELSE Len(b) + 1 - j)
                              |-> Op("i", b[j + k - 1])]
          [] i <= Len(a) /\ j > Len(b) + 1 -> <<Op("d", At(a, j))>> \o walk[i + 1, j]
          [] i <= Len(a) /\ j <= Len(b) + 1 ->
               IF At(b, j) = a[i] THEN <<Op("c", NoItem)>> \o walk[i + 1, j + 1]
               ELSE Longer(walk[i + 1, j], walk[i, j + 1], a[i], At(b, j))
  IN walk[1, 1]

\* slip: a deletion takes whatever is there
Kept_None(x, y) == <<>>
\* what a deletion of x leaves of the item y it meets
Kept(x, y) == IF Alike(x, y) THEN <<>> ELSE <<y>>

\* apply_array_diff: out, and the rest of the list from idx on
Patch(a, diff) ==
  LET step(o, s) ==
        CASE o.op = "i" -> [s EXCEPT !.out = Append(@, o.item)]
          [] o.op # "i" /\ s.rest = <<>> -> s
          [] o.op # "i" /\ s.rest # <<>> ->
               [out |-> s.out \o (IF o.op = "c" THEN <<Head(s.rest)>>
                                  ELSE Kept(o.item, Head(s.rest))),
                rest |-> Tail(s.rest)]
      end == FoldLeft(LAMBDA s, o : step(o, s), [out |-> <<>>, rest |-> a], diff)
  IN end.out \o end.rest

-----------------------------------------------------------------------------
\* The lists: those of the panel before and after the user's edits, and that of
\* another side.

VARIABLES before, after, other
lists == <<before, after, other>>
Init == before = <<>> /\ after = <<>> /\ other = <<>>
Longer1(l) == {Append(l, x) : x \in Item}
Next == \/ Len(before) < MaxLen /\ before' \in Longer1(before) /\ UNCHANGED <<after, other>>
        \/ Len(after) < MaxLen /\ after' \in Longer1(after) /\ UNCHANGED <<before, other>>
        \/ Len(other) < MaxLen /\ other' \in Longer1(other) /\ UNCHANGED <<before, after>>
Spec == Init /\ [][Next]_lists

\* Applied to the list it was taken from, the difference gives the panel's list:
\* the side in focus gets exactly what the panel shows.
PanelArrives == Patch(before, Diff(before, after)) = after

\* On another side, no action goes that is unlike every deleted one, and every
\* inserted action comes, also when the list is shorter than the edited one.
OthersStay ==
  LET diff == Diff(before, after)
      result == Patch(other, diff)
      items(o) == {diff[k].item : k \in {k \in 1..Len(diff) : diff[k].op = o}}
      unlike(x) == \A d \in items("d") : ~Alike(d, x)
  IN /\ \A x \in ToSet(other) : unlike(x) =>
          Cardinality({k \in 1..Len(result) : result[k] = x})
            >= Cardinality({k \in 1..Len(other) : other[k] = x})
     /\ items("i") \subseteq ToSet(result)
=============================================================================
