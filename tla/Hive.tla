-------------------------------- MODULE Hive --------------------------------
(***************************************************************************)
(* utils/hive.ts: a list whose entries keep their numbers.  A removed      *)
(* entry leaves a hole, the last ones are cut off, and a new entry takes   *)
(* the lowest hole.  Numbers begin at 0.  Every entry has an id, which the *)
(* program does not know: it says which entry it is, wherever it moves.    *)
(***************************************************************************)
EXTENDS Integers, Sequences, SequencesExt, FiniteSets, FiniteSetsExt

Null == [id |-> 0]
NoFree == 1000        \* Number.MAX_SAFE_INTEGER: beyond every list
None == -1            \* no entry selected: null, undefined or -1

EmptyHive == [data |-> <<>>, first_free |-> NoFree]
size(h) == Len(h.data)
get(h, i) == h.data[i + 1]
is_valid(h, i) == i \in 0..size(h) - 1 /\ get(h, i) # Null
Numbers(h) == {i \in 0..size(h) - 1 : get(h, i) # Null}
Entries(h) == SelectSeq(h.data, LAMBDA x : x # Null)       \* forEach, map
Each(h, of(_, _)) ==                                        \* forEach with an assignment
  [h EXCEPT !.data = [i \in DOMAIN h.data |-> IF h.data[i] = Null THEN Null ELSE of(h.data[i], i - 1)]]

optimize(data) == SubSeq(data, 1, Max({0} \union {i \in DOMAIN data : data[i] # Null}))

Holes(h) == {i \in h.first_free..size(h) - 1 : get(h, i) = Null}
\* slip: what is below the first free number is taken for granted, what is at it too
NewNumber_Unchecked(h) == IF h.first_free < size(h) THEN h.first_free ELSE size(h)
NewNumber(h) == IF Holes(h) = {} THEN size(h) ELSE Min(Holes(h))
add(h, x) ==
  LET i == NewNumber(h)
  IN IF i = size(h) THEN [h EXCEPT !.data = Append(@, x)]
     ELSE [data |-> [h.data EXCEPT ![i + 1] = x], first_free |-> i + 1]

remove(h, i) ==
  IF i \in 0..size(h) - 1
  THEN [data |-> optimize([h.data EXCEPT ![i + 1] = Null]), first_free |-> Min({h.first_free, i})]
  ELSE h

set(h, i, x) ==
  LET l == size(h)
  IN IF i < l THEN [h EXCEPT !.data[i + 1] = x]
     ELSE [data |-> Append(h.data \o [k \in 1..i - l |-> Null], x),
           first_free |-> IF i > l THEN Min({h.first_free, l}) ELSE h.first_free]
=============================================================================
