-------------------------- MODULE ListCache_proofs --------------------------
(***************************************************************************)
(* Proofs that the shared lists of a tab are never stale for long and      *)
(* never older than the tab's own saves, for any tabs and files.  The      *)
(* types of the server's state are those of ProjectServer_proofs.          *)
(***************************************************************************)
EXTENDS ListCache, ProjectServer_proofs, FiniteSetTheorems

(***************************************************************************)
(* Messages on their way to a tab, and what they mean for file f.          *)
(***************************************************************************)
IsGet(n, f) == n.kind = "answer" /\ n.op = "get" /\ n.file = f
IsPut(n, f) == n.kind = "answer" /\ n.op = "put" /\ n.file = f
IsNews(n, f) == n.kind = "modified" /\ n.file = f
\* News of f are among the messages before the i-th; and they follow whatever
\* was read before there was version n.
News(q, f, i) == \E j \in 1..i - 1 : IsNews(q[j], f)
Swept(q, f, n, i) ==
  \A k \in 1..i - 1 : IsGet(q[k], f) /\ q[k].val < n => \E j \in k + 1..i - 1 : IsNews(q[j], f)
\* The answers to loads of f among messages, the loads of f among calls.
Gets(q, f) == {i \in DOMAIN q : IsGet(q[i], f)}
Asks(q, f) == {i \in DOMAIN q : q[i] = Get(f)}
One(b) == IF b THEN 1 ELSE 0

LEMMA Appending ==
  ASSUME NEW S, NEW q \in Seq(S), NEW n \in S
  PROVE  /\ Append(q, n) \in Seq(S) /\ Len(Append(q, n)) = Len(q) + 1
         /\ DOMAIN Append(q, n) = DOMAIN q \cup {Len(q) + 1}
         /\ DOMAIN q = 1..Len(q) /\ Len(q) \in Nat
         /\ Append(q, n)[Len(q) + 1] = n /\ \A i \in DOMAIN q : Append(q, n)[i] = q[i]
  OBVIOUS

LEMMA Taking ==
  ASSUME NEW S, NEW q \in Seq(S), q # <<>>
  PROVE  /\ Tail(q) \in Seq(S) /\ Len(Tail(q)) = Len(q) - 1 /\ Len(q) \in Nat \ {0}
         /\ Head(q) = q[1] /\ Head(q) \in S /\ 1 \in DOMAIN q
         /\ DOMAIN q = 1..Len(q) /\ DOMAIN Tail(q) = 1..Len(q) - 1
         /\ \A i \in DOMAIN Tail(q) : Tail(q)[i] = q[i + 1]
  OBVIOUS

LEMMA SweptTail ==
  ASSUME NEW q \in Seq(Notice), q # <<>>, NEW f, NEW n, NEW i \in 2..Len(q) + 1, Swept(q, f, n, i)
  PROVE  /\ Swept(Tail(q), f, n, i - 1)
         /\ News(q, f, i) /\ ~IsNews(Head(q), f) => News(Tail(q), f, i - 1)
         /\ IsGet(Head(q), f) /\ Head(q).val < n => News(Tail(q), f, i - 1)
<1>1. /\ Len(q) \in Nat /\ i \in Nat /\ i >= 2 /\ i <= Len(q) + 1 /\ Head(q) = q[1]
      /\ \A k \in 1..i - 2 : Tail(q)[k] = q[k + 1]
      /\ \A j \in 2..i - 1 : j - 1 \in 1..i - 2 /\ Tail(q)[j - 1] = q[j]
  OBVIOUS
<1>2. Swept(Tail(q), f, n, i - 1)
  <2> SUFFICES ASSUME NEW k \in 1..i - 2, IsGet(Tail(q)[k], f), Tail(q)[k].val < n
               PROVE  \E j \in k + 1..i - 2 : IsNews(Tail(q)[j], f)
    <3> (i - 1) - 1 = i - 2
      BY <1>1
    <3> QED
      BY DEF Swept
  <2>1. k + 1 \in 1..i - 1 /\ Tail(q)[k] = q[k + 1]
    BY <1>1
  <2>2. PICK j \in k + 2..i - 1 : IsNews(q[j], f)
    BY <2>1 DEF Swept
  <2>3. j - 1 \in k + 1..i - 2 /\ Tail(q)[j - 1] = q[j]
    BY <1>1, <2>1, <2>2
  <2> QED
    BY <2>2, <2>3
<1>3. ASSUME News(q, f, i), ~IsNews(Head(q), f) PROVE News(Tail(q), f, i - 1)
  <2>1. PICK j \in 1..i - 1 : IsNews(q[j], f)
    BY <1>3 DEF News
  <2>2. j \in 2..i - 1
    BY <1>1, <1>3, <2>1
  <2>3. j - 1 \in 1..(i - 1) - 1 /\ IsNews(Tail(q)[j - 1], f)
    BY <1>1, <2>1, <2>2
  <2> QED
    BY <2>3 DEF News
<1>4. ASSUME IsGet(Head(q), f), Head(q).val < n PROVE News(Tail(q), f, i - 1)
  <2>1. 1 \in 1..i - 1
    BY <1>1
  <2>2. PICK j \in 2..i - 1 : IsNews(q[j], f)
    BY <1>1, <1>4, <2>1 DEF Swept
  <2>3. j - 1 \in 1..(i - 1) - 1 /\ IsNews(Tail(q)[j - 1], f)
    BY <1>1, <2>2
  <2> QED
    BY <2>3 DEF News
<1> QED
  BY <1>2, <1>3, <1>4

LEMMA SweptAppend ==
  ASSUME NEW q \in Seq(Notice), NEW m \in Notice, NEW f, NEW n
  PROVE  /\ \A i \in 1..Len(q) + 1 :
              /\ Swept(q, f, n, i) => Swept(Append(q, m), f, n, i)
              /\ News(q, f, i) => News(Append(q, m), f, i)
         /\ Swept(q, f, n, Len(q) + 1) /\ ~IsGet(m, f) => Swept(Append(q, m), f, n, Len(q) + 2)
         /\ News(q, f, Len(q) + 1) => News(Append(q, m), f, Len(q) + 2)
         /\ IsNews(m, f) => /\ Swept(Append(q, m), f, n, Len(q) + 2)
                            /\ News(Append(q, m), f, Len(q) + 2)
<1> DEFINE r == Append(q, m)
<1>1. /\ Len(q) \in Nat /\ r[Len(q) + 1] = m /\ \A i \in 1..Len(q) : r[i] = q[i]
  BY Appending
<1> HIDE DEF r
<1>2. ASSUME NEW i \in 1..Len(q) + 1
      PROVE  (Swept(q, f, n, i) => Swept(r, f, n, i)) /\ (News(q, f, i) => News(r, f, i))
  <2>1. \A k \in 1..i - 1 : k \in 1..Len(q) /\ r[k] = q[k]
    BY <1>1
  <2>2. \A k \in 1..i - 1 : \A j \in k + 1..i - 1 : j \in 1..i - 1
    OBVIOUS
  <2> QED
    BY <2>1, <2>2 DEF Swept, News
<1>3. ASSUME Swept(q, f, n, Len(q) + 1), ~IsGet(m, f) PROVE Swept(r, f, n, Len(q) + 2)
  <2> SUFFICES ASSUME NEW k \in 1..Len(q) + 1, IsGet(r[k], f), r[k].val < n
               PROVE  \E j \in k + 1..Len(q) + 1 : IsNews(r[j], f)
    BY <1>1 DEF Swept
  <2>1. k \in 1..Len(q) /\ r[k] = q[k]
    BY <1>1, <1>3
  <2>2. PICK j \in k + 1..Len(q) : IsNews(q[j], f)
    BY <1>1, <1>3, <2>1 DEF Swept
  <2>3. j \in k + 1..Len(q) + 1 /\ r[j] = q[j]
    BY <1>1, <2>1, <2>2
  <2> QED
    BY <2>2, <2>3
<1>4. ASSUME News(q, f, Len(q) + 1) PROVE News(r, f, Len(q) + 2)
  <2>1. PICK j \in 1..Len(q) : IsNews(q[j], f)
    BY <1>1, <1>4 DEF News
  <2> QED
    BY <1>1, <2>1 DEF News
<1>5. ASSUME IsNews(m, f) PROVE Swept(r, f, n, Len(q) + 2) /\ News(r, f, Len(q) + 2)
  <2>1. IsNews(r[Len(q) + 1], f) /\ ~IsGet(r[Len(q) + 1], f) /\ Len(q) + 1 \in 1..Len(q) + 1
    BY <1>1, <1>5 DEF IsNews, IsGet
  <2>2. \A k \in 1..Len(q) + 1 : IsGet(r[k], f) => Len(q) + 1 \in k + 1..Len(q) + 1
    BY <1>1, <2>1
  <2> QED
    BY <1>1, <2>1, <2>2 DEF Swept, News
<1> QED
  BY <1>2, <1>3, <1>4, <1>5 DEF r

\* Positions that move by one are as many as before.
LEMMA ShiftCardinality ==
  ASSUME NEW T, IsFiniteSet(T), T \subseteq Nat
  PROVE  LET S == {i + 1 : i \in T} IN IsFiniteSet(S) /\ Cardinality(S) = Cardinality(T)
<1> DEFINE S == {i + 1 : i \in T}
           g == [i \in T |-> i + 1]
<1>1. g \in Bijection(T, S)
  BY DEF Bijection, Injection, Surjection, IsInjective
<1>2. ExistsBijection(T, S)
  BY <1>1 DEF ExistsBijection
<1> QED
  BY <1>2, FS_Bijection

LEMMA CountFinite ==
  ASSUME NEW S, NEW q \in Seq(S), NEW T \in SUBSET DOMAIN q
  PROVE  IsFiniteSet(T) /\ Cardinality(T) \in Nat
<1>1. IsFiniteSet(1..Len(q)) /\ DOMAIN q = 1..Len(q)
  BY FS_Interval
<1>2. IsFiniteSet(T)
  BY <1>1, FS_Subset
<1> QED
  BY <1>2, FS_CardinalityType

LEMMA GetsAppend ==
  ASSUME NEW q \in Seq(Notice), NEW m \in Notice, NEW f
  PROVE  /\ IsGet(m, f) => Gets(Append(q, m), f) = Gets(q, f) \cup {Len(q) + 1}
         /\ ~IsGet(m, f) => Gets(Append(q, m), f) = Gets(q, f)
         /\ Cardinality(Gets(Append(q, m), f)) = Cardinality(Gets(q, f)) + One(IsGet(m, f))
         /\ Cardinality(Gets(q, f)) \in Nat
<1> DEFINE r == Append(q, m)
<1>1. /\ DOMAIN r = DOMAIN q \cup {Len(q) + 1} /\ Len(q) + 1 \notin DOMAIN q
      /\ r[Len(q) + 1] = m /\ \A i \in DOMAIN q : r[i] = q[i]
  BY Appending
<1> HIDE DEF r
<1>2. IsFiniteSet(Gets(q, f)) /\ Cardinality(Gets(q, f)) \in Nat
  <2>1. Gets(q, f) \in SUBSET DOMAIN q
    BY DEF Gets
  <2> QED
    BY <2>1, CountFinite
<1>3. CASE IsGet(m, f)
  <2>1. Gets(r, f) = Gets(q, f) \cup {Len(q) + 1} /\ Len(q) + 1 \notin Gets(q, f)
    BY <1>1, <1>3 DEF Gets
  <2> QED
    BY <1>2, <1>3, <2>1, FS_AddElement DEF One, r
<1>4. CASE ~IsGet(m, f)
  <2>1. Gets(r, f) = Gets(q, f)
    BY <1>1, <1>4 DEF Gets
  <2> QED
    BY <1>2, <1>4, <2>1 DEF One, r
<1> QED
  BY <1>3, <1>4

LEMMA AsksAppend ==
  ASSUME NEW q \in Seq(Request), NEW c \in Request, NEW f
  PROVE  /\ c # Get(f) => Asks(Append(q, c), f) = Asks(q, f)
         /\ c = Get(f) => Asks(Append(q, c), f) # {}
         /\ Cardinality(Asks(Append(q, c), f)) = Cardinality(Asks(q, f)) + One(c = Get(f))
         /\ Cardinality(Asks(q, f)) \in Nat
<1> DEFINE r == Append(q, c)
<1>1. /\ DOMAIN r = DOMAIN q \cup {Len(q) + 1} /\ Len(q) + 1 \notin DOMAIN q
      /\ r[Len(q) + 1] = c /\ \A i \in DOMAIN q : r[i] = q[i]
  BY Appending
<1> HIDE DEF r
<1>2. IsFiniteSet(Asks(q, f)) /\ Cardinality(Asks(q, f)) \in Nat
  <2>1. Asks(q, f) \in SUBSET DOMAIN q
    BY DEF Asks
  <2> QED
    BY <2>1, CountFinite
<1>3. CASE c = Get(f)
  <2>1. Asks(r, f) = Asks(q, f) \cup {Len(q) + 1} /\ Len(q) + 1 \notin Asks(q, f)
    BY <1>1, <1>3 DEF Asks
  <2> QED
    BY <1>2, <1>3, <2>1, FS_AddElement DEF One, r
<1>4. CASE c # Get(f)
  <2>1. Asks(r, f) = Asks(q, f)
    BY <1>1, <1>4 DEF Asks
  <2> QED
    BY <1>2, <1>4, <2>1 DEF One, r
<1> QED
  BY <1>3, <1>4

LEMMA GetsTail ==
  ASSUME NEW q \in Seq(Notice), q # <<>>, NEW f
  PROVE  /\ Cardinality(Gets(q, f)) = Cardinality(Gets(Tail(q), f)) + One(IsGet(Head(q), f))
         /\ Cardinality(Gets(Tail(q), f)) \in Nat
         /\ \A i \in Gets(Tail(q), f) : i \in Nat /\ i + 1 \in Gets(q, f) /\ Tail(q)[i] = q[i + 1]
         /\ \A i \in Gets(q, f) : i = 1 \/ (i \in Nat /\ i - 1 \in Gets(Tail(q), f))
<1> DEFINE r == Tail(q)
           G == Gets(r, f)
           H == {i + 1 : i \in G}
<1>1. /\ Head(q) = q[1] /\ 1 \in DOMAIN q /\ r \in Seq(Notice) /\ Len(q) \in Nat
      /\ DOMAIN q = 1..Len(q) /\ DOMAIN r = 1..Len(q) - 1 /\ \A i \in DOMAIN r : r[i] = q[i + 1]
  BY Taking
<1>2. G \in SUBSET DOMAIN r /\ G \subseteq Nat
  BY <1>1 DEF Gets
<1>3. IsFiniteSet(G) /\ Cardinality(G) \in Nat
  BY <1>1, <1>2, CountFinite
<1>4. IsFiniteSet(H) /\ Cardinality(H) = Cardinality(G)
  BY <1>2, <1>3, ShiftCardinality
<1>5. \A i \in G : i \in Nat /\ i + 1 \in Gets(q, f) /\ r[i] = q[i + 1]
  BY <1>1 DEF Gets
<1>6. \A i \in Gets(q, f) : i = 1 \/ (i \in Nat /\ i - 1 \in G)
  <2> SUFFICES ASSUME NEW i \in Gets(q, f), i # 1 PROVE i \in Nat /\ i - 1 \in G
    OBVIOUS
  <2>1. i \in Nat /\ i - 1 \in DOMAIN r /\ IsGet(q[i], f)
    BY <1>1 DEF Gets
  <2>2. r[i - 1] = q[i]
    BY <1>1, <2>1
  <2> QED
    BY <2>1, <2>2 DEF Gets
<1>7. /\ IsGet(Head(q), f) => Gets(q, f) = H \cup {1}
      /\ ~IsGet(Head(q), f) => Gets(q, f) = H
  <2>1. H \subseteq Gets(q, f)
    BY <1>5
  <2>2. 1 \in Gets(q, f) <=> IsGet(Head(q), f)
    BY <1>1 DEF Gets
  <2>3. \A i \in Gets(q, f) : i = 1 \/ i \in H
    <3> SUFFICES ASSUME NEW i \in Gets(q, f), i # 1 PROVE i \in H
      OBVIOUS
    <3>1. i \in Nat /\ i - 1 \in G /\ i = (i - 1) + 1
      BY <1>6
    <3> QED
      BY <3>1
  <2>4. 1 \notin H
    BY <1>1, <1>2 DEF Gets
  <2> HIDE DEF H
  <2> QED
    BY <2>1, <2>2, <2>3, <2>4
<1>8. 1 \notin H
  BY <1>1, <1>2 DEF Gets
<1>9. Cardinality(Gets(q, f)) = Cardinality(G) + One(IsGet(Head(q), f))
  <2> HIDE DEF G, H
  <2>1. Cardinality(H \cup {1}) = Cardinality(H) + 1
    BY <1>4, <1>8, FS_AddElement
  <2>2. CASE IsGet(Head(q), f)
    BY <1>4, <1>7, <2>1, <2>2 DEF One
  <2>3. CASE ~(IsGet(Head(q), f))
    BY <1>3, <1>4, <1>7, <2>3 DEF One
  <2> QED
    BY <2>2, <2>3
<1> QED
  BY <1>3, <1>5, <1>6, <1>9

LEMMA AsksTail ==
  ASSUME NEW q \in Seq(Request), q # <<>>, NEW f
  PROVE  /\ Cardinality(Asks(q, f)) = Cardinality(Asks(Tail(q), f)) + One(Head(q) = Get(f))
         /\ Cardinality(Asks(Tail(q), f)) \in Nat
         /\ Asks(Tail(q), f) = {} /\ Head(q) # Get(f) => Asks(q, f) = {}
<1> DEFINE r == Tail(q)
           G == Asks(r, f)
           H == {i + 1 : i \in G}
<1>1. /\ Head(q) = q[1] /\ 1 \in DOMAIN q /\ r \in Seq(Request) /\ Len(q) \in Nat
      /\ DOMAIN q = 1..Len(q) /\ DOMAIN r = 1..Len(q) - 1 /\ \A i \in DOMAIN r : r[i] = q[i + 1]
  BY Taking
<1>2. G \in SUBSET DOMAIN r /\ G \subseteq Nat
  BY <1>1 DEF Asks
<1>3. IsFiniteSet(G) /\ Cardinality(G) \in Nat
  BY <1>1, <1>2, CountFinite
<1>4. IsFiniteSet(H) /\ Cardinality(H) = Cardinality(G)
  BY <1>2, <1>3, ShiftCardinality
<1>5. \A i \in Asks(q, f) : i = 1 \/ (i \in Nat /\ i - 1 \in G)
  <2> SUFFICES ASSUME NEW i \in Asks(q, f), i # 1 PROVE i \in Nat /\ i - 1 \in G
    OBVIOUS
  <2>1. i \in Nat /\ i - 1 \in DOMAIN r /\ q[i] = Get(f)
    BY <1>1 DEF Asks
  <2>2. r[i - 1] = q[i]
    BY <1>1, <2>1
  <2> QED
    BY <2>1, <2>2 DEF Asks
<1>6. 1 \notin H
  BY <1>1, <1>2 DEF Asks
<1>7. /\ Head(q) = Get(f) => Asks(q, f) = H \cup {1}
      /\ Head(q) # Get(f) => Asks(q, f) = H
  <2>1. H \subseteq Asks(q, f)
    BY <1>1 DEF Asks
  <2>2. 1 \in Asks(q, f) <=> Head(q) = Get(f)
    BY <1>1 DEF Asks
  <2>3. \A i \in Asks(q, f) : i = 1 \/ i \in H
    <3> SUFFICES ASSUME NEW i \in Asks(q, f), i # 1 PROVE i \in H
      OBVIOUS
    <3>1. i \in Nat /\ i - 1 \in G /\ i = (i - 1) + 1
      BY <1>5
    <3> QED
      BY <3>1
  <2> HIDE DEF H
  <2> QED
    BY <1>6, <2>1, <2>2, <2>3
<1>8. Cardinality(Asks(q, f)) = Cardinality(G) + One(Head(q) = Get(f))
  <2> HIDE DEF G, H
  <2>1. Cardinality(H \cup {1}) = Cardinality(H) + 1
    BY <1>4, <1>6, FS_AddElement
  <2>2. CASE Head(q) = Get(f)
    BY <1>4, <1>7, <2>1, <2>2 DEF One
  <2>3. CASE ~(Head(q) = Get(f))
    BY <1>3, <1>4, <1>7, <2>3 DEF One
  <2> QED
    BY <2>2, <2>3
<1>9. G = {} => H = {}
  OBVIOUS
<1> QED
  BY <1>3, <1>7, <1>8, <1>9
-----------------------------------------------------------------------------
(***************************************************************************)
(* What the server does for the lists: it only gets and puts, so nobody    *)
(* switches and the versions of a file grow.                               *)
(***************************************************************************)
Stored(f) == files[current][f]
Calls == {Get(f) : f \in File} \cup {Put(f) : f \in File}
Serving(t, op, f) == sess[t].pc # "idle" /\ sess[t].req.op = op /\ sess[t].req.file = f
Cached == /\ list \in [Tab -> [File -> {"null", "loading", "loaded"}]]
          /\ value \in [Tab -> [File -> Nat]] /\ dropped \in [Tab -> [File -> Nat]]
          /\ acked \in [Tab -> [File -> Nat]] /\ listens \in [Tab -> [File -> BOOLEAN]]
OnlyCalls ==
  /\ writing = {} /\ \A f \in File : Stored(f) <= last
  /\ \A t \in Tab : /\ \A i \in DOMAIN up[t] : up[t][i] \in Calls
                    /\ sess[t].pc # "idle" =>
                         /\ sess[t].req \in Calls
                         /\ sess[t].pc \in (IF sess[t].req.op = "get" THEN {"read", "answer"}
                                            ELSE {"store", "publish", "answer"})
Base == IInv /\ Messages /\ Cached /\ OnlyCalls

LEMMA CallParts ==
  \A c \in Calls : /\ c \in Request /\ c.file \in File /\ c.source = c.file
                   /\ \/ c.op = "get" /\ c = Get(c.file)
                      \/ c.op = "put" /\ c = Put(c.file)
<1>1. \A f \in File : Get(f) \in Request /\ Put(f) \in Request
  BY InstanceAssumption, LateAssumption DEF Get, Put, Request
<1>2. \A f : /\ Get(f).op = "get" /\ Get(f).file = f /\ Get(f).source = f
             /\ Put(f).op = "put" /\ Put(f).file = f /\ Put(f).source = f
  BY DEF Get, Put
<1> SUFFICES ASSUME NEW c \in Calls
             PROVE  /\ c \in Request /\ c.file \in File /\ c.source = c.file
                    /\ \/ c.op = "get" /\ c = Get(c.file)
                       \/ c.op = "put" /\ c = Put(c.file)
  OBVIOUS
<1>3. PICK f \in File : c = Get(f) \/ c = Put(f)
  BY DEF Calls
<1> QED
  BY <1>1, <1>2, <1>3

LEMMA OwnParts == \A f, g : /\ Get(f).op = "get" /\ Get(f).file = f /\ Put(f).op = "put"
                            /\ Put(f).file = f /\ Put(f) # Get(g) /\ (Get(f) = Get(g) => f = g)
<1>1. \A f : Get(f).op = "get" /\ Get(f).file = f /\ Put(f).op = "put" /\ Put(f).file = f
  BY DEF Get, Put
<1>2. \A f, g : Put(f) # Get(g)
  <2> SUFFICES ASSUME NEW f, NEW g, Put(f) = Get(g) PROVE FALSE
    OBVIOUS
  <2>1. Put(f).op = "put" /\ Get(g).op = "get"
    BY <1>1
  <2> QED
    BY <2>1
<1>3. \A f, g : Get(f) = Get(g) => f = g
  <2> SUFFICES ASSUME NEW f, NEW g, Get(f) = Get(g) PROVE f = g
    OBVIOUS
  <2>1. Get(f).file = f /\ Get(g).file = g
    BY <1>1
  <2> QED
    BY <2>1
<1> QED
  BY <1>1, <1>2, <1>3

LEMMA BaseTypes ==
  ASSUME Base
  PROVE  /\ sess \in [Tab -> Session] /\ up \in [Tab -> Seq(Request)]
         /\ down \in [Tab -> Seq(Notice)] /\ files \in [Archive -> [File -> Nat]]
         /\ current \in Archive /\ last \in Nat /\ UserDDL = {current} /\ writing = {}
         /\ \A f \in File : Stored(f) \in Nat
         /\ \A t \in Tab : down[t] \in Seq(Notice) /\ up[t] \in Seq(Request)
<1>1. /\ sess \in [Tab -> Session] /\ up \in [Tab -> Seq(Request)]
      /\ files \in [Archive -> [File -> Nat]] /\ current \in Archive /\ last \in Nat
  BY DEF Base, IInv, Typed
<1>2. writing = {} /\ down \in [Tab -> Seq(Notice)]
  BY DEF Base, OnlyCalls, Messages
<1>3. UserDDL = {current}
  BY <1>2 DEF UserDDL
<1>4. \A f \in File : Stored(f) \in Nat
  BY <1>1 DEF Stored
<1> QED
  BY <1>1, <1>2, <1>3, <1>4

LEMMA AtWork ==
  ASSUME Base, NEW t \in Tab, sess[t].pc # "idle"
  PROVE  /\ sess[t].req \in Calls /\ sess[t].req.file \in File /\ sess[t].val \in Nat
         /\ sess[t].req.source = sess[t].req.file
         /\ \/ sess[t].req.op = "get" /\ sess[t].pc \in {"read", "answer"}
            \/ sess[t].req.op = "put" /\ sess[t].pc \in {"store", "publish", "answer"}
<1>1. /\ sess[t].req \in Calls
      /\ sess[t].pc \in (IF sess[t].req.op = "get" THEN {"read", "answer"}
                         ELSE {"store", "publish", "answer"})
  BY DEF Base, OnlyCalls
<1>2. sess[t].val \in Nat
  BY BaseTypes DEF Session
<1> QED
  BY <1>1, <1>2, CallParts

(***************************************************************************)
(* What the steps do, function by function.                                *)
(***************************************************************************)
LEMMA TakeDoes ==
  ASSUME Base, NEW t \in Tab, Take(t)
  PROVE  LET c == Head(up[t])
         IN /\ c \in Calls /\ up[t] # <<>> /\ sess[t].pc = "idle"
            /\ sess'[t].req = c /\ sess'[t].pc = (IF c.op = "get" THEN "read" ELSE "store")
            /\ up'[t] = Tail(up[t])
            /\ \A u \in Tab : u # t => up'[u] = up[u] /\ sess'[u] = sess[u]
            /\ UNCHANGED <<files, last, current, writing, down, known>>
<1> DEFINE c == Head(up[t])
<1>1. up[t] \in Seq(Request) /\ up[t] # <<>> /\ sess[t].pc = "idle"
  BY BaseTypes DEF Take
<1>2. 1 \in DOMAIN up[t] /\ c = up[t][1]
  BY <1>1
<1>3. c \in Calls
  BY <1>2 DEF Base, OnlyCalls
<1>4. /\ sess' = [sess EXCEPT ![t] = [pc |-> FirstStep(c.op), req |-> c, val |-> 0,
                                      project |-> First]]
      /\ up' = [up EXCEPT ![t] = Tail(@)]
      /\ UNCHANGED <<files, last, current, writing, down, known>>
  BY DEF Take
<1>5. FirstStep(c.op) = IF c.op = "get" THEN "read" ELSE "store"
  <2>1. c.op \in {"get", "put"}
    BY <1>3, CallParts
  <2> QED
    BY <2>1 DEF FirstStep
<1> HIDE DEF c
<1>6. /\ sess'[t].req = c /\ sess'[t].pc = FirstStep(c.op) /\ up'[t] = Tail(up[t])
      /\ \A u \in Tab : u # t => up'[u] = up[u] /\ sess'[u] = sess[u]
  BY <1>4, BaseTypes
<1> QED
  BY <1>1, <1>3, <1>4, <1>5, <1>6 DEF c

LEMMA ReadDoes ==
  ASSUME Base, NEW t \in Tab, Read(t)
  PROVE  /\ sess[t].pc = "read" /\ sess[t].req.op = "get" /\ sess'[t].pc = "answer"
         /\ sess'[t].req = sess[t].req /\ sess'[t].val = Stored(sess[t].req.file)
         /\ \A u \in Tab : u # t => sess'[u] = sess[u]
         /\ UNCHANGED <<files, last, current, writing, down, up, known>>
<1> DEFINE f == sess[t].req.file
<1>1. sess[t].pc = "read" /\ f \in File /\ sess[t].req.source = f /\ sess[t].req.op = "get"
  BY AtWork DEF Read, At
<1>2. Goto(t, "answer", Stored(f))
  <2>1. PICK p \in UserDDL :
          LET v == files[p][sess[t].req.source]
          IN Goto(t, IF sess[t].req.op = "copy" /\ v # 0 THEN "store" ELSE "answer", v)
    BY DEF Read
  <2>2. p = current
    BY <2>1, BaseTypes
  <2> QED
    BY <1>1, <2>1, <2>2 DEF Stored
<1>3. Stored(f) \in Nat /\ "answer" \in Label
  BY <1>1, BaseTypes DEF Label
<1>4. Typed
  BY DEF Base, IInv
<1>5. /\ sess'[t].pc = "answer" /\ sess'[t].val = Stored(f) /\ sess'[t].req = sess[t].req
      /\ \A u \in Tab : u # t => sess'[u] = sess[u]
  <2> HIDE DEF f
  <2> QED
    BY <1>2, <1>3, <1>4, GotoOK
<1>6. UNCHANGED <<files, last, current, writing, down, up, known>>
  BY DEF Read, Rest
<1> QED
  BY <1>1, <1>5, <1>6

LEMMA StoreDoes ==
  ASSUME Base, NEW t \in Tab, Store(t)
  PROVE  LET f == sess[t].req.file
         IN /\ sess[t].pc = "store" /\ sess[t].req.op = "put" /\ f \in File
            /\ sess'[t].pc = "publish" /\ sess'[t].req = sess[t].req /\ sess'[t].val = last + 1
            /\ last' = last + 1 /\ files'[current][f] = last + 1
            /\ \A g \in File : g # f => files'[current][g] = files[current][g]
            /\ \A u \in Tab : u # t => sess'[u] = sess[u]
            /\ UNCHANGED <<current, writing, down, up, known>>
<1> DEFINE f == sess[t].req.file
<1>1. sess[t].pc = "store" /\ f \in File /\ sess[t].req.op = "put"
  BY AtWork DEF Store, At
<1>2. /\ last' = last + 1 /\ Goto(t, "publish", last + 1)
      /\ files' = [files EXCEPT ![current][f] = sess'[t].val]
  BY <1>1, BaseTypes DEF Store
<1>3. last + 1 \in Nat /\ "publish" \in Label
  BY BaseTypes DEF Label
<1>4. Typed
  BY DEF Base, IInv
<1>5. /\ sess'[t].pc = "publish" /\ sess'[t].val = last + 1 /\ sess'[t].req = sess[t].req
      /\ \A u \in Tab : u # t => sess'[u] = sess[u]
  BY <1>2, <1>3, <1>4, GotoOK
<1>6. /\ files'[current][f] = last + 1
      /\ \A g \in File : g # f => files'[current][g] = files[current][g]
  BY <1>1, <1>2, <1>5, BaseTypes
<1>7. UNCHANGED <<current, writing, down, up, known>>
  BY DEF Store, Rest
<1> QED
  BY <1>1, <1>2, <1>5, <1>6, <1>7

LEMMA PublishDoes ==
  ASSUME Base, NEW t \in Tab, PublishModified(t)
  PROVE  LET f == sess[t].req.file
         IN /\ sess[t].pc = "publish" /\ sess[t].req.op = "put" /\ f \in File
            /\ sess'[t].pc = "answer" /\ sess'[t].req = sess[t].req /\ sess'[t].val = sess[t].val
            /\ Modified(f) \in Notice /\ \A u \in Tab : down'[u] = Append(down[u], Modified(f))
            /\ \A u \in Tab : u # t => sess'[u] = sess[u]
            /\ UNCHANGED <<files, last, current, writing, up, known>> /\ Publish(Modified(f))
<1> DEFINE f == sess[t].req.file
<1>1. sess[t].pc = "publish" /\ f \in File /\ sess[t].req.op = "put" /\ sess[t].val \in Nat
  BY AtWork DEF PublishModified, At
<1>2. Goto(t, "answer", sess[t].val) /\ "answer" \in Label /\ Typed
  BY DEF PublishModified, Label, Base, IInv
<1>3. /\ sess'[t].pc = "answer" /\ sess'[t].val = sess[t].val /\ sess'[t].req = sess[t].req
      /\ \A u \in Tab : u # t => sess'[u] = sess[u]
  BY <1>1, <1>2, GotoOK
<1>4. Publish(Modified(f)) /\ UNCHANGED <<files, last, current, writing, up, known>>
  BY DEF PublishModified, Rest
<1>5. Modified(f) \in Notice
  BY <1>1, NoticeOK
<1>6. \A u \in Tab : down'[u] = Append(down[u], Modified(f))
  BY <1>4 DEF Publish
<1> QED
  BY <1>1, <1>3, <1>4, <1>5, <1>6

LEMMA ReplyDoes ==
  ASSUME Base, NEW t \in Tab, Reply(t)
  PROVE  LET n == Answer(sess[t].req.op, sess[t].req.file, sess[t].val)
         IN /\ sess[t].pc = "answer" /\ sess'[t].pc = "idle" /\ n \in Notice
            /\ down'[t] = Append(down[t], n)
            /\ \A u \in Tab : u # t => sess'[u] = sess[u] /\ down'[u] = down[u]
            /\ UNCHANGED <<files, last, current, writing, up, known>>
<1> DEFINE n == Answer(sess[t].req.op, sess[t].req.file, sess[t].val)
<1>1. sess[t].pc = "answer" /\ sess[t].req \in Calls /\ sess[t].val \in Nat
  BY AtWork DEF Reply, At
<1>2. sess[t].req.op \in Ops /\ sess[t].req.file \in File
  BY <1>1, CallParts DEF Request
<1>3. n \in Notice
  BY <1>1, <1>2, NoticeOK
<1>4. /\ down' = [down EXCEPT ![t] = Append(@, n)] /\ sess' = [sess EXCEPT ![t] = Idle]
      /\ UNCHANGED <<files, last, current, writing, up, known>>
  BY DEF Reply, Rest
<1> HIDE DEF n
<1>5. /\ down'[t] = Append(down[t], n) /\ sess'[t] = Idle
      /\ \A u \in Tab : u # t => sess'[u] = sess[u] /\ down'[u] = down[u]
  BY <1>4, BaseTypes
<1> QED
  BY <1>1, <1>3, <1>4, <1>5 DEF n, Idle

LEMMA OnlySteps ==
  ASSUME Base, NEW t \in Tab, SessionStep(t)
  PROVE  Take(t) \/ Read(t) \/ Store(t) \/ PublishModified(t) \/ Reply(t)
<1>1. sess[t].pc \in {"idle", "read", "store", "publish", "answer"}
  BY AtWork
<1> QED
  BY <1>1 DEF SessionStep, Erase, Assign, Assigned, SetConfig, SaveConfig, SaveConfigThrows,
     CreateState, PublishState, At

LEMMA AskDoes ==
  ASSUME Base, NEW t \in Tab, NEW c \in Calls, Ask(t, c)
  PROVE  /\ up'[t] = Append(up[t], c) /\ \A u \in Tab : u # t => up'[u] = up[u]
         /\ UNCHANGED <<files, last, current, writing, sess, down, known>>
         /\ [Next]_vars
<1>1. up' = [up EXCEPT ![t] = Append(@, c)]
      /\ UNCHANGED <<files, last, current, writing, sess, down, known>>
  BY DEF Ask, server
<1>2. [Next]_vars
  BY CallParts DEF Next
<1> QED
  BY <1>1, <1>2, BaseTypes

LEMMA MessageDoes ==
  ASSUME Base, NEW t \in Tab, Message(t)
  PROVE  /\ down[t] # <<>> /\ down'[t] = Tail(down[t]) /\ Head(down[t]) \in Notice
         /\ \A u \in Tab : u # t => down'[u] = down[u]
         /\ UNCHANGED <<files, last, current, writing, sess, up>>
         /\ [Next]_vars
<1>1. /\ down[t] # <<>> /\ down' = [down EXCEPT ![t] = Tail(@)]
      /\ UNCHANGED <<files, last, current, writing, sess, up>>
  BY DEF Message, Receive, server
<1>2. [Next]_vars
  BY DEF Message, Next
<1>3. down \in [Tab -> Seq(Notice)]
  BY BaseTypes
<1>4. Head(down[t]) \in Notice
  BY <1>1, <1>3
<1> QED
  BY <1>1, <1>2, <1>3, <1>4

\* The list of file g in tab u, and what a message n makes of it.
SameListAt(u, g) == list'[u][g] = list[u][g] /\ value'[u][g] = value[u][g]
SameAt(u, g) == /\ SameListAt(u, g) /\ dropped'[u][g] = dropped[u][g]
                /\ listens'[u][g] = listens[u][g] /\ acked'[u][g] = acked[u][g]
Ignores(u, g, n) == /\ SameAt(u, g) /\ ~IsGet(n, g) /\ ~IsPut(n, g)
                    /\ IsNews(n, g) => ~listens[u][g]
DropsLoad(u, g, n) ==
  /\ IsGet(n, g) /\ dropped[u][g] > 0 /\ dropped'[u][g] = dropped[u][g] - 1
  /\ SameListAt(u, g) /\ listens'[u][g] = listens[u][g] /\ acked'[u][g] = acked[u][g]
TakesLoad(u, g, n) ==
  /\ IsGet(n, g) /\ dropped[u][g] = 0 /\ list'[u][g] = "loaded" /\ value'[u][g] = n.val
  /\ listens'[u][g] = (listens[u][g] \/ n.val # 0)
  /\ dropped'[u][g] = dropped[u][g] /\ acked'[u][g] = acked[u][g]
IsAcked(u, g, n) ==
  /\ IsPut(n, g) /\ acked'[u][g] = n.val
  /\ SameListAt(u, g) /\ dropped'[u][g] = dropped[u][g] /\ listens'[u][g] = listens[u][g]
Forgets(u, g, n) ==
  /\ IsNews(n, g) /\ listens[u][g] /\ list'[u][g] = "null" /\ ~listens'[u][g]
  /\ value'[u][g] = value[u][g] /\ acked'[u][g] = acked[u][g]
  /\ dropped'[u][g] = dropped[u][g] + One(list[u][g] = "loading")

LEMMA CacheAt ==
  ASSUME Cached, NEW u \in Tab, NEW g \in File
  PROVE  /\ list[u][g] \in {"null", "loading", "loaded"} /\ value[u][g] \in Nat
         /\ dropped[u][g] \in Nat /\ acked[u][g] \in Nat /\ listens[u][g] \in BOOLEAN
  BY DEF Cached

LEMMA PutAt ==
  ASSUME NEW S, NEW F \in [Tab -> [File -> S]], NEW t \in Tab, NEW f, NEW x, f \in File => x \in S
  PROVE  LET G == [F EXCEPT ![t][f] = x]
         IN /\ G \in [Tab -> [File -> S]] /\ (f \in File => G[t][f] = x)
            /\ \A u \in Tab, g \in File : u # t \/ g # f => G[u][g] = F[u][g]
<1>1. [F[t] EXCEPT ![f] = x] \in [File -> S]
  OBVIOUS
<1> QED
  BY <1>1

LEMMA LoadedDoes ==
  ASSUME Cached, NEW t \in Tab, NEW n \in Notice, NEW f, f = n.file, IsGet(n, f),
         Loaded(t, f, n.val), UNCHANGED acked
  PROVE  /\ Cached'
         /\ \A u \in Tab, g \in File : u # t \/ g # f => SameAt(u, g)
         /\ f \in File => DropsLoad(t, f, n) \/ TakesLoad(t, f, n)
<1>1. n.val \in Nat
  BY DEF Notice
<1>2. CASE dropped[t][f] > 0
  <2>1. dropped' = [dropped EXCEPT ![t][f] = @ - 1] /\ UNCHANGED <<list, value, listens, acked>>
    BY <1>2 DEF Loaded
  <2>4. f \in File => dropped[t][f] - 1 \in Nat
    BY <1>2, CacheAt
  <2>5. dropped' \in [Tab -> [File -> Nat]]
    <3> DEFINE x == dropped[t][f] - 1
    <3>1. f \in File => x \in Nat
      BY <2>4
    <3>2. dropped' = [dropped EXCEPT ![t][f] = x]
      BY <2>1
    <3>3. dropped \in [Tab -> [File -> Nat]]
      BY DEF Cached
    <3> HIDE DEF x
    <3>4. [dropped EXCEPT ![t][f] = x] \in [Tab -> [File -> Nat]]
      <4>1. [dropped[t] EXCEPT ![f] = x] \in [File -> Nat]
        BY <3>1, <3>3
      <4> QED
        BY <3>3, <4>1
    <3> QED
      BY <3>2, <3>4
  <2>2. Cached'
    BY <2>1, <2>5 DEF Cached
  <2>3. /\ \A u \in Tab, g \in File : u # t \/ g # f => dropped'[u][g] = dropped[u][g]
        /\ f \in File => dropped'[t][f] = dropped[t][f] - 1
    BY <2>1 DEF Cached
  <2> QED
    BY <1>2, <2>1, <2>2, <2>3 DEF SameAt, SameListAt, DropsLoad
<1>3. CASE ~(dropped[t][f] > 0)
  <2>1. /\ list' = [list EXCEPT ![t][f] = "loaded"] /\ value' = [value EXCEPT ![t][f] = n.val]
        /\ listens' = [listens EXCEPT ![t][f] = @ \/ n.val # 0] /\ UNCHANGED <<dropped, acked>>
    BY <1>3 DEF Loaded
  <2>2. Cached'
    <3>1. list' \in [Tab -> [File -> {"null", "loading", "loaded"}]]
      BY <2>1 DEF Cached
    <3>2. value' \in [Tab -> [File -> Nat]]
      BY <1>1, <2>1 DEF Cached
    <3>3. (listens[t][f] \/ n.val # 0) \in BOOLEAN
      OBVIOUS
    <3>4. listens' \in [Tab -> [File -> BOOLEAN]]
      BY <2>1, <3>3 DEF Cached
    <3> QED
      BY <2>1, <3>1, <3>2, <3>4 DEF Cached
  <2>3. \A u \in Tab, g \in File : u # t \/ g # f =>
          /\ list'[u][g] = list[u][g] /\ value'[u][g] = value[u][g]
          /\ listens'[u][g] = listens[u][g]
    BY <2>1 DEF Cached
  <2>4. f \in File => /\ list'[t][f] = "loaded" /\ value'[t][f] = n.val
                      /\ listens'[t][f] = (listens[t][f] \/ n.val # 0)
    BY <2>1 DEF Cached
  <2>5. f \in File => dropped[t][f] = 0
    BY <1>3, CacheAt
  <2> QED
    BY <2>1, <2>2, <2>3, <2>4, <2>5 DEF SameAt, SameListAt, TakesLoad
<1> QED
  BY <1>2, <1>3

LEMMA InvalidateDoes ==
  ASSUME Cached, NEW t \in Tab, NEW n \in Notice, NEW f, f = n.file, IsNews(n, f), listens[t][f],
         Invalidate(t, f), UNCHANGED acked
  PROVE  /\ Cached'
         /\ \A u \in Tab, g \in File : u # t \/ g # f => SameAt(u, g)
         /\ f \in File => Forgets(t, f, n)
<1>1. /\ list' = [list EXCEPT ![t][f] = "null"] /\ listens' = [listens EXCEPT ![t][f] = FALSE]
      /\ dropped' = IF list[t][f] = "loading" THEN [dropped EXCEPT ![t][f] = @ + 1] ELSE dropped
      /\ UNCHANGED <<value, acked>>
  BY DEF Invalidate
<1>2. Cached'
  <2>1. dropped' \in [Tab -> [File -> Nat]]
    <3>1. f \in File => dropped[t][f] + 1 \in Nat
      BY CacheAt
    <3>2. [dropped EXCEPT ![t][f] = @ + 1] \in [Tab -> [File -> Nat]]
      BY <3>1, PutAt DEF Cached
    <3> QED
      BY <1>1, <3>2 DEF Cached
  <2>2. list' \in [Tab -> [File -> {"null", "loading", "loaded"}]]
    BY <1>1 DEF Cached
  <2>3. listens' \in [Tab -> [File -> BOOLEAN]]
    BY <1>1 DEF Cached
  <2> QED
    BY <1>1, <2>1, <2>2, <2>3 DEF Cached
<1>3. \A u \in Tab, g \in File : u # t \/ g # f =>
        /\ list'[u][g] = list[u][g] /\ listens'[u][g] = listens[u][g]
        /\ dropped'[u][g] = dropped[u][g]
  BY <1>1 DEF Cached
<1>4. f \in File => /\ list'[t][f] = "null" /\ listens'[t][f] = FALSE
                    /\ dropped'[t][f] = IF list[t][f] = "loading" THEN dropped[t][f] + 1
                                        ELSE dropped[t][f]
  BY <1>1 DEF Cached
<1>5. \A u \in Tab, g \in File : u # t \/ g # f => SameAt(u, g)
  BY <1>1, <1>3 DEF SameAt, SameListAt
<1>6. f \in File => dropped'[t][f] = dropped[t][f] + One(list[t][f] = "loading")
  <2>1. CASE list[t][f] = "loading"
    BY <1>4, <2>1 DEF One
  <2>2. CASE list[t][f] # "loading"
    BY <1>4, <2>2, CacheAt DEF One
  <2> QED
    BY <2>1, <2>2
<1> QED
  BY <1>1, <1>2, <1>4, <1>5, <1>6 DEF Forgets

LEMMA MessageCache ==
  ASSUME Base, NEW t \in Tab, Message(t)
  PROVE  LET n == Head(down[t])
         IN /\ Cached'
            /\ \A u \in Tab, g \in File : u # t => SameAt(u, g)
            /\ \A g \in File : \/ Ignores(t, g, n) \/ DropsLoad(t, g, n) \/ TakesLoad(t, g, n)
                               \/ IsAcked(t, g, n) \/ Forgets(t, g, n)
<1> DEFINE n == Head(down[t])
           f == n.file
           Result == /\ Cached'
                     /\ \A u \in Tab, g \in File : u # t => SameAt(u, g)
                     /\ \A g \in File : \/ Ignores(t, g, n) \/ DropsLoad(t, g, n)
                                        \/ TakesLoad(t, g, n) \/ IsAcked(t, g, n)
                                        \/ Forgets(t, g, n)
<1>1. n \in Notice /\ Cached
  BY MessageDoes DEF Base
<1>2. CASE n.kind = "answer" /\ n.op = "get"
  <2>1. Loaded(t, f, n.val) /\ UNCHANGED acked
    BY <1>2 DEF Message
  <2>2. IsGet(n, f)
    BY <1>2 DEF IsGet
  <2>3. \A g \in File : g # f => ~IsGet(n, g) /\ ~IsPut(n, g) /\ ~IsNews(n, g)
    BY DEF IsGet, IsPut, IsNews
  <2> HIDE DEF n, f
  <2>4. /\ Cached'
        /\ \A u \in Tab, g \in File : u # t \/ g # f => SameAt(u, g)
        /\ f \in File => DropsLoad(t, f, n) \/ TakesLoad(t, f, n)
    BY <1>1, <2>1, <2>2, LoadedDoes DEF f
  <2> QED
    BY <2>3, <2>4 DEF Ignores, n
<1>3. CASE n.kind = "answer" /\ n.op = "put"
  <2>1. acked' = [acked EXCEPT ![t][f] = n.val] /\ UNCHANGED <<list, value, dropped, listens>>
    BY <1>3 DEF Message
  <2>2. n.val \in Nat
    BY <1>1 DEF Notice
  <2>3. \A g \in File : g # f => ~IsGet(n, g) /\ ~IsPut(n, g) /\ ~IsNews(n, g)
    BY DEF IsGet, IsPut, IsNews
  <2>4. IsPut(n, f)
    BY <1>3 DEF IsPut
  <2> HIDE DEF n, f
  <2>5. Cached'
    BY <1>1, <2>1, <2>2 DEF Cached
  <2>6. /\ \A u \in Tab, g \in File : u # t \/ g # f => acked'[u][g] = acked[u][g]
        /\ f \in File => acked'[t][f] = n.val
    BY <1>1, <2>1 DEF Cached
  <2>7. \A u \in Tab, g \in File : u # t \/ g # f => SameAt(u, g)
    BY <2>1, <2>6 DEF SameAt, SameListAt
  <2>8. f \in File => IsAcked(t, f, n)
    BY <2>1, <2>4, <2>6 DEF IsAcked, SameListAt
  <2> QED
    BY <2>3, <2>5, <2>7, <2>8 DEF Ignores, n
<1>4. CASE n.kind = "modified" /\ listens[t][f]
  <2>1. Invalidate(t, f) /\ UNCHANGED acked
    BY <1>4 DEF Message
  <2>2. IsNews(n, f)
    BY <1>4 DEF IsNews
  <2>3. \A g \in File : g # f => ~IsGet(n, g) /\ ~IsPut(n, g) /\ ~IsNews(n, g)
    BY DEF IsGet, IsPut, IsNews
  <2> HIDE DEF n, f
  <2>4. /\ Cached'
        /\ \A u \in Tab, g \in File : u # t \/ g # f => SameAt(u, g)
        /\ f \in File => Forgets(t, f, n)
    BY <1>1, <1>4, <2>1, <2>2, InvalidateDoes DEF f
  <2> QED
    BY <2>3, <2>4 DEF Ignores, n
<1>5. CASE ~(n.kind = "answer" /\ n.op \in {"get", "put"}) /\ ~(n.kind = "modified" /\ listens[t][f])
  <2>1. UNCHANGED cacheVars
    BY <1>5 DEF Message
  <2>2. Cached' /\ \A u \in Tab, g \in File : SameAt(u, g)
    BY <1>1, <2>1 DEF cacheVars, Cached, SameAt, SameListAt
  <2>3. \A g \in File : ~IsGet(n, g) /\ ~IsPut(n, g) /\ (IsNews(n, g) => ~listens[t][g])
    BY <1>5 DEF IsGet, IsPut, IsNews
  <2> HIDE DEF n, f
  <2> QED
    BY <2>2, <2>3 DEF Ignores, n
<1> QED
  BY <1>2, <1>3, <1>4, <1>5

LEMMA ListDoes ==
  ASSUME Base, NEW t \in Tab, NEW f \in File, GetList(t, f)
  PROVE  /\ Cached' /\ list[t][f] = "null" /\ list'[t][f] = "loading"
         /\ listens'[t][f] = (listens[t][f] \/ f \notin Late)
         /\ \A u \in Tab, g \in File : /\ value'[u][g] = value[u][g] /\ acked'[u][g] = acked[u][g]
                                       /\ dropped'[u][g] = dropped[u][g]
                                       /\ u # t \/ g # f => SameAt(u, g)
<1>1. /\ list[t][f] = "null" /\ list' = [list EXCEPT ![t][f] = "loading"]
      /\ listens' = [listens EXCEPT ![t][f] = @ \/ f \notin Late]
      /\ UNCHANGED <<value, dropped, acked>>
  BY DEF GetList
<1>2. Cached
  BY DEF Base
<1>3. (listens[t][f] \/ f \notin Late) \in BOOLEAN
  OBVIOUS
<1>4. list' \in [Tab -> [File -> {"null", "loading", "loaded"}]]
  BY <1>1, <1>2 DEF Cached
<1>5. listens' \in [Tab -> [File -> BOOLEAN]]
  BY <1>1, <1>2, <1>3 DEF Cached
<1>6. \A u \in Tab, g \in File : u # t \/ g # f =>
        list'[u][g] = list[u][g] /\ listens'[u][g] = listens[u][g]
  BY <1>1, <1>2 DEF Cached
<1>7. list'[t][f] = "loading" /\ listens'[t][f] = (listens[t][f] \/ f \notin Late)
  BY <1>1, <1>2 DEF Cached
<1>8. Cached'
  BY <1>1, <1>2, <1>4, <1>5 DEF Cached
<1> QED
  BY <1>1, <1>6, <1>7, <1>8 DEF SameAt, SameListAt

-----------------------------------------------------------------------------
(***************************************************************************)
(* The server's part goes on as it is.                                     *)
(***************************************************************************)
LEMMA OnlyCallsKept ==
  ASSUME Base, NEW t \in Tab, writing' = writing,
         \A f \in File : files'[current'][f] <= last',
         \A u \in Tab : u # t => up'[u] = up[u] /\ sess'[u] = sess[u],
         \A i \in DOMAIN up'[t] : up'[t][i] \in Calls,
         sess'[t].pc # "idle" =>
           /\ sess'[t].req \in Calls
           /\ sess'[t].pc \in (IF sess'[t].req.op = "get" THEN {"read", "answer"}
                               ELSE {"store", "publish", "answer"})
  PROVE  OnlyCalls'
<1>1. writing' = {} /\ \A f \in File : Stored(f)' <= last'
  BY DEF Base, OnlyCalls, Stored
<1>2. ASSUME NEW u \in Tab
      PROVE  /\ \A i \in DOMAIN up'[u] : up'[u][i] \in Calls
             /\ sess'[u].pc # "idle" =>
                  /\ sess'[u].req \in Calls
                  /\ sess'[u].pc \in (IF sess'[u].req.op = "get" THEN {"read", "answer"}
                                      ELSE {"store", "publish", "answer"})
  BY DEF Base, OnlyCalls
<1> QED
  BY <1>1, <1>2 DEF OnlyCalls

LEMMA StepBase ==
  ASSUME Base, NEW t \in Tab, SessionStep(t), UNCHANGED cacheVars PROVE Base'
<1> DEFINE s == sess[t]
           f == s.req.file
<1>1. IInv' /\ Cached'
  BY NextIInv DEF Next, Base, Cached, cacheVars
<1>2. CASE Take(t)
  <2>1. /\ Head(up[t]) \in Calls /\ sess'[t].req = Head(up[t]) /\ up'[t] = Tail(up[t])
        /\ sess'[t].pc = (IF Head(up[t]).op = "get" THEN "read" ELSE "store")
        /\ \A u \in Tab : u # t => up'[u] = up[u] /\ sess'[u] = sess[u]
        /\ UNCHANGED <<files, last, current, writing, down, known>> /\ up[t] # <<>>
    BY <1>2, TakeDoes
  <2>2. \A i \in DOMAIN up'[t] : up'[t][i] \in Calls
    <3>1. up[t] \in Seq(Request)
      BY BaseTypes
    <3>2. \A i \in DOMAIN up'[t] : i + 1 \in DOMAIN up[t] /\ up'[t][i] = up[t][i + 1]
      BY <2>1, <3>1
    <3> QED
      BY <3>2 DEF Base, OnlyCalls
  <2>3. OnlyCalls'
    <3>1. \A g \in File : files'[current'][g] <= last'
      BY <2>1 DEF Base, OnlyCalls, Stored
    <3> QED
      BY <2>1, <2>2, <3>1, OnlyCallsKept
  <2> QED
    BY <1>1, <2>1, <2>3 DEF Base, Messages
<1>3. CASE Read(t)
  <2>1. /\ s.pc = "read" /\ s.req.op = "get" /\ sess'[t].pc = "answer" /\ sess'[t].req = s.req
        /\ \A u \in Tab : u # t => sess'[u] = sess[u]
        /\ UNCHANGED <<files, last, current, writing, down, up, known>>
    BY <1>3, ReadDoes
  <2>2. OnlyCalls'
    BY <2>1, OnlyCallsKept DEF Base, OnlyCalls, Stored
  <2> QED
    BY <1>1, <2>1, <2>2 DEF Base, Messages
<1>4. CASE Store(t)
  <2>1. /\ s.pc = "store" /\ s.req.op = "put" /\ f \in File
        /\ sess'[t].pc = "publish" /\ sess'[t].req = s.req
        /\ last' = last + 1 /\ files'[current][f] = last + 1
        /\ \A g \in File : g # f => files'[current][g] = files[current][g]
        /\ \A u \in Tab : u # t => sess'[u] = sess[u]
        /\ UNCHANGED <<current, writing, down, up, known>>
    BY <1>4, StoreDoes
  <2>2. \A g \in File : files'[current'][g] <= last'
    <3>1. \A g \in File : Stored(g) \in Nat /\ Stored(g) <= last
      BY BaseTypes DEF Base, OnlyCalls
    <3>2. last \in Nat
      BY BaseTypes
    <3> QED
      BY <2>1, <3>1, <3>2 DEF Stored
  <2>3. OnlyCalls'
    BY <2>1, <2>2, OnlyCallsKept DEF Base, OnlyCalls
  <2> QED
    BY <1>1, <2>1, <2>3 DEF Base, Messages
<1>5. CASE PublishModified(t)
  <2>1. /\ s.pc = "publish" /\ s.req.op = "put" /\ sess'[t].pc = "answer" /\ sess'[t].req = s.req
        /\ \A u \in Tab : u # t => sess'[u] = sess[u]
        /\ UNCHANGED <<files, last, current, writing, up, known>>
        /\ Modified(f) \in Notice /\ Publish(Modified(f))
    BY <1>5, PublishDoes
  <2>2. OnlyCalls'
    BY <2>1, OnlyCallsKept DEF Base, OnlyCalls, Stored
  <2>3. Messages'
    BY <2>1, PublishOK DEF Base
  <2> QED
    BY <1>1, <2>2, <2>3 DEF Base
<1>6. CASE Reply(t)
  <2>1. PICK n \in Notice :
          /\ sess'[t].pc = "idle" /\ down'[t] = Append(down[t], n)
          /\ \A u \in Tab : u # t => sess'[u] = sess[u] /\ down'[u] = down[u]
          /\ UNCHANGED <<files, last, current, writing, up, known>>
    BY <1>6, ReplyDoes
  <2>2. OnlyCalls'
    BY <2>1, OnlyCallsKept DEF Base, OnlyCalls, Stored
  <2>3. Messages'
    <3>1. \A u \in Tab : down'[u] \in Seq(Notice)
      <4>1. Append(down[t], n) \in Seq(Notice) /\ \A u \in Tab : down[u] \in Seq(Notice)
        BY BaseTypes, Appending
      <4> QED
        BY <2>1, <4>1
    <3>2. \E n2 : down' = [down EXCEPT ![t] = n2]
      BY <1>6 DEF Reply
    <3> QED
      BY <2>1, <3>1, <3>2 DEF Messages, Base
  <2> QED
    BY <1>1, <2>2, <2>3 DEF Base
<1> QED
  BY <1>2, <1>3, <1>4, <1>5, <1>6, OnlySteps

LEMMA AskBase ==
  ASSUME Base, NEW t \in Tab, NEW c \in Calls, Ask(t, c), Cached' PROVE Base'
<1>1. /\ up'[t] = Append(up[t], c) /\ \A u \in Tab : u # t => up'[u] = up[u]
      /\ UNCHANGED <<files, last, current, writing, sess, down, known>>
      /\ [Next]_vars
  BY AskDoes
<1>2. IInv' /\ Messages'
  BY <1>1, NextIInv DEF Base, Messages
<1>3. \A i \in DOMAIN up'[t] : up'[t][i] \in Calls
  <2>1. up[t] \in Seq(Request) /\ c \in Request
    BY BaseTypes, CallParts
  <2>2. \A i \in DOMAIN up'[t] : up'[t][i] = c \/ (i \in DOMAIN up[t] /\ up'[t][i] = up[t][i])
    BY <1>1, <2>1
  <2> QED
    BY <2>2 DEF Base, OnlyCalls
<1>4. OnlyCalls'
  BY <1>1, <1>3, OnlyCallsKept DEF Base, OnlyCalls, Stored
<1> QED
  BY <1>2, <1>4 DEF Base

LEMMA MessageBase ==
  ASSUME Base, NEW t \in Tab, Message(t) PROVE Base'
<1>1. /\ down[t] # <<>> /\ down'[t] = Tail(down[t]) /\ Head(down[t]) \in Notice
      /\ \A u \in Tab : u # t => down'[u] = down[u]
      /\ UNCHANGED <<files, last, current, writing, sess, up>>
      /\ [Next]_vars
  BY MessageDoes
<1>2. IInv' /\ Cached'
  BY <1>1, NextIInv, MessageCache DEF Base
<1>3. OnlyCalls'
  BY <1>1, OnlyCallsKept DEF Base, OnlyCalls, Stored
<1>4. Messages'
  <2>1. \A u \in Tab : down'[u] \in Seq(Notice)
    <3>1. Tail(down[t]) \in Seq(Notice) /\ \A u \in Tab : down[u] \in Seq(Notice)
      BY <1>1, BaseTypes, Taking
    <3> QED
      BY <1>1, <3>1
  <2>2. /\ down' = [down EXCEPT ![t] = Tail(@)]
        /\ known' = IF Head(down[t]).kind = "state"
                    THEN [known EXCEPT ![t] = Head(down[t]).project] ELSE known
    BY DEF Message, Receive
  <2>3. Head(down[t]).project \in Archive
    BY <1>1 DEF Notice
  <2> QED
    BY <2>1, <2>2, <2>3 DEF Messages, Base
<1> QED
  BY <1>2, <1>3, <1>4 DEF Base

-----------------------------------------------------------------------------
(***************************************************************************)
(* The order of what a tab is sent: a list shown is as new as the last     *)
(* save that was answered, an answer to a load is as new as the answers to *)
(* saves before it, and before the answer to a save there is the news that *)
(* drops whatever is older.                                                *)
(***************************************************************************)
Shows(t, f) == list[t][f] = "loaded" /\ value[t][f] # 0
\* Before the i-th message to t there is one that drops what is older than n.
Gone(t, f, n, i) == /\ Shows(t, f) /\ value[t][f] < n => News(down[t], f, i)
                    /\ Swept(down[t], f, n, i)
Seen(t, f) == /\ Shows(t, f) => listens[t][f] /\ value[t][f] >= acked[t][f]
              /\ acked[t][f] <= Stored(f)
              /\ \A i \in Gets(down[t], f) : down[t][i].val >= acked[t][f]
Puts(q, f) == {i \in DOMAIN q : IsPut(q[i], f)}
SavesFit(t, f) ==
  \A i \in Puts(down[t], f) :
    /\ down[t][i].val <= Stored(f) /\ Gone(t, f, down[t][i].val, i)
    /\ \A j \in Gets(down[t], f) : j > i => down[t][j].val >= down[t][i].val
\* The same for what the session is about to answer.
Ready(t, f) ==
  /\ Serving(t, "get", f) /\ sess[t].pc = "answer" =>
       /\ sess[t].val >= acked[t][f]
       /\ \A i \in Puts(down[t], f) : sess[t].val >= down[t][i].val
  /\ Serving(t, "put", f) /\ sess[t].pc # "store" =>
       /\ sess[t].val <= Stored(f)
       /\ sess[t].pc = "answer" => Gone(t, f, sess[t].val, Len(down[t]) + 1)
Ordered(t, f) == Seen(t, f) /\ SavesFit(t, f) /\ Ready(t, f)

\* A step of the others, or one that only makes the file newer.
LEMMA OrderedStays ==
  ASSUME Base, Base', NEW t \in Tab, NEW f \in File, Ordered(t, f), SameAt(t, f),
         down'[t] = down[t], Stored(f) <= Stored(f)'
  PROVE  Seen(t, f)' /\ SavesFit(t, f)' /\ (sess'[t] = sess[t] => Ready(t, f)')
<1>1. Stored(f) \in Nat /\ Stored(f)' \in Nat /\ down[t] \in Seq(Notice)
  <2>1. Stored(f)' \in Nat
    BY DEF Base, IInv, Typed, Stored
  <2> QED
    BY <2>1, BaseTypes
<1>2. acked[t][f] \in Nat /\ \A i \in DOMAIN down[t] : down[t][i].val \in Nat
  <2>1. \A i \in DOMAIN down[t] : down[t][i] \in Notice
    BY <1>1
  <2> QED
    BY <2>1, CacheAt DEF Base, Notice
<1>3. \A n, i : Gone(t, f, n, i) => Gone(t, f, n, i)'
  BY DEF Gone, Shows, SameAt, SameListAt
<1>4. Seen(t, f)'
  BY <1>1, <1>2 DEF Ordered, Seen, Shows, SameAt, SameListAt, Gets
<1>5. SavesFit(t, f)'
  BY <1>1, <1>2, <1>3 DEF Ordered, SavesFit, Puts, Gets
<1>6. ASSUME sess'[t] = sess[t] PROVE Ready(t, f)'
  <2>1. sess[t].pc # "idle" => sess[t].val \in Nat
    BY AtWork
  <2> QED
    BY <1>1, <1>2, <1>3, <1>6, <2>1 DEF Ordered, Ready, Serving, SameAt, SameListAt
<1> QED
  BY <1>4, <1>5, <1>6

\* One more message to t.
LEMMA OrderedSends ==
  ASSUME Base, NEW t \in Tab, NEW f \in File, Ordered(t, f), SameAt(t, f),
         Stored(f)' = Stored(f), NEW m \in Notice, down'[t] = Append(down[t], m),
         IsGet(m, f) => /\ m.val >= acked[t][f]
                        /\ \A i \in Puts(down[t], f) : m.val >= down[t][i].val,
         IsPut(m, f) => m.val <= Stored(f) /\ Gone(t, f, m.val, Len(down[t]) + 1)
  PROVE  /\ Seen(t, f)' /\ SavesFit(t, f)'
         /\ \A n : /\ Gone(t, f, n, Len(down[t]) + 1) /\ ~IsGet(m, f)
                        => Gone(t, f, n, Len(down[t]) + 1)'
                   /\ IsNews(m, f) => Gone(t, f, n, Len(down[t]) + 1)'
         /\ Puts(down'[t], f) = IF IsPut(m, f) THEN Puts(down[t], f) \cup {Len(down'[t])}
                                ELSE Puts(down[t], f)
         /\ \A i \in DOMAIN down[t] : down'[t][i] = down[t][i]
<1> DEFINE q == down[t]
           r == Append(q, m)
<1>0. PICK l : l = Len(q)
  OBVIOUS
<1>1. /\ q \in Seq(Notice) /\ r \in Seq(Notice) /\ Len(r) = l + 1 /\ l \in Nat
      /\ DOMAIN q = 1..l /\ DOMAIN r = 1..l + 1
      /\ r[l + 1] = m /\ \A i \in DOMAIN q : r[i] = q[i]
  BY <1>0, BaseTypes, Appending
<1>2. \A n : /\ \A i \in 1..l + 1 : Gone(t, f, n, i) => Gone(t, f, n, i)'
             /\ Gone(t, f, n, l + 1) /\ ~IsGet(m, f) => Gone(t, f, n, l + 2)'
             /\ IsNews(m, f) => Gone(t, f, n, l + 2)'
  <2> SUFFICES ASSUME NEW n
               PROVE  /\ \A i \in 1..l + 1 : Gone(t, f, n, i) => Gone(t, f, n, i)'
                      /\ Gone(t, f, n, l + 1) /\ ~IsGet(m, f) => Gone(t, f, n, l + 2)'
                      /\ IsNews(m, f) => Gone(t, f, n, l + 2)'
    OBVIOUS
  <2>1. Shows(t, f)' = Shows(t, f) /\ value'[t][f] = value[t][f]
    BY DEF Shows, SameAt, SameListAt
  <2>2. down'[t] = r
    OBVIOUS
  <2>3. /\ \A i \in 1..l + 1 : /\ Swept(q, f, n, i) => Swept(r, f, n, i)
                               /\ News(q, f, i) => News(r, f, i)
        /\ Swept(q, f, n, l + 1) /\ ~IsGet(m, f) => Swept(r, f, n, l + 2)
        /\ News(q, f, l + 1) => News(r, f, l + 2)
        /\ IsNews(m, f) => Swept(r, f, n, l + 2) /\ News(r, f, l + 2)
    BY <1>0, <1>1, SweptAppend
  <2> HIDE DEF r
  <2> QED
    BY <2>1, <2>2, <2>3 DEF Gone
<1> HIDE DEF r
<1>3. /\ Gets(r, f) \subseteq Gets(q, f) \cup {l + 1} /\ (l + 1 \in Gets(r, f) => IsGet(m, f))
      /\ Puts(r, f) \subseteq Puts(q, f) \cup {l + 1} /\ (l + 1 \in Puts(r, f) <=> IsPut(m, f))
      /\ Puts(q, f) \subseteq Puts(r, f)
      /\ Gets(q, f) \subseteq 1..l /\ Puts(q, f) \subseteq 1..l
  BY <1>1 DEF Gets, Puts
<1>4. Seen(t, f)'
  <2>1. \A i \in Gets(r, f) : r[i].val >= acked[t][f]
    BY <1>1, <1>3 DEF Ordered, Seen
  <2> QED
    BY <2>1 DEF Ordered, Seen, Shows, SameAt, SameListAt, r
<1>5. SavesFit(t, f)'
  <2> SUFFICES ASSUME NEW i \in Puts(r, f)
               PROVE  /\ r[i].val <= Stored(f) /\ \A n : n = r[i].val => Gone(t, f, n, i)'
                      /\ \A j \in Gets(r, f) : j > i => r[j].val >= r[i].val
    BY DEF SavesFit, r
  <2>1. CASE i = l + 1
    <3>1. IsPut(m, f) /\ r[i] = m /\ \A j \in Gets(r, f) : ~(j > i)
      BY <1>1, <1>3, <2>1
    <3>2. Gone(t, f, m.val, l + 1) /\ m.val <= Stored(f)
      BY <1>0, <3>1
    <3>3. l + 1 \in 1..l + 1
      BY <1>1
    <3> QED
      BY <1>2, <2>1, <3>1, <3>2, <3>3
  <2>2. CASE i # l + 1
    <3>1. i \in Puts(q, f) /\ r[i] = q[i] /\ i \in 1..l + 1
      BY <1>1, <1>3, <2>2
    <3>2. r[i].val <= Stored(f) /\ Gone(t, f, r[i].val, i)
      BY <3>1 DEF Ordered, SavesFit
    <3>3. ASSUME NEW j \in Gets(r, f), j > i PROVE r[j].val >= r[i].val
      <4>1. CASE j = l + 1
        BY <1>1, <1>3, <3>1, <4>1
      <4>2. CASE j # l + 1
        <5>1. j \in Gets(q, f) /\ r[j] = q[j]
          BY <1>1, <1>3, <4>2
        <5> QED
          BY <3>1, <3>3, <5>1 DEF Ordered, SavesFit
      <4> QED
        BY <4>1, <4>2
    <3> QED
      BY <1>2, <3>1, <3>2, <3>3
  <2> QED
    BY <2>1, <2>2
<1>6. Puts(r, f) = IF IsPut(m, f) THEN Puts(q, f) \cup {l + 1} ELSE Puts(q, f)
  <2>1. CASE IsPut(m, f)
    BY <1>3, <2>1
  <2>2. CASE ~IsPut(m, f)
    <3>1. Puts(r, f) \subseteq Puts(q, f) /\ Puts(q, f) \subseteq Puts(r, f)
      BY <1>3, <2>2
    <3> QED
      BY <2>2, <3>1
  <2> QED
    BY <2>1, <2>2
<1>7. Len(down'[t]) + 1 = l + 2 /\ Len(down'[t]) = l + 1 /\ down'[t] = r
  BY <1>1 DEF r
<1> QED
  BY <1>0, <1>1, <1>2, <1>4, <1>5, <1>6, <1>7

\* t takes its next message.
LEMMA OrderedReceives ==
  ASSUME Base, Base', NEW t \in Tab, NEW f \in File, Ordered(t, f), Message(t)
  PROVE  Ordered(t, f)'
<1> DEFINE n == Head(down[t])
           q == down[t]
           r == Tail(q)
<1>0. PICK l : l = Len(q)
  OBVIOUS
<1>1. /\ down'[t] = r /\ n \in Notice /\ sess' = sess /\ Stored(f)' = Stored(f)
      /\ Stored(f) \in Nat /\ q \in Seq(Notice) /\ q # <<>>
  BY MessageDoes, BaseTypes DEF Stored
<1>2. /\ r \in Seq(Notice) /\ Len(r) = l - 1 /\ l \in Nat \ {0} /\ DOMAIN q = 1..l
      /\ DOMAIN r = 1..l - 1 /\ n = q[1] /\ \A i \in DOMAIN r : r[i] = q[i + 1]
  BY <1>0, <1>1, Taking
<1>3. /\ list[t][f] \in {"null", "loading", "loaded"} /\ value[t][f] \in Nat
      /\ acked[t][f] \in Nat /\ acked'[t][f] \in Nat /\ n.val \in Nat
      /\ \A i \in DOMAIN q : q[i].val \in Nat
  <2>1. acked'[t][f] \in Nat
    BY DEF Base, Cached
  <2>2. n.val \in Nat
    BY <1>1 DEF Notice
  <2>3. \A i \in DOMAIN q : q[i] \in Notice
    BY <1>1
  <2>4. \A i \in DOMAIN q : q[i].val \in Nat
    BY <2>3 DEF Notice
  <2> QED
    BY <2>1, <2>2, <2>4, CacheAt DEF Base
<1>4. \/ Ignores(t, f, n) \/ DropsLoad(t, f, n) \/ TakesLoad(t, f, n)
      \/ IsAcked(t, f, n) \/ Forgets(t, f, n)
  BY MessageCache
<1> HIDE DEF n, r, q
\* What the message does to the list is what Gone was waiting for.
<1>5. ASSUME NEW v \in Nat, NEW i \in 2..l + 1, Gone(t, f, v, i) PROVE Gone(t, f, v, i - 1)'
  <2>1. /\ Swept(r, f, v, i - 1)
        /\ News(q, f, i) /\ ~IsNews(n, f) => News(r, f, i - 1)
        /\ IsGet(n, f) /\ n.val < v => News(r, f, i - 1)
    <3>1. Swept(q, f, v, i)
      BY <1>5 DEF Gone, q
    <3>2. i \in 2..Len(q) + 1
      BY <1>0
    <3> QED
      BY <1>1, <3>1, <3>2, SweptTail DEF n, r, q
  <2>2. Shows(t, f) /\ value[t][f] < v => News(q, f, i)
    BY <1>5 DEF Gone, q
  <2>3. Shows(t, f)' /\ value'[t][f] < v => News(r, f, i - 1)
    <3>1. CASE Ignores(t, f, n)
      <4>1. Shows(t, f) => ~IsNews(n, f)
        BY <3>1 DEF Ordered, Seen, Ignores
      <4> QED
        BY <2>1, <2>2, <3>1, <4>1 DEF Ignores, SameAt, SameListAt, Shows
    <3>2. CASE DropsLoad(t, f, n) \/ IsAcked(t, f, n)
      <4>1. ~IsNews(n, f)
        BY <3>2 DEF DropsLoad, IsAcked, IsNews, IsGet, IsPut
      <4> QED
        BY <2>1, <2>2, <3>2, <4>1 DEF DropsLoad, IsAcked, SameListAt, Shows
    <3>3. CASE TakesLoad(t, f, n)
      BY <2>1, <3>3 DEF TakesLoad
    <3>4. CASE Forgets(t, f, n)
      BY <3>4 DEF Forgets, Shows
    <3> QED
      BY <1>4, <3>1, <3>2, <3>3, <3>4
  <2> QED
    BY <1>1, <2>1, <2>3 DEF Gone
<1>6. /\ \A i \in Gets(r, f) : i \in Nat /\ i + 1 \in Gets(q, f) /\ r[i] = q[i + 1]
      /\ \A i \in Puts(r, f) : /\ i \in Nat /\ i + 1 \in Puts(q, f) /\ r[i] = q[i + 1]
                               /\ i + 1 \in 2..l + 1
      /\ IsGet(n, f) => 1 \in Gets(q, f)
      /\ IsPut(n, f) => 1 \in Puts(q, f)
  BY <1>2 DEF Gets, Puts
\* acked grows only by the answer that is taken.
<1>7. /\ acked'[t][f] = IF IsPut(n, f) THEN n.val ELSE acked[t][f]
      /\ IsPut(n, f) => IsAcked(t, f, n)
  BY <1>4 DEF Ignores, DropsLoad, TakesLoad, IsAcked, Forgets, SameAt, IsGet, IsPut, IsNews
<1>8. IsPut(n, f) => /\ n.val <= Stored(f) /\ \A j \in Gets(q, f) : j > 1 => q[j].val >= n.val
                     /\ Shows(t, f) => value[t][f] >= n.val
  <2> SUFFICES ASSUME IsPut(n, f)
               PROVE  /\ n.val <= Stored(f) /\ \A j \in Gets(q, f) : j > 1 => q[j].val >= n.val
                      /\ Shows(t, f) => value[t][f] >= n.val
    OBVIOUS
  <2>1. 1 \in Puts(q, f) /\ q[1] = n
    BY <1>2, <1>6
  <2>2. n.val <= Stored(f) /\ \A j \in Gets(q, f) : j > 1 => q[j].val >= n.val
    BY <2>1 DEF Ordered, SavesFit, q
  <2>3. Gone(t, f, n.val, 1)
    BY <2>1 DEF Ordered, SavesFit, q
  <2>4. ~News(q, f, 1)
    BY DEF News
  <2>5. ~(Shows(t, f) /\ value[t][f] < n.val)
    BY <2>3, <2>4 DEF Gone, q
  <2> QED
    BY <1>3, <2>2, <2>5
<1>9. Seen(t, f)'
  <2>1. ASSUME NEW i \in Gets(r, f) PROVE r[i].val >= acked'[t][f]
    <3>1. i \in Nat /\ i + 1 \in Gets(q, f) /\ r[i] = q[i + 1]
      BY <1>6
    <3>2. q[i + 1].val >= acked[t][f]
      BY <3>1 DEF Ordered, Seen, q
    <3>3. IsPut(n, f) => q[i + 1].val >= n.val
      <4>1. i + 1 > 1
        BY <1>2, <3>1 DEF Gets
      <4> QED
        BY <1>8, <3>1, <4>1
    <3> QED
      BY <1>7, <3>1, <3>2, <3>3
  <2>2. acked'[t][f] <= Stored(f)
    BY <1>3, <1>7, <1>8 DEF Ordered, Seen
  <2>3. Shows(t, f)' => listens'[t][f] /\ value'[t][f] >= acked'[t][f]
    <3>1. CASE Ignores(t, f, n) \/ DropsLoad(t, f, n)
      BY <3>1 DEF Ordered, Seen, Shows, Ignores, DropsLoad, SameAt, SameListAt
    <3>2. CASE IsAcked(t, f, n)
      BY <1>8, <3>2 DEF Ordered, Seen, Shows, IsAcked, SameListAt
    <3>3. CASE TakesLoad(t, f, n)
      <4>1. q[1].val >= acked[t][f]
        BY <1>6, <3>3 DEF Ordered, Seen, q, TakesLoad
      <4> QED
        BY <1>2, <3>3, <4>1 DEF Shows, TakesLoad
    <3>4. CASE Forgets(t, f, n)
      BY <3>4 DEF Shows, Forgets
    <3> QED
      BY <1>4, <3>1, <3>2, <3>3, <3>4
  <2> QED
    BY <1>1, <2>1, <2>2, <2>3 DEF Seen
<1>10. SavesFit(t, f)'
  <2> SUFFICES ASSUME NEW i \in Puts(r, f)
               PROVE  /\ r[i].val <= Stored(f) /\ \A v : v = r[i].val => Gone(t, f, v, i)'
                      /\ \A j \in Gets(r, f) : j > i => r[j].val >= r[i].val
    BY <1>1 DEF SavesFit
  <2>1. /\ i \in Nat /\ i + 1 \in Puts(q, f) /\ r[i] = q[i + 1] /\ i + 1 \in 2..l + 1
    BY <1>6
  <2>2. r[i].val \in Nat
    BY <1>3, <2>1 DEF Puts
  <2>3. /\ r[i].val <= Stored(f) /\ Gone(t, f, r[i].val, i + 1)
        /\ \A j \in Gets(q, f) : j > i + 1 => q[j].val >= r[i].val
    BY <2>1 DEF Ordered, SavesFit, q
  <2>4. \A v : v = r[i].val => Gone(t, f, v, (i + 1) - 1)'
    BY <1>5, <2>1, <2>2, <2>3
  <2>5. \A j \in Gets(r, f) : j > i => r[j].val >= r[i].val
    BY <1>6, <2>1, <2>3
  <2>6. (i + 1) - 1 = i
    BY <2>1
  <2> QED
    BY <2>3, <2>4, <2>5, <2>6
<1>11. Ready(t, f)'
  <2>1. sess[t].pc # "idle" => sess[t].val \in Nat
    BY AtWork
  <2>2. ASSUME Serving(t, "get", f), sess[t].pc = "answer"
        PROVE  /\ sess[t].val >= acked'[t][f]
               /\ \A i \in Puts(r, f) : sess[t].val >= r[i].val
    BY <1>2, <1>6, <1>7, <2>2 DEF Ordered, Ready, q
  <2>3. ASSUME Serving(t, "put", f), sess[t].pc # "store"
        PROVE  /\ sess[t].val <= Stored(f)
               /\ sess[t].pc = "answer" => \A v : v = sess[t].val => Gone(t, f, v, l)'
    <3>1. /\ sess[t].val <= Stored(f)
          /\ sess[t].pc = "answer" => Gone(t, f, sess[t].val, l + 1)
      BY <1>0, <2>3 DEF Ordered, Ready, q
    <3>2. l + 1 \in 2..l + 1 /\ (l + 1) - 1 = l /\ sess[t].val \in Nat
      BY <1>2, <2>1, <2>3 DEF Serving
    <3> QED
      BY <1>5, <3>1, <3>2
  <2>4. Len(down'[t]) + 1 = l
    BY <1>1, <1>2
  <2> QED
    BY <1>1, <2>2, <2>3, <2>4 DEF Ready, Serving
<1> QED
  BY <1>9, <1>10, <1>11 DEF Ordered

\* A tab calls.
LEMMA OrderedAsks ==
  ASSUME Base, Base', NEW t \in Tab, NEW f \in File, Ordered(t, f),
         NEW u \in Tab, NEW g \in File, GetList(u, g) \/ SaveFile(u, g)
  PROVE  Ordered(t, f)'
<1>1. UNCHANGED <<files, current, sess, down>>
  BY AskDoes DEF GetList, SaveFile, Calls
<1>2. Stored(f)' = Stored(f) /\ Stored(f) \in Nat /\ down'[t] = down[t] /\ sess'[t] = sess[t]
  BY <1>1, BaseTypes DEF Stored
<1>3. ASSUME SameAt(t, f) PROVE Ordered(t, f)'
  BY <1>2, <1>3, OrderedStays DEF Ordered
<1>4. CASE SaveFile(u, g)
  <2>1. SameAt(t, f)
    BY <1>4 DEF SaveFile, cacheVars, SameAt, SameListAt
  <2> QED
    BY <1>3, <2>1
<1>5. CASE GetList(u, g) /\ (t # u \/ f # g)
  <2>1. SameAt(t, f)
    BY <1>5, ListDoes
  <2> QED
    BY <1>3, <2>1
<1>6. CASE GetList(u, g) /\ t = u /\ f = g
  <2>1. list'[t][f] = "loading" /\ acked'[t][f] = acked[t][f]
    BY <1>6, ListDoes
  <2>2. ~Shows(t, f)'
    BY <2>1 DEF Shows
  <2>3. \A n, i : Gone(t, f, n, i) => Gone(t, f, n, i)'
    BY <1>2, <2>2 DEF Gone
  <2>4. Seen(t, f)'
    BY <1>2, <2>1, <2>2 DEF Ordered, Seen
  <2>5. SavesFit(t, f)'
    BY <1>2, <2>3 DEF Ordered, SavesFit
  <2>6. Ready(t, f)'
    BY <1>2, <2>1, <2>3 DEF Ordered, Ready, Serving
  <2> QED
    BY <2>4, <2>5, <2>6 DEF Ordered
<1> QED
  BY <1>4, <1>5, <1>6

\* The session of t or of another tab works on a call.
LEMMA OrderedWorks ==
  ASSUME Base, Base', NEW t \in Tab, NEW f \in File, Ordered(t, f),
         NEW u \in Tab, SessionStep(u), UNCHANGED cacheVars
  PROVE  Ordered(t, f)'
<1>1. SameAt(t, f) /\ acked'[t][f] = acked[t][f]
  BY DEF cacheVars, SameAt, SameListAt
<1>2. Stored(f) \in Nat /\ acked[t][f] \in Nat /\ acked[t][f] <= Stored(f)
  BY BaseTypes, CacheAt DEF Base, Ordered, Seen
<1>3. ASSUME UNCHANGED <<files, current>> PROVE Stored(f)' = Stored(f)
  BY <1>3 DEF Stored
<1>4. ASSUME UNCHANGED <<files, current>>, down'[t] = down[t]
      PROVE  /\ Seen(t, f)' /\ SavesFit(t, f)' /\ (sess'[t] = sess[t] => Ready(t, f)')
  BY <1>1, <1>2, <1>3, <1>4, OrderedStays
<1>5. CASE Take(u)
  <2>1. /\ UNCHANGED <<files, current, down>> /\ \A w \in Tab : w # u => sess'[w] = sess[w]
        /\ sess'[u].pc \in {"read", "store"}
        /\ sess'[u].pc = "store" => sess'[u].req.op # "get"
        /\ sess'[u].pc = "read" => sess'[u].req.op = "get"
    BY <1>5, TakeDoes
  <2>2. u = t => Ready(t, f)'
    BY <2>1 DEF Ready, Serving
  <2> QED
    BY <1>4, <2>1, <2>2 DEF Ordered
<1>6. CASE Read(u)
  <2>1. /\ UNCHANGED <<files, current, down>> /\ \A w \in Tab : w # u => sess'[w] = sess[w]
        /\ sess'[u].pc = "answer" /\ sess'[u].req = sess[u].req /\ sess[u].req.op = "get"
        /\ sess'[u].val = Stored(sess[u].req.file)
    BY <1>6, ReadDoes
  <2>2. \A i \in Puts(down[t], f) : down[t][i].val <= Stored(f) /\ down[t][i].val \in Nat
    <3>1. \A i \in DOMAIN down[t] : down[t][i] \in Notice
      BY BaseTypes
    <3> QED
      BY <3>1 DEF Ordered, SavesFit, Puts, Notice
  <2>3. u = t => Ready(t, f)'
    BY <1>1, <1>2, <2>1, <2>2 DEF Ready, Serving
  <2> QED
    BY <1>4, <2>1, <2>3 DEF Ordered
<1>7. CASE Store(u)
  <2> DEFINE g == sess[u].req.file
  <2>1. /\ sess'[u].pc = "publish" /\ sess'[u].req = sess[u].req /\ sess'[u].val = last + 1
        /\ sess[u].req.op = "put" /\ g \in File
        /\ files'[current][g] = last + 1
        /\ \A h \in File : h # g => files'[current][h] = files[current][h]
        /\ \A w \in Tab : w # u => sess'[w] = sess[w]
        /\ UNCHANGED <<current, down>>
    BY <1>7, StoreDoes
  <2>2. last \in Nat /\ Stored(f) <= last
    BY BaseTypes DEF Base, OnlyCalls
  <2>3. Stored(f)' = IF f = g THEN last + 1 ELSE Stored(f)
    BY <2>1 DEF Stored
  <2>4. Stored(f) <= Stored(f)'
    BY <1>2, <2>2, <2>3
  <2>5. /\ Seen(t, f)' /\ SavesFit(t, f)' /\ (sess'[t] = sess[t] => Ready(t, f)')
    BY <1>1, <2>1, <2>4, OrderedStays
  <2>6. u = t => Ready(t, f)'
    <3> SUFFICES ASSUME u = t PROVE Ready(t, f)'
      OBVIOUS
    <3>1. sess'[t].pc = "publish" /\ (sess'[t].req.file = f => sess'[t].val <= Stored(f)')
      BY <2>1, <2>2, <2>3
    <3>2. sess'[t].req.op = "put"
      BY <2>1
    <3> QED
      BY <3>1, <3>2 DEF Ready, Serving
  <2> QED
    BY <2>1, <2>5, <2>6 DEF Ordered
<1>8. CASE PublishModified(u)
  <2> DEFINE m == Modified(sess[u].req.file)
  <2>1. /\ sess[u].pc = "publish" /\ sess[u].req.op = "put" /\ m \in Notice
        /\ sess'[u].pc = "answer" /\ sess'[u].req = sess[u].req /\ sess'[u].val = sess[u].val
        /\ down'[t] = Append(down[t], m) /\ \A w \in Tab : w # u => sess'[w] = sess[w]
        /\ UNCHANGED <<files, current>>
    BY <1>8, PublishDoes
  <2>2. /\ ~IsGet(m, f) /\ ~IsPut(m, f) /\ (IsNews(m, f) <=> sess[u].req.file = f)
    BY DEF Modified, IsGet, IsPut, IsNews
  <2> HIDE DEF m
  <2>3. Stored(f)' = Stored(f)
    BY <1>3, <2>1
  <2>4. /\ Seen(t, f)' /\ SavesFit(t, f)' /\ Puts(down'[t], f) = Puts(down[t], f)
        /\ \A n : /\ Gone(t, f, n, Len(down[t]) + 1) => Gone(t, f, n, Len(down[t]) + 1)'
                  /\ IsNews(m, f) => Gone(t, f, n, Len(down[t]) + 1)'
        /\ \A i \in DOMAIN down[t] : down'[t][i] = down[t][i]
    BY <1>1, <2>1, <2>2, <2>3, OrderedSends
  <2>5. Ready(t, f)'
    <3>1. CASE u = t
      <4>1. ~Serving(t, "get", f)'
        BY <2>1, <3>1 DEF Serving
      <4>2. ASSUME Serving(t, "put", f)' PROVE Serving(t, "put", f) /\ IsNews(m, f)
        BY <2>1, <2>2, <3>1, <4>2 DEF Serving
      <4>3. Serving(t, "put", f)' => sess'[t].val <= Stored(f)'
        BY <2>1, <2>3, <3>1, <4>2 DEF Ordered, Ready
      <4>4. Serving(t, "put", f)' => \A n : Gone(t, f, n, Len(down[t]) + 1)'
        BY <2>4, <4>2
      <4> QED
        BY <4>1, <4>3, <4>4 DEF Ready
    <3>2. CASE u # t
      <4>1. sess'[t] = sess[t]
        BY <2>1, <3>2
      <4>2. ASSUME Serving(t, "get", f), sess[t].pc = "answer"
            PROVE  /\ sess[t].val >= acked[t][f]
                   /\ \A i \in Puts(down'[t], f) : sess[t].val >= down'[t][i].val
        BY <2>4, <4>2 DEF Ordered, Ready, Puts
      <4>3. ASSUME Serving(t, "put", f), sess[t].pc # "store"
            PROVE  /\ sess[t].val <= Stored(f)
                   /\ sess[t].pc = "answer" =>
                        \A v : v = sess[t].val => Gone(t, f, v, Len(down[t]) + 1)'
        BY <2>4, <4>3 DEF Ordered, Ready
      <4> QED
        BY <1>1, <2>3, <4>1, <4>2, <4>3 DEF Ready, Serving
    <3> QED
      BY <3>1, <3>2
  <2> QED
    BY <2>4, <2>5 DEF Ordered
<1>9. CASE Reply(u) /\ u # t
  <2>1. /\ UNCHANGED <<files, current>> /\ down'[t] = down[t] /\ sess'[t] = sess[t]
    BY <1>9, ReplyDoes
  <2> QED
    BY <1>4, <2>1 DEF Ordered
<1>10. CASE Reply(u) /\ u = t
  <2> DEFINE m == Answer(sess[t].req.op, sess[t].req.file, sess[t].val)
  <2>1. /\ sess[t].pc = "answer" /\ sess'[t].pc = "idle" /\ m \in Notice
        /\ down'[t] = Append(down[t], m) /\ UNCHANGED <<files, current>>
    BY <1>10, ReplyDoes
  <2>2. /\ IsGet(m, f) => Serving(t, "get", f) /\ m.val = sess[t].val
        /\ IsPut(m, f) => Serving(t, "put", f) /\ m.val = sess[t].val
    BY <2>1 DEF Answer, IsGet, IsPut, Serving
  <2> HIDE DEF m
  <2>3. Stored(f)' = Stored(f)
    BY <1>3, <2>1
  <2>4. /\ IsGet(m, f) => /\ m.val >= acked[t][f]
                          /\ \A i \in Puts(down[t], f) : m.val >= down[t][i].val
        /\ IsPut(m, f) => m.val <= Stored(f) /\ Gone(t, f, m.val, Len(down[t]) + 1)
    BY <2>1, <2>2 DEF Ordered, Ready
  <2>5. Seen(t, f)' /\ SavesFit(t, f)'
    BY <1>1, <2>1, <2>3, <2>4, OrderedSends
  <2>6. Ready(t, f)'
    BY <2>1 DEF Ready, Serving
  <2> QED
    BY <2>5, <2>6 DEF Ordered
<1> QED
  BY <1>5, <1>6, <1>7, <1>8, <1>9, <1>10, OnlySteps

-----------------------------------------------------------------------------
(***************************************************************************)
(* Every load under way is the one a list waits for or one of those that   *)
(* were dropped.                                                           *)
(***************************************************************************)
Under(t, f) == Cardinality(Gets(down[t], f)) + One(Serving(t, "get", f))
                 + Cardinality(Asks(up[t], f))
Counted(t, f) == Under(t, f) = dropped[t][f] + One(list[t][f] = "loading")

LEMMA Counts ==
  ASSUME Base, NEW t \in Tab, NEW f \in File
  PROVE  /\ Cardinality(Gets(down[t], f)) \in Nat /\ Cardinality(Asks(up[t], f)) \in Nat
         /\ \A b : One(b) \in {0, 1} /\ (b => One(b) = 1) /\ (~b => One(b) = 0)
         /\ dropped[t][f] \in Nat
         /\ Cardinality(Gets(down[t], f)) = 0 => Gets(down[t], f) = {}
         /\ Cardinality(Asks(up[t], f)) = 0 => Asks(up[t], f) = {}
<1>1. down[t] \in Seq(Notice) /\ up[t] \in Seq(Request)
  BY BaseTypes
<1>2. Gets(down[t], f) \in SUBSET DOMAIN down[t] /\ Asks(up[t], f) \in SUBSET DOMAIN up[t]
  BY DEF Gets, Asks
<1>3. /\ IsFiniteSet(Gets(down[t], f)) /\ Cardinality(Gets(down[t], f)) \in Nat
      /\ IsFiniteSet(Asks(up[t], f)) /\ Cardinality(Asks(up[t], f)) \in Nat
  BY <1>1, <1>2, CountFinite
<1>4. \A b : One(b) \in {0, 1} /\ (b => One(b) = 1) /\ (~b => One(b) = 0)
  BY DEF One
<1>5. dropped[t][f] \in Nat
  BY CacheAt DEF Base
<1> QED
  BY <1>3, <1>4, <1>5, FS_EmptySet

LEMMA CountedAsks ==
  ASSUME Base, NEW t \in Tab, NEW f \in File, Counted(t, f),
         NEW u \in Tab, NEW g \in File, GetList(u, g) \/ SaveFile(u, g)
  PROVE  Counted(t, f)'
<1> DEFINE c == IF GetList(u, g) THEN Get(g) ELSE Put(g)
<1>1. /\ c \in Calls /\ Ask(u, c)
  BY DEF GetList, SaveFile, Calls
<1>2. c \in Request
  BY <1>1, CallParts
<1>3. GetList(u, g) => c = Get(g)
  OBVIOUS
<1>4. ~GetList(u, g) => c = Put(g)
  OBVIOUS
<1> HIDE DEF c
<1>5. /\ up'[u] = Append(up[u], c) /\ (u # t => up'[t] = up[t])
      /\ down'[t] = down[t] /\ sess'[t] = sess[t]
  BY <1>1, AskDoes
<1>6. Cardinality(Gets(down[t], f)) + One(Serving(t, "get", f))
        = Cardinality(Gets(down'[t], f)) + One(Serving(t, "get", f))'
  BY <1>5 DEF Serving, One
<1>7. ASSUME u = t
      PROVE  /\ Cardinality(Asks(up'[t], f)) = Cardinality(Asks(up[t], f)) + One(c = Get(f))
             /\ c # Get(f) => Asks(up'[t], f) = Asks(up[t], f)
  <2>1. up'[t] = Append(up[t], c) /\ up[t] \in Seq(Request)
    BY <1>5, <1>7, BaseTypes
  <2>2. /\ Cardinality(Asks(Append(up[t], c), f)) = Cardinality(Asks(up[t], f)) + One(c = Get(f))
        /\ c # Get(f) => Asks(Append(up[t], c), f) = Asks(up[t], f)
    BY <1>2, <2>1, AsksAppend
  <2> QED
    BY <2>1, <2>2
<1>8. CASE GetList(u, g) /\ u = t /\ g = f
  <2>1. list[t][f] = "null" /\ list'[t][f] = "loading" /\ dropped'[t][f] = dropped[t][f]
    BY <1>8, ListDoes
  <2>2. Cardinality(Asks(up'[t], f)) = Cardinality(Asks(up[t], f)) + 1
    BY <1>3, <1>7, <1>8 DEF One
  <2>3. One(list[t][f] = "loading") = 0 /\ One(list'[t][f] = "loading") = 1
    BY <2>1 DEF One
  <2>4. /\ Cardinality(Gets(down[t], f)) \in Nat /\ Cardinality(Asks(up[t], f)) \in Nat
        /\ One(Serving(t, "get", f)) \in {0, 1} /\ dropped[t][f] \in Nat
    BY Counts
  <2>5. Cardinality(Gets(down[t], f)) + One(Serving(t, "get", f)) + Cardinality(Asks(up[t], f))
          = dropped[t][f]
    BY <2>3, <2>4 DEF Counted, Under
  <2>6. down'[t] = down[t] /\ One(Serving(t, "get", f))' = One(Serving(t, "get", f))
    BY <1>5 DEF Serving, One
  <2>7. Under(t, f)' = dropped[t][f] + 1
    BY <2>2, <2>4, <2>5, <2>6 DEF Under
  <2> QED
    BY <2>1, <2>3, <2>7 DEF Counted
<1>9. CASE ~(GetList(u, g) /\ u = t /\ g = f)
  <2>1. list'[t][f] = list[t][f] /\ dropped'[t][f] = dropped[t][f]
    <3>1. CASE GetList(u, g)
      BY <1>9, <3>1, ListDoes DEF SameAt, SameListAt
    <3>2. CASE SaveFile(u, g)
      BY <3>2 DEF SaveFile, cacheVars
    <3> QED
      BY <3>1, <3>2
  <2>2. u = t => c # Get(f)
    BY <1>3, <1>4, <1>9, OwnParts
  <2>3. Cardinality(Asks(up'[t], f)) = Cardinality(Asks(up[t], f))
    <3>1. u = t => Asks(up'[t], f) = Asks(up[t], f)
      BY <1>7, <2>2
    <3> QED
      BY <1>5, <3>1
  <2> QED
    BY <1>5, <1>6, <2>1, <2>3 DEF Counted, Under
<1> QED
  BY <1>8, <1>9

LEMMA CountedWorks ==
  ASSUME Base, NEW t \in Tab, NEW f \in File, Counted(t, f),
         NEW u \in Tab, SessionStep(u), UNCHANGED cacheVars
  PROVE  Counted(t, f)'
<1>1. list'[t][f] = list[t][f] /\ dropped'[t][f] = dropped[t][f]
  BY DEF cacheVars
<1> SUFFICES Under(t, f)' = Under(t, f)
  BY <1>1 DEF Counted
<1>2. ASSUME up'[t] = up[t], down'[t] = down[t], Serving(t, "get", f)' <=> Serving(t, "get", f)
      PROVE  Under(t, f)' = Under(t, f)
  BY <1>2 DEF Under, One
<1>3. CASE Take(u) /\ u = t
  <2>1. /\ up[t] # <<>> /\ up'[t] = Tail(up[t]) /\ down' = down /\ sess[t].pc = "idle"
        /\ Head(up[t]) \in Calls /\ sess'[t].req = Head(up[t])
        /\ sess'[t].pc \in {"read", "store"}
    BY <1>3, TakeDoes
  <2>2. Serving(t, "get", f)' <=> Head(up[t]) = Get(f)
    <3>1. \/ Head(up[t]).op = "get" /\ Head(up[t]) = Get(Head(up[t]).file)
          \/ Head(up[t]).op = "put" /\ Head(up[t]) = Put(Head(up[t]).file)
      BY <2>1, CallParts
    <3> QED
      BY <2>1, <3>1, OwnParts DEF Serving
  <2>3. ~Serving(t, "get", f)
    BY <2>1 DEF Serving
  <2>4. /\ Cardinality(Asks(up[t], f)) = Cardinality(Asks(up'[t], f)) + One(Head(up[t]) = Get(f))
        /\ Cardinality(Asks(up'[t], f)) \in Nat
    BY <2>1, AsksTail, BaseTypes
  <2>5. One(Serving(t, "get", f)) = 0 /\ One(Serving(t, "get", f))' = One(Head(up[t]) = Get(f))
    BY <2>2, <2>3 DEF One
  <2> QED
    BY <2>1, <2>4, <2>5, Counts DEF Under
<1>4. CASE Take(u) /\ u # t
  <2>1. up'[t] = up[t] /\ down' = down /\ sess'[t] = sess[t]
    BY <1>4, TakeDoes
  <2> QED
    BY <1>2, <2>1 DEF Serving
<1>5. CASE Read(u)
  <2>1. /\ up' = up /\ down' = down /\ \A w \in Tab : w # u => sess'[w] = sess[w]
        /\ sess[u].pc = "read" /\ sess'[u].pc = "answer" /\ sess'[u].req = sess[u].req
    BY <1>5, ReadDoes
  <2> QED
    BY <1>2, <2>1 DEF Serving
<1>6. CASE Store(u)
  <2>1. /\ up' = up /\ down' = down /\ \A w \in Tab : w # u => sess'[w] = sess[w]
        /\ sess[u].pc = "store" /\ sess'[u].pc = "publish" /\ sess'[u].req = sess[u].req
    BY <1>6, StoreDoes
  <2> QED
    BY <1>2, <2>1 DEF Serving
<1>7. CASE PublishModified(u)
  <2> DEFINE m == Modified(sess[u].req.file)
  <2>1. /\ up' = up /\ down'[t] = Append(down[t], m) /\ m \in Notice
        /\ \A w \in Tab : w # u => sess'[w] = sess[w]
        /\ sess[u].pc = "publish" /\ sess'[u].pc = "answer" /\ sess'[u].req = sess[u].req
    BY <1>7, PublishDoes
  <2>2. ~IsGet(m, f)
    BY DEF Modified, IsGet
  <2> HIDE DEF m
  <2>3. Gets(down'[t], f) = Gets(down[t], f)
    BY <2>1, <2>2, GetsAppend, BaseTypes
  <2>4. Serving(t, "get", f)' <=> Serving(t, "get", f)
    BY <2>1 DEF Serving
  <2> QED
    BY <2>1, <2>3, <2>4 DEF Under, One
<1>8. CASE Reply(u) /\ u # t
  <2>1. up'[t] = up[t] /\ down'[t] = down[t] /\ sess'[t] = sess[t]
    BY <1>8, ReplyDoes
  <2> QED
    BY <1>2, <2>1 DEF Serving
<1>9. CASE Reply(u) /\ u = t
  <2> DEFINE m == Answer(sess[t].req.op, sess[t].req.file, sess[t].val)
  <2>1. /\ sess[t].pc = "answer" /\ sess'[t].pc = "idle" /\ m \in Notice
        /\ down'[t] = Append(down[t], m) /\ up' = up
    BY <1>9, ReplyDoes
  <2>2. IsGet(m, f) <=> Serving(t, "get", f)
    BY <2>1 DEF Answer, IsGet, Serving
  <2>3. ~Serving(t, "get", f)'
    BY <2>1 DEF Serving
  <2> HIDE DEF m
  <2>4. /\ Cardinality(Gets(down'[t], f)) = Cardinality(Gets(down[t], f)) + One(IsGet(m, f))
        /\ Cardinality(Gets(down[t], f)) \in Nat
    BY <2>1, GetsAppend, BaseTypes
  <2>5. One(IsGet(m, f)) = One(Serving(t, "get", f)) /\ One(Serving(t, "get", f))' = 0
    BY <2>2, <2>3 DEF One
  <2> QED
    BY <2>1, <2>4, <2>5, Counts DEF Under
<1> QED
  BY <1>3, <1>4, <1>5, <1>6, <1>7, <1>8, <1>9, OnlySteps

LEMMA CountedReceives ==
  ASSUME Base, NEW t \in Tab, NEW f \in File, Counted(t, f), Message(t)
  PROVE  /\ Counted(t, f)'
         /\ TakesLoad(t, f, Head(down[t])) =>
              /\ list[t][f] = "loading" /\ ~Serving(t, "get", f) /\ Asks(up[t], f) = {}
              /\ Gets(Tail(down[t]), f) = {}
<1> DEFINE n == Head(down[t])
           G == Cardinality(Gets(Tail(down[t]), f))
           A == Cardinality(Asks(up[t], f))
           S == One(Serving(t, "get", f))
<1>1. /\ down[t] # <<>> /\ down'[t] = Tail(down[t]) /\ sess' = sess /\ up' = up
      /\ down[t] \in Seq(Notice) /\ Tail(down[t]) \in Seq(Notice)
  BY MessageDoes, BaseTypes, Taking
<1>2. Cardinality(Gets(down[t], f)) = G + One(IsGet(n, f)) /\ G \in Nat /\ A \in Nat
  BY <1>1, GetsTail, Counts
<1>3. S \in {0, 1} /\ S' = S /\ dropped[t][f] \in Nat
  BY <1>1, Counts DEF Serving, One
<1>4. \/ Ignores(t, f, n) \/ DropsLoad(t, f, n) \/ TakesLoad(t, f, n)
      \/ IsAcked(t, f, n) \/ Forgets(t, f, n)
  BY MessageCache
<1>5. G + One(IsGet(n, f)) + S + A = dropped[t][f] + One(list[t][f] = "loading")
  BY <1>2 DEF Counted, Under
<1>6. Under(t, f)' = G + S + A
  BY <1>1, <1>3 DEF Under
<1>7. /\ One(IsGet(n, f)) = IF IsGet(n, f) THEN 1 ELSE 0
      /\ One(list[t][f] = "loading") = IF list[t][f] = "loading" THEN 1 ELSE 0
      /\ One(list'[t][f] = "loading") = IF list'[t][f] = "loading" THEN 1 ELSE 0
  BY DEF One
<1>8. CASE Ignores(t, f, n) \/ IsAcked(t, f, n)
  <2>1. ~IsGet(n, f) /\ list'[t][f] = list[t][f] /\ dropped'[t][f] = dropped[t][f]
    BY <1>8 DEF Ignores, IsAcked, IsGet, IsPut, SameAt, SameListAt
  <2>2. ~TakesLoad(t, f, n)
    BY <2>1 DEF TakesLoad
  <2> HIDE DEF n, G, A, S
  <2>3. Counted(t, f)'
    BY <1>2, <1>3, <1>5, <1>6, <1>7, <2>1 DEF Counted
  <2> QED
    BY <2>2, <2>3 DEF n
<1>9. CASE DropsLoad(t, f, n)
  <2>1. /\ IsGet(n, f) /\ list'[t][f] = list[t][f] /\ dropped'[t][f] = dropped[t][f] - 1
        /\ dropped[t][f] > 0
    BY <1>9 DEF DropsLoad, SameListAt
  <2>2. ~TakesLoad(t, f, n)
    BY <2>1 DEF TakesLoad
  <2> HIDE DEF n, G, A, S
  <2>3. Counted(t, f)'
    BY <1>2, <1>3, <1>5, <1>6, <1>7, <2>1 DEF Counted
  <2> QED
    BY <2>2, <2>3 DEF n
<1>10. CASE TakesLoad(t, f, n)
  <2>1. /\ IsGet(n, f) /\ list'[t][f] = "loaded" /\ dropped'[t][f] = dropped[t][f]
        /\ dropped[t][f] = 0
    BY <1>10 DEF TakesLoad
  <2> HIDE DEF n, G, A, S
  <2>2. G = 0 /\ A = 0 /\ S = 0 /\ list[t][f] = "loading"
    BY <1>2, <1>3, <1>5, <1>7, <2>1
  <2>3. Counted(t, f)'
    BY <1>6, <1>7, <2>1, <2>2 DEF Counted
  <2>4. Asks(up[t], f) = {} /\ ~Serving(t, "get", f)
    BY <2>2, Counts DEF A, S
  <2>5. Gets(Tail(down[t]), f) = {}
    <3>1. Gets(Tail(down[t]), f) \in SUBSET DOMAIN Tail(down[t])
      BY DEF Gets
    <3>2. IsFiniteSet(Gets(Tail(down[t]), f))
      BY <1>1, <3>1, CountFinite
    <3> QED
      BY <2>2, <3>2, FS_EmptySet DEF G
  <2> QED
    BY <2>2, <2>3, <2>4, <2>5
<1>11. CASE Forgets(t, f, n)
  <2>1. /\ ~IsGet(n, f) /\ list'[t][f] = "null"
        /\ dropped'[t][f] = dropped[t][f] + One(list[t][f] = "loading")
    BY <1>11 DEF Forgets, IsGet, IsNews
  <2>2. ~TakesLoad(t, f, n)
    BY <2>1 DEF TakesLoad
  <2> HIDE DEF n, G, A, S
  <2>3. Counted(t, f)'
    BY <1>2, <1>3, <1>5, <1>6, <1>7, <2>1 DEF Counted
  <2> QED
    BY <2>2, <2>3 DEF n
<1> QED
  BY <1>4, <1>8, <1>9, <1>10, <1>11

-----------------------------------------------------------------------------
(***************************************************************************)
(* A list that listens from the start: what it shows, or what the load it  *)
(* waits for brings, is what the file has, or the news is on its way.      *)
(***************************************************************************)
Good(t, f, v) == v = Stored(f) \/ Told(t, f)
LastGet(q, f, i) == i \in Gets(q, f) /\ \A j \in Gets(q, f) : j <= i
Fresh(t, f) ==
  /\ list[t][f] # "null" => listens[t][f]
  /\ list[t][f] = "loaded" => Good(t, f, value[t][f])
  /\ list[t][f] = "loading" /\ Asks(up[t], f) = {} =>
       /\ Serving(t, "get", f) /\ sess[t].pc = "answer" => Good(t, f, sess[t].val)
       /\ ~Serving(t, "get", f) =>
            \A i, v : LastGet(down[t], f, i) /\ v = down[t][i].val => Good(t, f, v)

LEMMA GoodSends ==
  ASSUME Base, NEW t \in Tab, NEW f \in File, Stored(f)' = Stored(f),
         down'[t] = down[t] \/ \E m \in Notice : down'[t] = Append(down[t], m),
         \A w \in Tab : sess[w].pc = "publish" => sess'[w] = sess[w]
  PROVE  \A v : Good(t, f, v) => Good(t, f, v)'
<1>1. \A i \in DOMAIN down[t] : i \in DOMAIN down'[t] /\ down'[t][i] = down[t][i]
  <2>1. down[t] \in Seq(Notice)
    BY BaseTypes
  <2>2. CASE down'[t] = down[t]
    BY <2>2
  <2>3. ASSUME NEW m \in Notice, down'[t] = Append(down[t], m)
        PROVE  \A i \in DOMAIN down[t] : i \in DOMAIN down'[t] /\ down'[t][i] = down[t][i]
    BY <2>1, <2>3, Appending
  <2> QED
    BY <2>2, <2>3
<1>2. Told(t, f) => Told(t, f)'
  BY <1>1 DEF Told
<1> QED
  BY <1>2 DEF Good

LEMMA GoodWorks ==
  ASSUME Base, NEW t \in Tab, NEW f \in File, NEW u \in Tab, SessionStep(u)
  PROVE  \A v : Good(t, f, v) => Good(t, f, v)'
<1>1. CASE Take(u) \/ Read(u) \/ Reply(u)
  <2>1. /\ UNCHANGED <<files, current>> /\ sess[u].pc # "publish"
        /\ \A w \in Tab : w # u => sess'[w] = sess[w]
        /\ down'[t] = down[t] \/ \E m \in Notice : down'[t] = Append(down[t], m)
    BY <1>1, TakeDoes, ReadDoes, ReplyDoes
  <2>2. Stored(f)' = Stored(f)
    BY <2>1 DEF Stored
  <2> QED
    BY <2>1, <2>2, GoodSends
<1>2. CASE Store(u)
  <2>1. /\ sess[u].pc = "store" /\ sess'[u].pc = "publish" /\ sess'[u].req = sess[u].req
        /\ \A w \in Tab : w # u => sess'[w] = sess[w]
        /\ \A h \in File : h # sess[u].req.file => files'[current][h] = files[current][h]
        /\ UNCHANGED <<current, down>>
    BY <1>2, StoreDoes
  <2>2. CASE sess[u].req.file = f
    BY <2>1, <2>2 DEF Good, Told
  <2>3. CASE sess[u].req.file # f
    <3>1. Stored(f)' = Stored(f)
      BY <2>1, <2>3 DEF Stored
    <3> QED
      BY <2>1, <3>1, GoodSends
  <2> QED
    BY <2>2, <2>3
<1>3. CASE PublishModified(u)
  <2> DEFINE m == Modified(sess[u].req.file)
  <2>1. /\ sess'[u].pc = "answer" /\ \A w \in Tab : w # u => sess'[w] = sess[w]
        /\ m \in Notice /\ down'[t] = Append(down[t], m) /\ UNCHANGED <<files, current>>
    BY <1>3, PublishDoes
  <2>2. m.kind = "modified" /\ m.file = sess[u].req.file
    BY DEF Modified
  <2> HIDE DEF m
  <2>3. /\ Len(down[t]) + 1 \in DOMAIN down'[t] /\ down'[t][Len(down[t]) + 1] = m
        /\ \A i \in DOMAIN down[t] : i \in DOMAIN down'[t] /\ down'[t][i] = down[t][i]
    BY <2>1, BaseTypes, Appending
  <2>4. Told(t, f) => Told(t, f)'
    <3>1. CASE sess[u].req.file = f
      BY <2>2, <2>3, <3>1 DEF Told
    <3>2. CASE sess[u].req.file # f
      BY <2>1, <2>3, <3>2 DEF Told
    <3> QED
      BY <3>1, <3>2
  <2>5. Stored(f)' = Stored(f)
    BY <2>1 DEF Stored
  <2> QED
    BY <2>4, <2>5 DEF Good
<1> QED
  BY <1>1, <1>2, <1>3, OnlySteps

LEMMA FreshAsks ==
  ASSUME Base, NEW t \in Tab, NEW f \in File \ Late, Fresh(t, f),
         NEW u \in Tab, NEW g \in File, GetList(u, g) \/ SaveFile(u, g)
  PROVE  Fresh(t, f)'
<1> DEFINE c == IF GetList(u, g) THEN Get(g) ELSE Put(g)
<1>1. /\ c \in Calls /\ Ask(u, c) /\ (~GetList(u, g) => c = Put(g))
      /\ (GetList(u, g) => c = Get(g))
  BY DEF GetList, SaveFile, Calls
<1> HIDE DEF c
<1>2. /\ up'[u] = Append(up[u], c) /\ (u # t => up'[t] = up[t])
      /\ UNCHANGED <<files, current, sess, down>> /\ c \in Request
  BY <1>1, AskDoes, CallParts
<1>3. \A v : Good(t, f, v) => Good(t, f, v)'
  BY <1>2 DEF Good, Told, Stored
<1>4. CASE GetList(u, g) /\ u = t /\ g = f
  <2>1. list'[t][f] = "loading" /\ listens'[t][f]
    BY <1>4, ListDoes
  <2>2. Asks(up'[t], f) # {}
    <3>1. up'[t] = Append(up[t], c) /\ c = Get(f) /\ up[t] \in Seq(Request)
      BY <1>1, <1>2, <1>4, BaseTypes
    <3>2. Asks(Append(up[t], c), f) # {}
      BY <1>2, <3>1, AsksAppend
    <3> QED
      BY <3>1, <3>2
  <2> QED
    BY <2>1, <2>2 DEF Fresh
<1>5. CASE ~(GetList(u, g) /\ u = t /\ g = f)
  <2>1. SameAt(t, f)
    <3>1. CASE GetList(u, g)
      BY <1>5, <3>1, ListDoes
    <3>2. CASE SaveFile(u, g)
      BY <3>2 DEF SaveFile, cacheVars, SameAt, SameListAt
    <3> QED
      BY <3>1, <3>2
  <2>2. Asks(up'[t], f) = Asks(up[t], f)
    <3>1. CASE u = t
      <4>1. c # Get(f)
        BY <1>1, <1>5, <3>1, OwnParts
      <4>2. up[t] \in Seq(Request) /\ up'[t] = Append(up[t], c)
        BY <1>2, <3>1, BaseTypes
      <4>3. Asks(Append(up[t], c), f) = Asks(up[t], f)
        BY <1>2, <4>1, <4>2, AsksAppend
      <4> QED
        BY <4>2, <4>3
    <3>2. CASE u # t
      BY <1>2, <3>2
    <3> QED
      BY <3>1, <3>2
  <2>3. list'[t][f] = list[t][f] /\ value'[t][f] = value[t][f] /\ listens'[t][f] = listens[t][f]
    BY <2>1 DEF SameAt, SameListAt
  <2>4. list[t][f] = "loaded" => Good(t, f, value[t][f])'
    BY <1>3, <2>3 DEF Fresh
  <2>5. list[t][f] = "loading" /\ Asks(up[t], f) = {} =>
          /\ Serving(t, "get", f) /\ sess[t].pc = "answer" => Good(t, f, sess[t].val)'
          /\ ~Serving(t, "get", f) =>
               \A i, v : LastGet(down[t], f, i) /\ v = down[t][i].val => Good(t, f, v)'
    BY <1>2, <1>3 DEF Fresh
  <2> QED
    BY <1>2, <2>2, <2>3, <2>4, <2>5 DEF Fresh, Serving
<1> QED
  BY <1>4, <1>5

LEMMA FreshWorks ==
  ASSUME Base, NEW t \in Tab, NEW f \in File \ Late, Fresh(t, f),
         NEW u \in Tab, SessionStep(u), UNCHANGED cacheVars
  PROVE  Fresh(t, f)'
<1>1. list' = list /\ value' = value /\ listens' = listens
  BY DEF cacheVars
<1>2. \A v : Good(t, f, v) => Good(t, f, v)'
  BY GoodWorks
<1> DEFINE Waited == list[t][f] = "loading" /\ Asks(up[t], f) = {}
           Coming == /\ Serving(t, "get", f) /\ sess[t].pc = "answer" => Good(t, f, sess[t].val)
                     /\ ~Serving(t, "get", f) =>
                          \A i, v : LastGet(down[t], f, i) /\ v = down[t][i].val => Good(t, f, v)
<1>3. SUFFICES ASSUME Waited' PROVE Coming'
  <2>1. (list[t][f] = "loaded" => Good(t, f, value[t][f]))'
    BY <1>1, <1>2 DEF Fresh
  <2> QED
    BY <1>1, <2>1, <1>3 DEF Fresh
<1>4. Waited => Coming
  BY DEF Fresh
<1>5. ASSUME up'[t] = up[t], down'[t] = down[t], sess'[t] = sess[t] PROVE Coming'
  <2>1. Waited
    BY <1>1, <1>3, <1>5
  <2>2. Serving(t, "get", f)' <=> Serving(t, "get", f)
    BY <1>5 DEF Serving
  <2>3. sess[t].pc = "answer" /\ Serving(t, "get", f) => \A v : v = sess[t].val => Good(t, f, v)'
    BY <1>2, <1>4, <2>1
  <2>4. ~Serving(t, "get", f) =>
          \A i, v : LastGet(down[t], f, i) /\ v = down[t][i].val => Good(t, f, v)'
    BY <1>2, <1>4, <2>1
  <2> QED
    BY <1>5, <2>2, <2>3, <2>4
<1>6. CASE Take(u) /\ u = t
  <2>1. /\ up[t] # <<>> /\ up'[t] = Tail(up[t]) /\ down' = down /\ sess[t].pc = "idle"
        /\ Head(up[t]) \in Calls /\ sess'[t].req = Head(up[t])
        /\ sess'[t].pc = (IF Head(up[t]).op = "get" THEN "read" ELSE "store")
    BY <1>6, TakeDoes
  <2>2. CASE Head(up[t]) = Get(f)
    <3>1. Head(up[t]).op = "get" /\ Head(up[t]).file = f
      BY <2>2, OwnParts
    <3> QED
      BY <2>1, <3>1 DEF Serving
  <2>3. CASE Head(up[t]) # Get(f)
    <3>1. Asks(up[t], f) = {}
      <4>1. Asks(Tail(up[t]), f) = {}
        BY <1>3, <2>1
      <4>2. up[t] \in Seq(Request)
        BY BaseTypes
      <4> QED
        BY <2>1, <2>3, <4>1, <4>2, AsksTail
    <3>2. Waited /\ ~Serving(t, "get", f)
      BY <1>1, <1>3, <2>1, <3>1 DEF Serving
    <3>3. \A i, v : LastGet(down[t], f, i) /\ v = down[t][i].val => Good(t, f, v)'
      BY <1>2, <1>4, <3>2
    <3>4. sess'[t].pc # "answer"
      BY <2>1
    <3> QED
      BY <2>1, <3>3, <3>4
  <2> QED
    BY <2>2, <2>3
<1>7. CASE Read(u) /\ u = t
  <2>1. /\ sess[t].pc = "read" /\ sess[t].req.op = "get" /\ sess'[t].pc = "answer"
        /\ sess'[t].req = sess[t].req /\ sess'[t].val = Stored(sess[t].req.file)
        /\ UNCHANGED <<files, current, up, down>>
    BY <1>7, ReadDoes
  <2>2. CASE sess[t].req.file = f
    <3>1. Serving(t, "get", f)'
      BY <2>1, <2>2 DEF Serving
    <3>2. sess'[t].val = Stored(f)'
      BY <2>1, <2>2 DEF Stored
    <3>3. \A v : v = sess'[t].val => Good(t, f, v)'
      BY <3>2 DEF Good
    <3> QED
      BY <3>1, <3>3
  <2>3. CASE sess[t].req.file # f
    <3>1. ~Serving(t, "get", f) /\ ~Serving(t, "get", f)' /\ Waited
      BY <1>1, <1>3, <2>1, <2>3 DEF Serving
    <3>2. \A i, v : LastGet(down[t], f, i) /\ v = down[t][i].val => Good(t, f, v)'
      BY <1>2, <1>4, <3>1
    <3> QED
      BY <2>1, <3>1, <3>2
  <2> QED
    BY <2>2, <2>3
<1>8. CASE Store(u) /\ u = t
  <2>1. /\ sess[t].req.op = "put" /\ sess'[t].req = sess[t].req /\ UNCHANGED <<up, down>>
    BY <1>8, StoreDoes
  <2>2. ~Serving(t, "get", f) /\ ~Serving(t, "get", f)' /\ Waited
    BY <1>1, <1>3, <2>1 DEF Serving
  <2>3. \A i, v : LastGet(down[t], f, i) /\ v = down[t][i].val => Good(t, f, v)'
    BY <1>2, <1>4, <2>2
  <2> QED
    BY <2>1, <2>2, <2>3
<1>9. CASE PublishModified(u)
  <2> DEFINE m == Modified(sess[u].req.file)
  <2>1. /\ sess[u].req.op = "put" /\ sess'[u].req = sess[u].req
        /\ \A w \in Tab : w # u => sess'[w] = sess[w]
        /\ m \in Notice /\ down'[t] = Append(down[t], m) /\ UNCHANGED up
    BY <1>9, PublishDoes
  <2>2. ~IsGet(m, f)
    BY DEF Modified, IsGet
  <2> HIDE DEF m
  <2>3. /\ Gets(down'[t], f) = Gets(down[t], f)
        /\ \A i \in DOMAIN down[t] : down'[t][i] = down[t][i]
    BY <2>1, <2>2, GetsAppend, BaseTypes, Appending
  <2>4. \A i : LastGet(down'[t], f, i) => LastGet(down[t], f, i) /\ down'[t][i] = down[t][i]
    BY <2>3 DEF LastGet, Gets
  <2>5. Waited
    BY <1>1, <1>3, <2>1
  <2>6. \/ sess'[t] = sess[t] \/ (~Serving(t, "get", f) /\ ~Serving(t, "get", f)')
    BY <2>1 DEF Serving
  <2>7. ASSUME Serving(t, "get", f)', sess'[t].pc = "answer", NEW v, v = sess'[t].val
        PROVE  Good(t, f, v)'
    BY <1>2, <1>4, <2>5, <2>6, <2>7 DEF Serving
  <2>8. ASSUME ~Serving(t, "get", f)', NEW i, NEW v, LastGet(down'[t], f, i), v = down'[t][i].val
        PROVE  Good(t, f, v)'
    <3>1. ~Serving(t, "get", f)
      BY <2>6, <2>8 DEF Serving
    <3> QED
      BY <1>2, <1>4, <2>4, <2>5, <2>8, <3>1
  <2> QED
    BY <2>7, <2>8
<1>10. CASE Reply(u) /\ u = t
  <2> DEFINE m == Answer(sess[t].req.op, sess[t].req.file, sess[t].val)
             q == down[t]
  <2>1. /\ sess[t].pc = "answer" /\ sess'[t].pc = "idle" /\ m \in Notice
        /\ down'[t] = Append(q, m) /\ UNCHANGED up /\ q \in Seq(Notice)
    BY <1>10, ReplyDoes, BaseTypes
  <2>2. (IsGet(m, f) <=> Serving(t, "get", f)) /\ m.val = sess[t].val
    BY <2>1 DEF Answer, IsGet, Serving
  <2>3. Waited /\ ~Serving(t, "get", f)'
    BY <1>1, <1>3, <2>1 DEF Serving
  <2> HIDE DEF m
  <2>4. ASSUME NEW i, NEW v, LastGet(down'[t], f, i), v = down'[t][i].val PROVE Good(t, f, v)'
    <3>1. CASE IsGet(m, f)
      <4>1. Gets(down'[t], f) = Gets(q, f) \cup {Len(q) + 1}
        BY <2>1, <3>1, GetsAppend
      <4>2. Gets(q, f) \subseteq 1..Len(q) /\ Len(q) \in Nat /\ down'[t][Len(q) + 1] = m
        BY <2>1, Appending DEF Gets
      <4>3. i = Len(q) + 1
        <5>1. /\ i \in Gets(q, f) \cup {Len(q) + 1}
              /\ \A j \in Gets(q, f) \cup {Len(q) + 1} : j <= i
          BY <2>4, <4>1 DEF LastGet
        <5>2. Len(q) + 1 <= i
          BY <5>1
        <5> QED
          BY <4>2, <5>1, <5>2
      <4>4. v = sess[t].val
        BY <2>2, <2>4, <4>2, <4>3
      <4>5. Good(t, f, v)
        BY <1>4, <2>1, <2>2, <2>3, <3>1, <4>4
      <4> QED
        BY <1>2, <4>5
    <3>2. CASE ~IsGet(m, f)
      <4>1. Gets(down'[t], f) = Gets(q, f)
        BY <2>1, <3>2, GetsAppend
      <4>2. \A j \in DOMAIN q : down'[t][j] = q[j]
        BY <2>1, Appending
      <4>3. LastGet(q, f, i) /\ v = q[i].val
        BY <2>4, <4>1, <4>2 DEF LastGet, Gets
      <4>4. Good(t, f, v)
        BY <1>4, <2>2, <2>3, <3>2, <4>3
      <4> QED
        BY <1>2, <4>4
    <3> QED
      BY <3>1, <3>2
  <2>5. sess'[t].pc # "answer"
    BY <2>1
  <2> QED
    BY <2>4, <2>5
<1>11. CASE (Take(u) \/ Read(u) \/ Store(u) \/ Reply(u)) /\ u # t
  <2>1. up'[t] = up[t] /\ down'[t] = down[t] /\ sess'[t] = sess[t]
    BY <1>11, TakeDoes, ReadDoes, StoreDoes, ReplyDoes
  <2> QED
    BY <1>5, <2>1
<1> QED
  BY <1>6, <1>7, <1>8, <1>9, <1>10, <1>11, OnlySteps

LEMMA FreshReceives ==
  ASSUME Base, NEW t \in Tab, NEW f \in File \ Late, Fresh(t, f), Counted(t, f), Message(t)
  PROVE  Fresh(t, f)'
<1> DEFINE n == Head(down[t])
           q == down[t]
           r == Tail(q)
<1>1. /\ down'[t] = r /\ UNCHANGED <<files, current, sess, up>> /\ n \in Notice
      /\ q \in Seq(Notice) /\ q # <<>>
  BY MessageDoes, BaseTypes
<1>2. \/ Ignores(t, f, n) \/ DropsLoad(t, f, n) \/ TakesLoad(t, f, n)
      \/ IsAcked(t, f, n) \/ Forgets(t, f, n)
  BY MessageCache
<1>3. /\ \A i \in DOMAIN r : r[i] = q[i + 1] /\ i \in Nat
      /\ \A i \in DOMAIN q : i = 1 \/ (i - 1 \in DOMAIN r /\ r[i - 1] = q[i])
      /\ n = q[1] /\ 1 \in DOMAIN q
  <2>1. /\ DOMAIN q = 1..Len(q) /\ DOMAIN r = 1..Len(q) - 1 /\ Len(q) \in Nat
        /\ \A i \in DOMAIN r : r[i] = q[i + 1]
        /\ n = q[1] /\ 1 \in DOMAIN q
    BY <1>1, Taking
  <2> HIDE DEF q, r, n
  <2>2. \A i \in DOMAIN q : i = 1 \/ (i - 1 \in DOMAIN r /\ (i - 1) + 1 = i)
    BY <2>1
  <2> QED
    BY <2>1, <2>2
<1>4. /\ \A i \in Gets(r, f) : i \in Nat /\ i + 1 \in Gets(q, f) /\ r[i] = q[i + 1]
      /\ \A i \in Gets(q, f) : i = 1 \/ (i \in Nat /\ i - 1 \in Gets(r, f))
  BY <1>1, GetsTail
<1>5. TakesLoad(t, f, n) => /\ list[t][f] = "loading" /\ ~Serving(t, "get", f)
                            /\ Asks(up[t], f) = {} /\ Gets(r, f) = {}
  BY CountedReceives
<1> HIDE DEF n, q, r
<1>6. ASSUME ~IsNews(n, f) PROVE \A v : Good(t, f, v) => Good(t, f, v)'
  <2>1. Told(t, f) => Told(t, f)'
    <3>1. CASE \E i \in DOMAIN q : q[i].kind = "modified" /\ q[i].file = f
      <4>1. PICK i \in DOMAIN q : q[i].kind = "modified" /\ q[i].file = f
        BY <3>1
      <4>2. i # 1
        BY <1>3, <1>6, <4>1 DEF IsNews
      <4>3. i - 1 \in DOMAIN r /\ r[i - 1] = q[i]
        BY <1>3, <4>2
      <4> QED
        BY <1>1, <4>1, <4>3 DEF Told
    <3>2. CASE \E u \in Tab : sess[u].pc = "publish" /\ sess[u].req.file = f
      BY <1>1, <3>2 DEF Told
    <3> QED
      BY <3>1, <3>2 DEF Told, q
  <2>2. Stored(f)' = Stored(f)
    BY <1>1 DEF Stored
  <2> QED
    BY <2>1, <2>2 DEF Good
\* The list waits as it did, for the same last answer.
<1>7. ASSUME ~IsNews(n, f), SameListAt(t, f), listens'[t][f] = listens[t][f] PROVE Fresh(t, f)'
  <2>1. list'[t][f] = list[t][f] /\ value'[t][f] = value[t][f]
    BY <1>7 DEF SameListAt
  <2>2. list[t][f] = "loaded" => Good(t, f, value[t][f])'
    BY <1>6, <1>7, <2>1 DEF Fresh
  <2>3. ASSUME NEW i, LastGet(r, f, i) PROVE LastGet(q, f, i + 1) /\ r[i] = q[i + 1]
    <3>1. i \in Nat /\ i + 1 \in Gets(q, f) /\ r[i] = q[i + 1]
      BY <1>4, <2>3 DEF LastGet
    <3>2. ASSUME NEW j \in Gets(q, f) PROVE j <= i + 1
      <4>1. CASE j = 1
        BY <3>1, <4>1
      <4>2. CASE j # 1
        <5>1. j \in Nat /\ j - 1 \in Gets(r, f)
          BY <1>4, <4>2
        <5>2. j - 1 <= i
          BY <2>3, <5>1 DEF LastGet
        <5> QED
          BY <3>1, <5>1, <5>2
      <4> QED
        BY <4>1, <4>2
    <3> QED
      BY <3>1, <3>2 DEF LastGet
  <2>4. ASSUME list[t][f] = "loading", Asks(up[t], f) = {}
        PROVE  /\ Serving(t, "get", f) /\ sess[t].pc = "answer" =>
                    \A v : v = sess[t].val => Good(t, f, v)'
               /\ ~Serving(t, "get", f) =>
                    \A i, v : LastGet(r, f, i) /\ v = r[i].val => Good(t, f, v)'
    <3>1. /\ Serving(t, "get", f) /\ sess[t].pc = "answer" => Good(t, f, sess[t].val)
          /\ ~Serving(t, "get", f) =>
               \A i, v : LastGet(q, f, i) /\ v = q[i].val => Good(t, f, v)
      BY <2>4 DEF Fresh, q
    <3> QED
      BY <1>6, <1>7, <2>3, <3>1
  <2>5. (Serving(t, "get", f)' <=> Serving(t, "get", f)) /\ sess'[t] = sess[t] /\ up'[t] = up[t]
    BY <1>1 DEF Serving
  <2>6. listens'[t][f] = listens[t][f] /\ (list[t][f] # "null" => listens[t][f])
    BY <1>7 DEF Fresh
  <2> QED
    BY <1>1, <2>1, <2>2, <2>4, <2>5, <2>6 DEF Fresh
<1>8. CASE Ignores(t, f, n)
  <2>1. CASE IsNews(n, f)
    <3>1. list'[t][f] = "null"
      <4>1. list[t][f] = "null" /\ list'[t][f] = list[t][f]
        BY <1>8, <2>1 DEF Ignores, Fresh, SameAt, SameListAt
      <4> QED
        BY <4>1
    <3> QED
      BY <3>1 DEF Fresh
  <2>2. CASE ~IsNews(n, f)
    BY <1>7, <1>8, <2>2 DEF Ignores, SameAt
  <2> QED
    BY <2>1, <2>2
<1>9. CASE DropsLoad(t, f, n) \/ IsAcked(t, f, n)
  <2>1. ~IsNews(n, f)
    BY <1>9 DEF DropsLoad, IsAcked, IsNews, IsGet, IsPut
  <2> QED
    BY <1>7, <1>9, <2>1 DEF DropsLoad, IsAcked
<1>10. CASE TakesLoad(t, f, n)
  <2>1. ~IsNews(n, f) /\ IsGet(n, f)
    BY <1>10 DEF TakesLoad, IsNews, IsGet
  <2>2. LastGet(q, f, 1)
    <3>1. 1 \in Gets(q, f)
      BY <1>3, <2>1 DEF Gets
    <3>2. \A j \in Gets(q, f) : j = 1
      BY <1>4, <1>5, <1>10
    <3> QED
      BY <3>1, <3>2 DEF LastGet
  <2>3. \A v : v = n.val => Good(t, f, v)
    BY <1>3, <1>5, <1>10, <2>2 DEF Fresh, q
  <2>4. \A v : v = n.val => Good(t, f, v)'
    BY <1>6, <2>1, <2>3
  <2>5. list'[t][f] = "loaded" /\ value'[t][f] = n.val /\ listens'[t][f]
    <3>1. listens[t][f]
      BY <1>5, <1>10 DEF Fresh
    <3> QED
      BY <1>10, <3>1 DEF TakesLoad
  <2> QED
    BY <2>4, <2>5 DEF Fresh
<1>11. CASE Forgets(t, f, n)
  BY <1>11 DEF Forgets, Fresh
<1> QED
  BY <1>2, <1>8, <1>9, <1>10, <1>11

-----------------------------------------------------------------------------
LateInv == /\ Base
           /\ \A t \in Tab, f \in File : Ordered(t, f) /\ Counted(t, f)
           /\ \A t \in Tab, f \in File \ Late : Fresh(t, f)

LEMMA InitLateInv == CacheInit => LateInv
<1> SUFFICES ASSUME CacheInit PROVE LateInv
  OBVIOUS
<1>1. /\ Init /\ list = PerFile("null") /\ value = PerFile(0) /\ dropped = PerFile(0)
      /\ listens = PerFile(FALSE) /\ acked = PerFile(0)
  BY DEF CacheInit
<1>2. /\ \A t \in Tab : up[t] = <<>> /\ down[t] = <<>> /\ sess[t].pc = "idle"
      /\ writing = {} /\ last = 0 /\ current = First
      /\ files = [p \in Archive |-> [f \in File |-> 0]]
  BY <1>1 DEF Init, Idle
<1>3. \A f \in File : Stored(f) = 0
  BY <1>2, IdleOK DEF Stored
<1>4. /\ \A t \in Tab, f \in File : /\ list[t][f] = "null" /\ acked[t][f] = 0
                                    /\ dropped[t][f] = 0
      /\ Cached
  BY <1>1 DEF PerFile, Cached
<1>5. Base
  <2>1. IInv /\ Messages
    BY <1>1, InitIInv, InitSInv DEF SInv
  <2>2. OnlyCalls
    BY <1>2, <1>3 DEF OnlyCalls
  <2> QED
    BY <1>4, <2>1, <2>2 DEF Base
<1>6. ASSUME NEW t \in Tab, NEW f \in File
      PROVE  Ordered(t, f) /\ Counted(t, f) /\ (f \notin Late => Fresh(t, f))
  <2>1. /\ Gets(down[t], f) = {} /\ Puts(down[t], f) = {} /\ Asks(up[t], f) = {}
        /\ \A op : ~Serving(t, op, f)
    BY <1>2 DEF Gets, Puts, Asks, Serving
  <2>2. Ordered(t, f)
    BY <1>3, <1>4, <2>1 DEF Ordered, Seen, SavesFit, Ready, Shows
  <2>3. Counted(t, f)
    <3>1. /\ Cardinality(Gets(down[t], f)) = 0 /\ Cardinality(Asks(up[t], f)) = 0
          /\ One(Serving(t, "get", f)) = 0 /\ One(list[t][f] = "loading") = 0
      BY <1>4, <2>1, FS_EmptySet DEF One
    <3> QED
      BY <1>4, <3>1 DEF Counted, Under
  <2>4. Fresh(t, f)
    BY <1>4 DEF Fresh
  <2> QED
    BY <2>2, <2>3, <2>4
<1> QED
  BY <1>5, <1>6 DEF LateInv

\* A message to another tab.
LEMMA OthersReceive ==
  ASSUME Base, Base', NEW t \in Tab, NEW f \in File, NEW u \in Tab, u # t, Message(u)
  PROVE  /\ Ordered(t, f) => Ordered(t, f)'
         /\ Counted(t, f) => Counted(t, f)'
         /\ Fresh(t, f) => Fresh(t, f)'
<1>1. /\ UNCHANGED <<files, current, sess, up>> /\ down'[t] = down[t] /\ SameAt(t, f)
  BY MessageDoes, MessageCache
<1>2. /\ Stored(f)' = Stored(f) /\ Stored(f) \in Nat
      /\ list'[t][f] = list[t][f] /\ value'[t][f] = value[t][f]
      /\ dropped'[t][f] = dropped[t][f] /\ listens'[t][f] = listens[t][f]
      /\ \A op : Serving(t, op, f)' <=> Serving(t, op, f)
  BY <1>1, BaseTypes DEF Stored, SameAt, SameListAt, Serving
<1>3. Ordered(t, f) => Ordered(t, f)'
  BY <1>1, <1>2, OrderedStays DEF Ordered
<1>4. Counted(t, f) => Counted(t, f)'
  BY <1>1, <1>2 DEF Counted, Under, One
<1>5. \A v : Good(t, f, v)' <=> Good(t, f, v)
  BY <1>1, <1>2 DEF Good, Told
<1>6. ASSUME Fresh(t, f) PROVE Fresh(t, f)'
  <2>1. list[t][f] = "loaded" => Good(t, f, value[t][f])'
    BY <1>1, <1>2, <1>5, <1>6 DEF Fresh
  <2>2. list[t][f] = "loading" /\ Asks(up[t], f) = {} =>
          /\ Serving(t, "get", f) /\ sess[t].pc = "answer" => Good(t, f, sess[t].val)'
          /\ ~Serving(t, "get", f) =>
               \A i, v : LastGet(down[t], f, i) /\ v = down[t][i].val => Good(t, f, v)'
    BY <1>1, <1>2, <1>5, <1>6 DEF Fresh
  <2>3. list[t][f] # "null" => listens[t][f]
    BY <1>6 DEF Fresh
  <2> QED
    BY <1>1, <1>2, <2>1, <2>2, <2>3 DEF Fresh
<1> QED
  BY <1>3, <1>4, <1>6

LEMMA NextLateInv == LateInv /\ [CacheNext]_allVars => LateInv'
<1> SUFFICES ASSUME LateInv, [CacheNext]_allVars PROVE LateInv'
  OBVIOUS
<1>0. /\ Base /\ \A t \in Tab, f \in File : Ordered(t, f) /\ Counted(t, f)
      /\ \A t \in Tab, f \in File \ Late : Fresh(t, f)
  BY DEF LateInv
<1>1. ASSUME NEW u \in Tab, NEW g \in File, GetList(u, g) \/ SaveFile(u, g) PROVE LateInv'
  <2>1. Base'
    <3>1. Cached'
      BY <1>0, <1>1, ListDoes DEF SaveFile, cacheVars, Cached, Base
    <3>2. PICK c \in Calls : Ask(u, c)
      BY <1>1 DEF GetList, SaveFile, Calls
    <3> QED
      BY <1>0, <3>1, <3>2, AskBase
  <2> QED
    BY <1>0, <1>1, <2>1, OrderedAsks, CountedAsks, FreshAsks DEF LateInv
<1>2. ASSUME NEW u \in Tab, SessionStep(u), UNCHANGED cacheVars PROVE LateInv'
  <2>1. Base'
    BY <1>0, <1>2, StepBase
  <2> QED
    BY <1>0, <1>2, <2>1, OrderedWorks, CountedWorks, FreshWorks DEF LateInv
<1>3. ASSUME NEW u \in Tab, Message(u) PROVE LateInv'
  <2>1. Base'
    BY <1>0, <1>3, MessageBase
  <2>2. ASSUME NEW t \in Tab, NEW f \in File PROVE Ordered(t, f)' /\ Counted(t, f)'
    <3>1. CASE t = u
      BY <1>0, <1>3, <2>1, <3>1, OrderedReceives, CountedReceives
    <3>2. CASE t # u
      BY <1>0, <1>3, <2>1, <3>2, OthersReceive
    <3> QED
      BY <3>1, <3>2
  <2>3. ASSUME NEW t \in Tab, NEW f \in File \ Late PROVE Fresh(t, f)'
    <3>1. CASE t = u
      BY <1>0, <1>3, <3>1, FreshReceives
    <3>2. CASE t # u
      BY <1>0, <1>3, <2>1, <3>2, OthersReceive
    <3> QED
      BY <3>1, <3>2
  <2> QED
    BY <2>1, <2>2, <2>3 DEF LateInv
<1>4. CASE UNCHANGED allVars
  <2>1. UNCHANGED vars /\ UNCHANGED cacheVars
    BY <1>4 DEF allVars
  <2>2. UNCHANGED <<files, last, current, writing, config, saved, sess, created, up, down, known>>
    BY <2>1 DEF vars, server
  <2>3. UNCHANGED <<list, value, dropped, listens, acked>>
    BY <2>1 DEF cacheVars
  <2>4. Base'
    BY <1>0, <2>1, <2>2, <2>3, NextIInv DEF Base, Messages, Cached, OnlyCalls, Stored
  <2>5. ASSUME NEW t \in Tab, NEW f \in File
        PROVE  /\ Ordered(t, f)' /\ Counted(t, f)' /\ (f \notin Late => Fresh(t, f)')
    <3>1. Ordered(t, f)'
      BY <1>0, <2>2, <2>3 DEF Ordered, Seen, SavesFit, Ready, Gone, Shows, Serving, Stored
    <3>2. Counted(t, f)'
      BY <1>0, <2>2, <2>3 DEF Counted, Under, Serving
    <3>3. f \notin Late => Fresh(t, f)'
      BY <1>0, <2>2, <2>3 DEF Fresh, Good, Told, Serving, Stored
    <3> QED
      BY <3>1, <3>2, <3>3
  <2> QED
    BY <2>4, <2>5 DEF LateInv
<1> QED
  BY <1>1, <1>2, <1>3, <1>4 DEF CacheNext

\* A list of items or enemies that differs from its file is about to be dropped: the
\* tab still listens and the news is on its way, for any number of tabs and editors and
\* whatever order loads, saves and messages come in (global_item_list.ts:16).
THEOREM StaleListsAreTold == CacheSpec => []StaleIsTold
<1>1. LateInv => StaleIsTold
  <2> SUFFICES ASSUME LateInv, NEW t \in Tab, NEW f \in File \ Late,
                      list[t][f] = "loaded", value[t][f] # files[current][f]
               PROVE  listens[t][f] /\ Told(t, f)
    BY DEF StaleIsTold
  <2> QED
    BY DEF LateInv, Fresh, Good, Stored
<1> QED
  BY <1>1, InitLateInv, NextLateInv, PTL DEF CacheSpec

\* No list, a late one neither, is older than what its own tab saved and had answered
\* (interface.cpp:487, global_dialog_list.ts:12).
THEOREM OwnSavesAreRead == CacheSpec => []ReadYourSave
<1>1. LateInv => ReadYourSave
  BY DEF LateInv, ReadYourSave, Ordered, Seen, Shows
<1> QED
  BY <1>1, InitLateInv, NextLateInv, PTL DEF CacheSpec
=============================================================================
