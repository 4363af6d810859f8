-------------------------- MODULE MapEditor_proofs --------------------------
(***************************************************************************)
(* Proofs about the map editor.  Its tools (MapSectors): in every map of   *)
(* the history of changes every open side has an exit, no two sectors      *)
(* share a cell and every exit has one back, on a grid of any size, with   *)
(* any levels.  Its panel (MapApply): an Apply changes the sides its mode  *)
(* means and carries each edit to all of them, for any map, selection and  *)
(* edits.                                                                  *)
(***************************************************************************)
EXTENDS MapSectors, MapApply, TLAPS, WellFoundedInduction, SequenceTheorems

SectorRecord == [used : BOOLEAN, level : Int, x : Int, y : Int,
           exit : [Dir -> Nat], wall : [Dir -> BOOLEAN]]

\* maps with a sector behind every exit, with fences, and within the limit
Map == {s \in Seq(SectorRecord) :
          /\ \A n \in DOMAIN s, d \in Dir : s[n].exit[d] # 0 => s[n].exit[d] \in DOMAIN s
          /\ Len(s) < Limit
          /\ Fenced(s)}
UniqueMap == {s \in Map : Unique(s)}
LinkedMap == {s \in UniqueMap : Mutual(s)}
\* what an edit that makes r of s keeps
Keeps(s, r) == r \in Map /\ (s \in UniqueMap => r \in UniqueMap) /\ (s \in LinkedMap => r \in LinkedMap)
USE DEF Keeps

Typed ==
  /\ cur \in DOMAIN docs /\ selection \subseteq Nat
  /\ changes \in Nat /\ torn \in BOOLEAN /\ merged \in BOOLEAN
MapsInv ==
  /\ Typed
  /\ docs \in Seq(Map)
  /\ ~merged => docs \in Seq(UniqueMap)
  /\ ~merged /\ ~torn => docs \in Seq(LinkedMap)

-----------------------------------------------------------------------------
(***************************************************************************)
(* Numbers, and what is kept along the steps of a loop.                    *)
(***************************************************************************)
LEMMA NatLeast ==
  ASSUME NEW S, S \subseteq Nat, S # {}
  PROVE  \E m \in S : \A j \in S : m <= j
<1>1. PICK m \in S : \A j \in S : ~ (<<j, m>> \in OpToRel(<, Nat))
  BY NatLessThanWellFounded, WFMin
<1>2. ASSUME NEW j \in S  PROVE  m <= j
  <2>1. j \in Nat /\ m \in Nat  OBVIOUS
  <2>2. <<j, m>> \in Nat \X Nat /\ <<j, m>>[1] = j /\ <<j, m>>[2] = m  BY <2>1
  <2>3. ~ (j < m)  BY <1>1, <2>2 DEF OpToRel
  <2> QED  BY <2>1, <2>3
<1> QED  BY <1>2

\* what holds before a loop and after each of its steps holds behind it
LEMMA AlongLoop ==
  ASSUME NEW n \in Nat, NEW f, NEW P, f[0] \in P,
         \A k \in 1..n : f[k - 1] \in P => f[k] \in P
  PROVE  f[n] \in P
<1> DEFINE Bad == {k \in 0..n : f[k] \notin P}
<1>1. Bad = {}
  <2>1. SUFFICES ASSUME Bad # {} PROVE FALSE
    OBVIOUS
  <2>2. PICK m \in Bad : \A j \in Bad : m <= j
    <3>1. Bad \subseteq Nat  OBVIOUS
    <3> HIDE DEF Bad
    <3> QED  BY <2>1, <3>1, NatLeast
  <2>3. m \in 1..n /\ m - 1 \in 0..n /\ ~(m <= m - 1)  BY <2>2
  <2>4. f[m - 1] \in P  BY <2>2, <2>3
  <2> QED  BY <2>2, <2>3, <2>4
<1> QED  BY <1>1

\* a loop whose step stays in P has a run of n steps
LoopStep(P, n, step) == step \in [P \X (1..n) -> P]
LoopRun(P, s, n, step, f) ==
  f \in [0..n -> P] /\ f[0] = s /\ \A k \in 1..n : f[k] = step[<<f[k - 1], k>>]
LEMMA LoopExists ==
  ASSUME NEW P, NEW s \in P, NEW n \in Nat, NEW step, LoopStep(P, n, step)
  PROVE  \E f : LoopRun(P, s, n, step, f)
<1> USE DEF LoopStep
<1> DEFINE Is(f, m) == f \in [0..m -> P] /\ f[0] = s /\ \A k \in 1..m : f[k] = step[<<f[k - 1], k>>]
           Bad == {m \in 0..n : ~ \E f : Is(f, m)}
<1>1. Bad = {}
  <2>1. SUFFICES ASSUME Bad # {} PROVE FALSE
    OBVIOUS
  <2>2. PICK m \in Bad : \A j \in Bad : m <= j
    <3>1. Bad \subseteq Nat  OBVIOUS
    <3> HIDE DEF Bad
    <3> QED  BY <2>1, <3>1, NatLeast
  <2>3. m \in 0..n /\ ~ \E f : Is(f, m)  BY <2>2
  <2>4. m # 0
    <3>1. Is([k \in 0..0 |-> s], 0)  OBVIOUS
    <3> QED  BY <2>3, <3>1
  <2>5. m - 1 \in 0..n /\ m - 1 \notin Bad
    <3>1. m - 1 \in 0..n /\ ~(m <= m - 1)  BY <2>3, <2>4
    <3> HIDE DEF Bad
    <3> QED  BY <2>2, <3>1
  <2>6. PICK f : Is(f, m - 1)  BY <2>5
  <2> DEFINE g == [k \in 0..m |-> IF k = m THEN step[<<f[m - 1], m>>] ELSE f[k]]
  <2>7. f[m - 1] \in P /\ m \in 1..n  BY <2>3, <2>4, <2>6
  <2>8. step[<<f[m - 1], m>>] \in P  BY <2>7
  <2>9. g \in [0..m -> P] /\ g[0] = s
    <3>1. \A k \in 0..m : k # m => k \in 0..(m - 1)  BY <2>3
    <3>2. 0 \in 0..m  BY <2>3
    <3> QED  BY <2>4, <2>6, <2>8, <3>1, <3>2
  <2>10. ASSUME NEW k \in 1..m PROVE g[k] = step[<<g[k - 1], k>>]
    <3>1. k \in 0..m /\ k - 1 \in 0..m /\ k - 1 # m  BY <2>3
    <3>2. g[k - 1] = f[k - 1]  BY <3>1
    <3>3. CASE k = m  BY <3>1, <3>2, <3>3
    <3>4. CASE k # m
      <4>1. k \in 1..(m - 1)  BY <2>3, <3>4
      <4> QED  BY <2>6, <3>1, <3>2, <3>4, <4>1
    <3> QED  BY <3>3, <3>4
  <2> HIDE DEF g
  <2>11. Is(g, m)  BY <2>9, <2>10
  <2> QED  BY <2>3, <2>11
<1>2. n \in 0..n  OBVIOUS
<1>3. \E f : Is(f, n)  BY <1>1, <1>2
<1> QED  BY <1>3 DEF LoopRun

LEMMA LeastOf ==
  ASSUME NEW S, S \subseteq Nat, S # {}
  PROVE  Min(S) \in S /\ \A j \in S : Min(S) <= j
<1>1. PICK m \in S : \A j \in S : m <= j  BY NatLeast
<1> QED  BY <1>1 DEF Min

LEMMA GreatestOf ==
  ASSUME NEW n \in Nat, NEW S, S \subseteq 1..n, S # {}
  PROVE  Max(S) \in S /\ \A j \in S : j <= Max(S)
<1> DEFINE T == {n - j : j \in S}
<1>0. \A j \in S : j \in 1..n /\ n - j \in Nat  OBVIOUS
<1>1. T \subseteq Nat /\ T # {}  BY <1>0
<1>2. PICK k \in T : \A j \in T : k <= j
  <2> HIDE DEF T
  <2> QED  BY <1>1, NatLeast
<1>3. PICK m \in S : k = n - m  BY <1>2
<1>4. \A j \in S : j <= m
  <2>1. ASSUME NEW j \in S PROVE j <= m
    <3>1. n - j \in T  OBVIOUS
    <3>2. k <= n - j  BY <1>2, <3>1
    <3> QED  BY <1>0, <1>3, <3>2
  <2> QED  BY <2>1
<1> QED  BY <1>4 DEF Max

LEMMA DirFacts ==
  \A d \in Dir : /\ Rev(d) \in Dir /\ Rev(d) # d /\ Rev(Rev(d)) = d
                 /\ Step[d] \in Int \X Int
                 /\ Step[Rev(d)][1] = 0 - Step[d][1] /\ Step[Rev(d)][2] = 0 - Step[d][2]
                 /\ Step[d][1] # 0 \/ Step[d][2] # 0
<1>1. Step[0] = <<0, -1>> /\ Step[1] = <<1, 0>> /\ Step[2] = <<0, 1>> /\ Step[3] = <<-1, 0>>
  BY DEF Step, Dir
<1>3. /\ Step[0][1] = 0 /\ Step[0][2] = -1 /\ Step[1][1] = 1 /\ Step[1][2] = 0
      /\ Step[2][1] = 0 /\ Step[2][2] = 1 /\ Step[3][1] = -1 /\ Step[3][2] = 0
      /\ \A d \in Dir : Step[d] \in Int \X Int
  BY <1>1 DEF Dir
<1>2. ASSUME NEW d \in Dir
      PROVE  /\ Rev(d) \in Dir /\ Rev(d) # d /\ Rev(Rev(d)) = d
             /\ Step[d] \in Int \X Int
             /\ Step[Rev(d)][1] = 0 - Step[d][1] /\ Step[Rev(d)][2] = 0 - Step[d][2]
             /\ Step[d][1] # 0 \/ Step[d][2] # 0
  <2>1. d = 0 \/ d = 1 \/ d = 2 \/ d = 3  BY DEF Dir
  <2>2. Rev(0) = 2 /\ Rev(1) = 3 /\ Rev(2) = 0 /\ Rev(3) = 1  BY DEF Rev
  <2>3. CASE d = 0  BY <1>3, <2>2, <2>3 DEF Dir
  <2>4. CASE d = 1  BY <1>3, <2>2, <2>4 DEF Dir
  <2>5. CASE d = 2  BY <1>3, <2>2, <2>5 DEF Dir
  <2>6. CASE d = 3  BY <1>3, <2>2, <2>6 DEF Dir
  <2> QED  BY <2>1, <2>3, <2>4, <2>5, <2>6
<1> QED  BY <1>2
-----------------------------------------------------------------------------
(***************************************************************************)
(* What connectSectors and disconnectSectors change.                       *)
(***************************************************************************)
\* r is s but for the exits and walls
SamePlaces(s, r) ==
  /\ Len(r) = Len(s) /\ DOMAIN r = DOMAIN s
  /\ \A n \in DOMAIN s : /\ r[n].used = s[n].used /\ r[n].level = s[n].level
                         /\ r[n].x = s[n].x /\ r[n].y = s[n].y

ExitSet(s, r, n, d, v) ==
  /\ r \in Seq(SectorRecord) /\ SamePlaces(s, r)
  /\ \A m \in DOMAIN s : r[m].wall = s[m].wall
  /\ \A m \in DOMAIN s, e \in Dir : r[m].exit[e] = IF m = n /\ e = d THEN v ELSE s[m].exit[e]
WallSet(s, r, n, d, v) ==
  /\ r \in Seq(SectorRecord) /\ SamePlaces(s, r)
  /\ \A m \in DOMAIN s : r[m].exit = s[m].exit
  /\ \A m \in DOMAIN s, e \in Dir : r[m].wall[e] = IF m = n /\ e = d THEN v ELSE s[m].wall[e]

LEMMA SectorTypes ==
  ASSUME NEW s \in Seq(SectorRecord)
  PROVE  /\ Len(s) \in Nat /\ DOMAIN s = 1..Len(s)
         /\ \A n \in DOMAIN s : s[n] \in SectorRecord
OBVIOUS

\* the changes of one sector, by name
PutAt(s, n, e) == [s EXCEPT ![n] = e]
Walled(e) == [e EXCEPT !.wall = AllDirs(TRUE)]
WalledAt(s, n) == [s EXCEPT ![n].wall = AllDirs(TRUE)]
Literal(lvl, x, y, f, g) == [used |-> TRUE, level |-> lvl, x |-> x, y |-> y, exit |-> f, wall |-> g]

LEMMA PutAtFacts ==
  ASSUME NEW s \in Seq(SectorRecord), NEW n \in DOMAIN s, NEW e \in SectorRecord
  PROVE  PutAt(s, n, e) \in Seq(SectorRecord) /\ Len(PutAt(s, n, e)) = Len(s)
<1>1. n \in 1..Len(s)  BY SectorTypes
<1> QED  BY <1>1, ExceptSeq DEF PutAt

LEMMA SetExit ==
  ASSUME NEW s \in Seq(SectorRecord), NEW n \in DOMAIN s, NEW d \in Dir, NEW v \in Nat,
         NEW r, r = [s EXCEPT ![n].exit[d] = v]
  PROVE  ExitSet(s, r, n, d, v)
<1> DEFINE t == [s[n] EXCEPT !.exit[d] = v]
<1>1. s[n] \in SectorRecord  BY SectorTypes
<1>2. t \in SectorRecord  BY <1>1 DEF SectorRecord
<1>3. /\ t.used = s[n].used /\ t.level = s[n].level /\ t.x = s[n].x /\ t.y = s[n].y
      /\ t.wall = s[n].wall
  OBVIOUS
<1>4. ASSUME NEW e \in Dir PROVE t.exit[e] = IF e = d THEN v ELSE s[n].exit[e]
  BY <1>1 DEF SectorRecord
<1>5. r = [s EXCEPT ![n] = t]  OBVIOUS
<1> HIDE DEF t
<1>6. r \in Seq(SectorRecord) /\ Len(r) = Len(s) /\ DOMAIN r = DOMAIN s
  <2>1. n \in 1..Len(s)  BY SectorTypes
  <2>2. r \in Seq(SectorRecord) /\ Len(r) = Len(s)  BY <1>2, <1>5, <2>1, ExceptSeq
  <2> QED  BY <1>5, <2>2
<1>7. \A m \in DOMAIN s : r[m] = IF m = n THEN t ELSE s[m]  BY <1>5
<1>8. SamePlaces(s, r)  BY <1>3, <1>6, <1>7 DEF SamePlaces
<1>9. \A m \in DOMAIN s : r[m].wall = s[m].wall  BY <1>3, <1>7
<1>10. \A m \in DOMAIN s, e \in Dir : r[m].exit[e] = IF m = n /\ e = d THEN v ELSE s[m].exit[e]
  BY <1>4, <1>7
<1> QED  BY <1>6, <1>8, <1>9, <1>10 DEF ExitSet

LEMMA SetWall ==
  ASSUME NEW s \in Seq(SectorRecord), NEW n \in DOMAIN s, NEW d \in Dir, NEW v \in BOOLEAN,
         NEW r, r = [s EXCEPT ![n].wall[d] = v]
  PROVE  WallSet(s, r, n, d, v)
<1> DEFINE t == [s[n] EXCEPT !.wall[d] = v]
<1>1. s[n] \in SectorRecord  BY SectorTypes
<1>2. t \in SectorRecord  BY <1>1 DEF SectorRecord
<1>3. /\ t.used = s[n].used /\ t.level = s[n].level /\ t.x = s[n].x /\ t.y = s[n].y
      /\ t.exit = s[n].exit
  OBVIOUS
<1>4. ASSUME NEW e \in Dir PROVE t.wall[e] = IF e = d THEN v ELSE s[n].wall[e]
  BY <1>1 DEF SectorRecord
<1>5. r = [s EXCEPT ![n] = t]  OBVIOUS
<1> HIDE DEF t
<1>6. r \in Seq(SectorRecord) /\ Len(r) = Len(s) /\ DOMAIN r = DOMAIN s
  <2>1. n \in 1..Len(s)  BY SectorTypes
  <2>2. r \in Seq(SectorRecord) /\ Len(r) = Len(s)  BY <1>2, <1>5, <2>1, ExceptSeq
  <2> QED  BY <1>5, <2>2
<1>7. \A m \in DOMAIN s : r[m] = IF m = n THEN t ELSE s[m]  BY <1>5
<1>8. SamePlaces(s, r)  BY <1>3, <1>6, <1>7 DEF SamePlaces
<1>9. \A m \in DOMAIN s : r[m].exit = s[m].exit  BY <1>3, <1>7
<1>10. \A m \in DOMAIN s, e \in Dir : r[m].wall[e] = IF m = n /\ e = d THEN v ELSE s[m].wall[e]
  BY <1>4, <1>7
<1> QED  BY <1>6, <1>8, <1>9, <1>10 DEF WallSet

\* r is s with the side d of m and the opposite one of n given the exits a and b
\* and the wall v
BothSet(s, r, m, n, d, a, b, v) ==
  /\ r \in Seq(SectorRecord) /\ SamePlaces(s, r)
  /\ \A k \in DOMAIN s, e \in Dir :
       r[k].exit[e] = IF k = n /\ e = Rev(d) THEN b ELSE IF k = m /\ e = d THEN a ELSE s[k].exit[e]
  /\ \A k \in DOMAIN s, e \in Dir :
       r[k].wall[e] = IF (k = n /\ e = Rev(d)) \/ (k = m /\ e = d) THEN v ELSE s[k].wall[e]

LEMMA ConnectFacts ==
  ASSUME NEW s \in Seq(SectorRecord), NEW from \in DOMAIN s, NEW to \in DOMAIN s, NEW d \in Dir,
         NEW r, r = Connect(s, from, to, d)
  PROVE  BothSet(s, r, from, to, d, to, from, FALSE)
<1>1. from \in Nat /\ to \in Nat /\ Rev(d) \in Dir  BY SectorTypes, DirFacts
<1>2. PICK s1 : s1 = [s EXCEPT ![from].exit[d] = to]  OBVIOUS
<1>3. PICK s2 : s2 = [s1 EXCEPT ![to].exit[Rev(d)] = from]  OBVIOUS
<1>4. PICK s3 : s3 = [s2 EXCEPT ![from].wall[d] = FALSE]  OBVIOUS
<1>5. r = [s3 EXCEPT ![to].wall[Rev(d)] = FALSE]  BY <1>2, <1>3, <1>4 DEF Connect
<1>6. ExitSet(s, s1, from, d, to)  BY <1>1, <1>2, SetExit
<1>7. s1 \in Seq(SectorRecord) /\ DOMAIN s1 = DOMAIN s  BY <1>6 DEF ExitSet, SamePlaces
<1>8. ExitSet(s1, s2, to, Rev(d), from)  BY <1>1, <1>3, <1>7, SetExit
<1>9. s2 \in Seq(SectorRecord) /\ DOMAIN s2 = DOMAIN s  BY <1>7, <1>8 DEF ExitSet, SamePlaces
<1>10. WallSet(s2, s3, from, d, FALSE)  BY <1>4, <1>9, SetWall
<1>11. s3 \in Seq(SectorRecord) /\ DOMAIN s3 = DOMAIN s  BY <1>9, <1>10 DEF WallSet, SamePlaces
<1>12. WallSet(s3, r, to, Rev(d), FALSE)  BY <1>1, <1>5, <1>11, SetWall
<1>13. r \in Seq(SectorRecord) /\ SamePlaces(s, r)
  BY <1>6, <1>7, <1>8, <1>9, <1>10, <1>11, <1>12 DEF ExitSet, WallSet, SamePlaces
<1>14. ASSUME NEW k \in DOMAIN s, NEW e \in Dir
       PROVE  r[k].exit[e] = IF k = to /\ e = Rev(d) THEN from
                             ELSE IF k = from /\ e = d THEN to ELSE s[k].exit[e]
  BY <1>6, <1>7, <1>8, <1>9, <1>10, <1>11, <1>12 DEF ExitSet, WallSet
<1>15. ASSUME NEW k \in DOMAIN s, NEW e \in Dir
       PROVE  r[k].wall[e] = IF (k = to /\ e = Rev(d)) \/ (k = from /\ e = d) THEN FALSE
                             ELSE s[k].wall[e]
  <2>1. s2[k].wall = s[k].wall  BY <1>6, <1>7, <1>8 DEF ExitSet
  <2>2. s3[k].wall[e] = IF k = from /\ e = d THEN FALSE ELSE s[k].wall[e]
    BY <1>9, <1>10, <2>1 DEF WallSet
  <2>3. r[k].wall[e] = IF k = to /\ e = Rev(d) THEN FALSE ELSE s3[k].wall[e]
    BY <1>11, <1>12 DEF WallSet
  <2> QED  BY <2>2, <2>3, Zenon
<1> QED  BY <1>13, <1>14, <1>15 DEF BothSet

LEMMA DisconnectFacts ==
  ASSUME NEW s \in Seq(SectorRecord), NEW from \in DOMAIN s, NEW d \in Dir, NEW thin \in BOOLEAN,
         s[from].exit[d] # 0 => s[from].exit[d] \in DOMAIN s,
         NEW r, r = Disconnect(s, from, d, thin)
  PROVE  \/ ~Linked(s, from, d) /\ r = s
         \/ /\ Linked(s, from, d) /\ s[from].exit[d] \in DOMAIN s
            /\ BothSet(s, r, from, s[from].exit[d], d, IF thin THEN s[from].exit[d] ELSE 0,
                       IF thin THEN from ELSE 0, TRUE)
<1>1. CASE ~Linked(s, from, d)  BY <1>1 DEF Disconnect
<1>2. CASE Linked(s, from, d)
  <2>1. PICK t : t = s[from].exit[d]  OBVIOUS
  <2>2. t \in DOMAIN s /\ t \in Nat /\ s[t].exit[Rev(d)] = from /\ Rev(d) \in Dir
    BY <1>2, <2>1, SectorTypes, DirFacts DEF Linked
  <2>3. PICK s1 : s1 = [s EXCEPT ![from].wall[d] = TRUE]  OBVIOUS
  <2>4. PICK s2 : s2 = [s1 EXCEPT ![t].wall[Rev(d)] = TRUE]  OBVIOUS
  <2>4a. s2 = WallBetween(s, from, t, d)  BY <2>3, <2>4 DEF WallBetween
  <2>5. WallSet(s, s1, from, d, TRUE)  BY <2>3, SetWall
  <2>6. s1 \in Seq(SectorRecord) /\ DOMAIN s1 = DOMAIN s  BY <2>5 DEF WallSet, SamePlaces
  <2>7. WallSet(s1, s2, t, Rev(d), TRUE)  BY <2>2, <2>4, <2>6, SetWall
  <2>8. s2 \in Seq(SectorRecord) /\ DOMAIN s2 = DOMAIN s /\ SamePlaces(s, s2)
    BY <2>5, <2>6, <2>7 DEF WallSet, SamePlaces
  <2>9. \A k \in DOMAIN s : s2[k].exit = s[k].exit  BY <2>5, <2>6, <2>7 DEF WallSet
  <2>10. ASSUME NEW k \in DOMAIN s, NEW e \in Dir
         PROVE  s2[k].wall[e] = IF (k = t /\ e = Rev(d)) \/ (k = from /\ e = d) THEN TRUE
                                ELSE s[k].wall[e]
    <3>1. s1[k].wall[e] = IF k = from /\ e = d THEN TRUE ELSE s[k].wall[e]
      BY <2>5 DEF WallSet
    <3>2. s2[k].wall[e] = IF k = t /\ e = Rev(d) THEN TRUE ELSE s1[k].wall[e]
      BY <2>6, <2>7 DEF WallSet
    <3> QED  BY <3>1, <3>2, Zenon
  <2>11. CASE thin
    <3>1. r = s2  BY <1>2, <2>1, <2>4a, <2>11 DEF Disconnect
    <3>2. BothSet(s, s2, from, t, d, t, from, TRUE)
      BY <2>1, <2>2, <2>8, <2>9, <2>10 DEF BothSet
    <3> QED  BY <1>2, <2>1, <2>2, <2>11, <3>1, <3>2
  <2>12. CASE ~thin
    <3>1. PICK s3 : s3 = [s2 EXCEPT ![from].exit[d] = 0]  OBVIOUS
    <3>2. r = [s3 EXCEPT ![t].exit[Rev(d)] = 0]
      <4>1. r = NoWayBetween(s2, from, t, d)  BY <1>2, <2>1, <2>12, <2>4a DEF Disconnect
      <4> QED  BY <3>1, <4>1 DEF NoWayBetween
    <3>3. ExitSet(s2, s3, from, d, 0)  BY <2>8, <3>1, SetExit
    <3>4. s3 \in Seq(SectorRecord) /\ DOMAIN s3 = DOMAIN s  BY <2>8, <3>3 DEF ExitSet, SamePlaces
    <3>5. ExitSet(s3, r, t, Rev(d), 0)  BY <2>2, <3>2, <3>4, SetExit
    <3>6. r \in Seq(SectorRecord) /\ SamePlaces(s, r)
      BY <2>8, <3>3, <3>4, <3>5 DEF ExitSet, SamePlaces
    <3>7. \A k \in DOMAIN s : r[k].wall = s2[k].wall  BY <2>8, <3>3, <3>4, <3>5 DEF ExitSet
    <3>8. ASSUME NEW k \in DOMAIN s, NEW e \in Dir
          PROVE  r[k].exit[e] = IF k = t /\ e = Rev(d) THEN 0
                                ELSE IF k = from /\ e = d THEN 0 ELSE s[k].exit[e]
      BY <2>8, <2>9, <3>3, <3>4, <3>5 DEF ExitSet
    <3>9. ASSUME NEW k \in DOMAIN s, NEW e \in Dir
          PROVE  r[k].wall[e] = IF (k = t /\ e = Rev(d)) \/ (k = from /\ e = d) THEN TRUE
                                ELSE s[k].wall[e]
      BY <2>10, <3>7, Zenon
    <3>10. BothSet(s, r, from, t, d, 0, 0, TRUE)  BY <3>6, <3>8, <3>9 DEF BothSet
    <3> QED  BY <1>2, <2>1, <2>2, <2>12, <3>10
  <2> QED  BY <2>11, <2>12
<1> QED  BY <1>1, <1>2
-----------------------------------------------------------------------------
(***************************************************************************)
(* What they keep.                                                         *)
(***************************************************************************)
Spot(e) == <<e.x, e.y>>

LEMMA PlaceIsSpot ==
  ASSUME NEW e \in SectorRecord
  PROVE  Place(e, 0, 0) = Spot(e) /\ Spot(e) \in Int \X Int
BY DEF Place, Spot, SectorRecord

LEMMA BesideFacts ==
  ASSUME NEW p \in Int \X Int, NEW q \in Int \X Int, NEW d \in Dir
  PROVE  /\ Beside(p, d) \in Int \X Int /\ Beside(p, d) # p
         /\ q = Beside(p, d) <=> p = Beside(q, Rev(d))
<1>1. PICK a \in Int, b \in Int : p = <<a, b>>  OBVIOUS
<1>2. PICK a2 \in Int, b2 \in Int : q = <<a2, b2>>  OBVIOUS
<1>3. PICK u \in Int, v \in Int : Step[d] = <<u, v>>  BY DirFacts
<1>4. Step[Rev(d)][1] = 0 - u /\ Step[Rev(d)][2] = 0 - v /\ (u # 0 \/ v # 0)
  BY <1>3, DirFacts
<1>5. Beside(p, d) = <<a + u, b + v>> /\ Beside(q, Rev(d)) = <<a2 + (0 - u), b2 + (0 - v)>>
  BY <1>1, <1>2, <1>3, <1>4 DEF Beside
<1> QED  BY <1>1, <1>2, <1>4, <1>5

LEMMA MapTypes ==
  ASSUME NEW s \in Map
  PROVE  /\ s \in Seq(SectorRecord) /\ Len(s) \in Nat /\ DOMAIN s = 1..Len(s) /\ Len(s) < Limit
         /\ \A n \in DOMAIN s : s[n] \in SectorRecord
         /\ \A n \in DOMAIN s, d \in Dir : s[n].exit[d] # 0 => s[n].exit[d] \in DOMAIN s
         /\ Fenced(s)
BY SectorTypes DEF Map

\* two sectors of one level are one when their spots are
LEMMA UniqueSpots ==
  ASSUME NEW s \in Seq(SectorRecord)
  PROVE  Unique(s) <=> \A n, m \in DOMAIN s :
                         s[n].used /\ s[m].used /\ s[n].level = s[m].level
                           /\ Spot(s[n]) = Spot(s[m]) => n = m
BY SectorTypes, PlaceIsSpot DEF Unique

LEMMA MutualSpots ==
  ASSUME NEW s \in Map
  PROVE  Mutual(s) <=>
           \A n \in DOMAIN s, d \in Dir : s[n].exit[d] # 0 =>
             /\ s[n].used /\ s[s[n].exit[d]].used /\ s[s[n].exit[d]].exit[Rev(d)] = n
             /\ s[s[n].exit[d]].level = s[n].level
             /\ Spot(s[s[n].exit[d]]) = Beside(Spot(s[n]), d)
<1>1. \A n \in DOMAIN s : Place(s[n], 0, 0) = Spot(s[n])  BY MapTypes, PlaceIsSpot
<1>2. \A n \in DOMAIN s, d \in Dir : s[n].exit[d] # 0 => s[n].exit[d] \in DOMAIN s  BY MapTypes
<1> QED  BY <1>1, <1>2 DEF Mutual

LEMMA SpotsKept ==
  ASSUME NEW s \in Seq(SectorRecord), NEW r \in Seq(SectorRecord), SamePlaces(s, r)
  PROVE  /\ Unique(s) => Unique(r)
         /\ \A n \in DOMAIN s : Spot(r[n]) = Spot(s[n])
<1>1. \A n \in DOMAIN s : Spot(r[n]) = Spot(s[n])  BY DEF SamePlaces, Spot
<1>2. DOMAIN r = DOMAIN s  BY DEF SamePlaces
<1> QED  BY <1>1, <1>2, UniqueSpots DEF SamePlaces

LEMMA BothKeepsMap ==
  ASSUME NEW s \in Map, NEW m \in DOMAIN s, NEW n \in DOMAIN s, NEW d \in Dir, NEW v \in BOOLEAN,
         NEW a \in {0} \cup DOMAIN s, NEW b \in {0} \cup DOMAIN s, ~v => a # 0 /\ b # 0,
         NEW r, BothSet(s, r, m, n, d, a, b, v)
  PROVE  r \in Map /\ (s \in UniqueMap => r \in UniqueMap)
<1>1. r \in Seq(SectorRecord) /\ SamePlaces(s, r)  BY DEF BothSet
<1>2. ASSUME NEW k \in DOMAIN r, NEW e \in Dir
      PROVE  /\ r[k].exit[e] # 0 => r[k].exit[e] \in DOMAIN r
             /\ r[k].used /\ ~r[k].wall[e] => r[k].exit[e] # 0
  <2>1. k \in DOMAIN s /\ DOMAIN r = DOMAIN s /\ r[k].used = s[k].used
    BY <1>1, <1>2 DEF SamePlaces
  <2>2. /\ s[k].exit[e] # 0 => s[k].exit[e] \in DOMAIN s
        /\ s[k].used /\ ~s[k].wall[e] => s[k].exit[e] # 0
    BY <2>1, MapTypes DEF Fenced
  <2>3. r[k].exit[e] = IF k = n /\ e = Rev(d) THEN b ELSE IF k = m /\ e = d THEN a ELSE s[k].exit[e]
    BY <2>1 DEF BothSet
  <2>4. CASE (k = n /\ e = Rev(d)) \/ (k = m /\ e = d)
    <3>1. r[k].wall[e] = v  BY <2>1, <2>4, Zenon DEF BothSet
    <3>2. r[k].exit[e] = a \/ r[k].exit[e] = b  BY <2>3, <2>4
    <3> QED  BY <2>1, <3>1, <3>2
  <2>5. CASE ~((k = n /\ e = Rev(d)) \/ (k = m /\ e = d))
    <3>1. r[k].wall[e] = s[k].wall[e]  BY <2>1, <2>5, Zenon DEF BothSet
    <3>2. r[k].exit[e] = s[k].exit[e]  BY <2>3, <2>5
    <3> QED  BY <2>1, <2>2, <3>1, <3>2
  <2> QED  BY <2>4, <2>5
<1>3. Fenced(r)  BY <1>2 DEF Fenced
<1>4. Len(r) < Limit  BY <1>1, MapTypes DEF SamePlaces
<1>5. r \in Map  BY <1>1, <1>2, <1>3, <1>4 DEF Map
<1>6. Unique(s) => Unique(r)  BY <1>1, MapTypes, SpotsKept
<1> QED  BY <1>5, <1>6 DEF UniqueMap

\* connectSectors links neighbours
LEMMA ConnectKeeps ==
  ASSUME NEW s \in Map, NEW from \in DOMAIN s, NEW to \in DOMAIN s, NEW d \in Dir,
         s[from].used, s[to].used, s[to].level = s[from].level,
         Spot(s[to]) = Beside(Spot(s[from]), d),
         NEW r, r = Connect(s, from, to, d)
  PROVE  /\ Keeps(s, r)
         /\ SamePlaces(s, r)
<1>1. BothSet(s, r, from, to, d, to, from, FALSE)  BY MapTypes, ConnectFacts
<1>2. from # 0 /\ to # 0  BY MapTypes
<1>3. r \in Map /\ (s \in UniqueMap => r \in UniqueMap)  BY <1>1, <1>2, BothKeepsMap
<1>4. SamePlaces(s, r)  BY <1>1 DEF BothSet
<1>5. ASSUME s \in LinkedMap PROVE Mutual(r)
  <2>1. DOMAIN r = DOMAIN s /\ \A n \in DOMAIN s : Spot(r[n]) = Spot(s[n]) /\ Spot(s[n]) \in Int \X Int
    BY <1>3, <1>4, MapTypes, SpotsKept, PlaceIsSpot DEF SamePlaces
  <2>2. \A n, m \in DOMAIN s : s[n].used /\ s[m].used /\ s[n].level = s[m].level
                                 /\ Spot(s[n]) = Spot(s[m]) => n = m
    BY <1>5, MapTypes, UniqueSpots DEF LinkedMap, UniqueMap
  <2>3. \A n \in DOMAIN s, e \in Dir : s[n].exit[e] # 0 =>
          /\ s[n].exit[e] \in DOMAIN s
          /\ s[n].used /\ s[s[n].exit[e]].used /\ s[s[n].exit[e]].exit[Rev(e)] = n
          /\ s[s[n].exit[e]].level = s[n].level
          /\ Spot(s[s[n].exit[e]]) = Beside(Spot(s[n]), e)
    BY <1>5, MapTypes, MutualSpots DEF LinkedMap
  <2>4. Rev(d) \in Dir /\ Rev(Rev(d)) = d /\ Rev(d) # d /\ Spot(s[from]) = Beside(Spot(s[to]), Rev(d))
    BY <2>1, DirFacts, BesideFacts
  <2>5. from # to  BY <2>1, BesideFacts
  <2>6. ASSUME NEW k \in DOMAIN s, NEW e \in Dir, r[k].exit[e] # 0
        PROVE  /\ r[k].used /\ r[r[k].exit[e]].used /\ r[r[k].exit[e]].exit[Rev(e)] = k
               /\ r[r[k].exit[e]].level = r[k].level
               /\ Spot(r[r[k].exit[e]]) = Beside(Spot(r[k]), e)
    <3>1. \A j \in DOMAIN s, f \in Dir :
            r[j].exit[f] = IF j = to /\ f = Rev(d) THEN from
                           ELSE IF j = from /\ f = d THEN to ELSE s[j].exit[f]
      BY <1>1 DEF BothSet
    <3>2. \A j \in DOMAIN s : r[j].used = s[j].used /\ r[j].level = s[j].level
      BY <1>4 DEF SamePlaces
    <3>3. CASE k = to /\ e = Rev(d)
      <4>1. r[k].exit[e] = from /\ r[from].exit[Rev(e)] = to  BY <2>4, <2>5, <3>1, <3>3
      <4>2. r[from].used /\ r[to].used /\ r[from].level = r[to].level  BY <3>2
      <4>3. Spot(r[from]) = Beside(Spot(r[to]), Rev(d))  BY <2>1, <2>4
      <4> QED  BY <3>3, <4>1, <4>2, <4>3
    <3>4. CASE k = from /\ e = d
      <4>1. r[k].exit[e] = to /\ r[to].exit[Rev(e)] = from  BY <2>4, <2>5, <3>1, <3>4
      <4>2. r[to].used /\ r[from].used /\ r[to].level = r[from].level  BY <3>2
      <4>3. Spot(r[to]) = Beside(Spot(r[from]), d)  BY <2>1, <2>4
      <4> QED  BY <3>4, <4>1, <4>2, <4>3
    <3>5. CASE ~(k = to /\ e = Rev(d)) /\ ~(k = from /\ e = d)
      <4>1. PICK t : t = s[k].exit[e]  OBVIOUS
      <4>2. r[k].exit[e] = t /\ t # 0  BY <2>6, <3>1, <3>5, <4>1
      <4>3. /\ t \in DOMAIN s /\ s[k].used /\ s[t].used /\ s[t].exit[Rev(e)] = k
            /\ s[t].level = s[k].level /\ Spot(s[t]) = Beside(Spot(s[k]), e)
        BY <2>3, <4>1, <4>2
      <4>4. Rev(e) \in Dir /\ Rev(Rev(e)) = e /\ Spot(s[k]) = Beside(Spot(s[t]), Rev(e))
        BY <2>1, <4>3, DirFacts, BesideFacts
      <4>5. ~(t = to /\ Rev(e) = Rev(d))
        <5>1. SUFFICES ASSUME t = to, Rev(e) = Rev(d) PROVE FALSE  OBVIOUS
        <5>2. e = d /\ Spot(s[k]) = Spot(s[from])  BY <2>4, <4>4, <5>1
        <5>3. k = from  BY <2>2, <4>3, <5>1, <5>2
        <5> QED  BY <3>5, <5>2, <5>3
      <4>6. ~(t = from /\ Rev(e) = d)
        <5>1. SUFFICES ASSUME t = from, Rev(e) = d PROVE FALSE  OBVIOUS
        <5>2. e = Rev(d) /\ Spot(s[k]) = Spot(s[to])  BY <4>4, <5>1
        <5>3. k = to  BY <2>2, <4>3, <5>1, <5>2
        <5> QED  BY <3>5, <5>2, <5>3
      <4>7. r[t].exit[Rev(e)] = k  BY <3>1, <4>3, <4>4, <4>5, <4>6
      <4> QED  BY <2>1, <3>2, <4>2, <4>3, <4>7
    <3> QED  BY <3>3, <3>4, <3>5
  <2> QED  BY <1>3, <2>1, <2>6, MutualSpots
<1> QED  BY <1>3, <1>4, <1>5 DEF LinkedMap

\* disconnectSectors ends a link on both sides, or makes it a wall
LEMMA DisconnectKeeps ==
  ASSUME NEW s \in Map, NEW from \in DOMAIN s, NEW d \in Dir, NEW thin \in BOOLEAN,
         NEW r, r = Disconnect(s, from, d, thin)
  PROVE  /\ Keeps(s, r)
         /\ SamePlaces(s, r)
         /\ s \in LinkedMap /\ ~thin => r[from].exit[d] = 0
         /\ \A e \in Dir : s[from].exit[e] = 0 => r[from].exit[e] = 0
<1>1. s[from].exit[d] # 0 => s[from].exit[d] \in DOMAIN s  BY MapTypes
<1>2. \/ ~Linked(s, from, d) /\ r = s
      \/ /\ Linked(s, from, d) /\ s[from].exit[d] \in DOMAIN s
         /\ BothSet(s, r, from, s[from].exit[d], d, IF thin THEN s[from].exit[d] ELSE 0,
                    IF thin THEN from ELSE 0, TRUE)
  BY <1>1, MapTypes, DisconnectFacts
<1>3. s \in LinkedMap /\ s[from].exit[d] # 0 => Linked(s, from, d)
  BY MutualSpots, MapTypes DEF LinkedMap, UniqueMap, Linked
<1>4. CASE r = s /\ ~Linked(s, from, d)
  BY <1>3, <1>4 DEF SamePlaces
<1>5. CASE Linked(s, from, d) /\ s[from].exit[d] \in DOMAIN s
           /\ BothSet(s, r, from, s[from].exit[d], d, IF thin THEN s[from].exit[d] ELSE 0,
                      IF thin THEN from ELSE 0, TRUE)
  <2>1. PICK t \in DOMAIN s : t = s[from].exit[d]  BY <1>5
  <2>2. PICK a, b : a = (IF thin THEN t ELSE 0) /\ b = (IF thin THEN from ELSE 0)  OBVIOUS
  <2>3. BothSet(s, r, from, t, d, a, b, TRUE)  BY <1>5, <2>1, <2>2
  <2>4. a \in {0} \cup DOMAIN s /\ b \in {0} \cup DOMAIN s  BY <2>2
  <2>5. r \in Map /\ (s \in UniqueMap => r \in UniqueMap)  BY <2>3, <2>4, BothKeepsMap
  <2>6. SamePlaces(s, r)  BY <2>3 DEF BothSet
  <2>7. s[t].exit[Rev(d)] = from /\ Rev(d) \in Dir /\ Rev(Rev(d)) = d /\ Rev(d) # d
    BY <1>5, <2>1, DirFacts DEF Linked
  <2>8. \A j \in DOMAIN s, f \in Dir :
          r[j].exit[f] = IF j = t /\ f = Rev(d) THEN b
                         ELSE IF j = from /\ f = d THEN a ELSE s[j].exit[f]
    BY <2>3 DEF BothSet
  <2>9. ~thin => r[from].exit[d] = 0  BY <2>2, <2>7, <2>8
  <2>10. \A e \in Dir : s[from].exit[e] = 0 => r[from].exit[e] = 0
    <3>1. t # 0 /\ from # 0  BY MapTypes
    <3> QED  BY <2>1, <2>2, <2>7, <2>8, <3>1
  <2>11. ASSUME s \in LinkedMap PROVE Mutual(r)
    <3>1. DOMAIN r = DOMAIN s /\ \A n \in DOMAIN s : Spot(r[n]) = Spot(s[n])
      BY <2>5, <2>6, MapTypes, SpotsKept DEF SamePlaces
    <3>2. \A n \in DOMAIN s, e \in Dir : s[n].exit[e] # 0 =>
            /\ s[n].exit[e] \in DOMAIN s
            /\ s[n].used /\ s[s[n].exit[e]].used /\ s[s[n].exit[e]].exit[Rev(e)] = n
            /\ s[s[n].exit[e]].level = s[n].level
            /\ Spot(s[s[n].exit[e]]) = Beside(Spot(s[n]), e)
      BY <2>11, MapTypes, MutualSpots DEF LinkedMap, UniqueMap
    <3>3. \A j \in DOMAIN s : r[j].used = s[j].used /\ r[j].level = s[j].level
      BY <2>6 DEF SamePlaces
    <3>4. ASSUME NEW k \in DOMAIN s, NEW e \in Dir, r[k].exit[e] # 0
          PROVE  /\ r[k].used /\ r[r[k].exit[e]].used /\ r[r[k].exit[e]].exit[Rev(e)] = k
                 /\ r[r[k].exit[e]].level = r[k].level
                 /\ Spot(r[r[k].exit[e]]) = Beside(Spot(r[k]), e)
      <4>1. PICK u : u = s[k].exit[e]  OBVIOUS
      <4>2. r[k].exit[e] = u
        BY <2>1, <2>2, <2>7, <2>8, <3>4, <4>1
      <4>3. /\ u \in DOMAIN s /\ s[k].used /\ s[u].used /\ s[u].exit[Rev(e)] = k
            /\ s[u].level = s[k].level /\ Spot(s[u]) = Beside(Spot(s[k]), e)
        BY <3>2, <3>4, <4>1, <4>2
      <4>4. Rev(e) \in Dir /\ Rev(Rev(e)) = e  BY DirFacts
      <4>5. r[u].exit[Rev(e)] = k
        <5>1. CASE u = t /\ Rev(e) = Rev(d)
          <6>1. e = d /\ k = from  BY <2>7, <4>3, <4>4, <5>1
          <6>2. b = from  BY <2>2, <2>7, <2>8, <3>4, <6>1
          <6> QED  BY <2>7, <2>8, <5>1, <6>1, <6>2
        <5>2. CASE u = from /\ Rev(e) = d
          <6>1. e = Rev(d) /\ k = t  BY <2>1, <4>3, <4>4, <5>2
          <6>2. a = t  BY <2>2, <2>7, <2>8, <3>4, <6>1
          <6> QED  BY <2>7, <2>8, <5>2, <6>1, <6>2
        <5>3. CASE ~(u = t /\ Rev(e) = Rev(d)) /\ ~(u = from /\ Rev(e) = d)
          BY <2>8, <4>3, <4>4, <5>3
        <5> QED  BY <5>1, <5>2, <5>3
      <4>6. Spot(r[u]) = Beside(Spot(r[k]), e)  BY <3>1, <4>3
      <4> QED  BY <3>3, <4>2, <4>3, <4>5, <4>6
    <3> QED  BY <2>5, <3>1, <3>4, MutualSpots
  <2> QED  BY <2>5, <2>6, <2>9, <2>10, <2>11 DEF LinkedMap
<1> QED  BY <1>2, <1>4, <1>5
-----------------------------------------------------------------------------
(***************************************************************************)
(* drawRect.                                                               *)
(***************************************************************************)
LEMMA AtFacts ==
  ASSUME NEW s \in Seq(SectorRecord), NEW lvl, NEW p
  PROVE  /\ At(s, lvl, p) # 0 => /\ At(s, lvl, p) \in DOMAIN s /\ s[At(s, lvl, p)].used
                                 /\ s[At(s, lvl, p)].level = lvl /\ Spot(s[At(s, lvl, p)]) = p
         /\ At(s, lvl, p) = 0 => \A n \in DOMAIN s :
                                   ~(s[n].used /\ s[n].level = lvl /\ Spot(s[n]) = p)
<1>1. Len(s) \in Nat /\ DOMAIN s = 1..Len(s)  BY SectorTypes
<1>2. On(s, lvl, p) = {n \in DOMAIN s : s[n].used /\ s[n].level = lvl /\ Spot(s[n]) = p}
  BY DEF On, Spot
<1>3. CASE On(s, lvl, p) = {}
  BY <1>2, <1>3 DEF At
<1>4. CASE On(s, lvl, p) # {}
  <2>1. On(s, lvl, p) \subseteq 1..Len(s)  BY <1>1, <1>2
  <2>2. Max(On(s, lvl, p)) \in On(s, lvl, p)  BY <1>1, <1>4, <2>1, GreatestOf
  <2>3. At(s, lvl, p) = Max(On(s, lvl, p))  BY <1>4 DEF At
  <2> QED  BY <1>1, <1>2, <2>2, <2>3
<1> QED  BY <1>3, <1>4

\* a sector is linked to the one beside it
LEMMA ConnectToKeeps ==
  ASSUME NEW s \in Map, NEW n \in DOMAIN s, NEW d \in Dir, NEW lvl, NEW p,
         s[n].used, s[n].level = lvl, Spot(s[n]) = p,
         NEW r, r = ConnectTo(s, n, lvl, p, d)
  PROVE  /\ Keeps(s, r)
         /\ n \in DOMAIN r /\ r[n].used /\ r[n].level = lvl /\ Spot(r[n]) = p
<1>1. PICK t : t = At(s, lvl, Beside(p, d))  OBVIOUS
<1>2. CASE t = 0
  BY <1>1, <1>2 DEF ConnectTo
<1>3. CASE t # 0
  <2>1. /\ t \in DOMAIN s /\ s[t].used /\ s[t].level = lvl /\ Spot(s[t]) = Beside(p, d)
    BY <1>1, <1>3, AtFacts, MapTypes
  <2>2. r = Connect(s, n, t, d)  BY <1>1, <1>3 DEF ConnectTo
  <2>3. /\ Keeps(s, r)
        /\ SamePlaces(s, r)
    BY <2>1, <2>2, ConnectKeeps
  <2>4. Spot(r[n]) = Spot(s[n])  BY <2>3, MapTypes, SpotsKept
  <2> QED  BY <2>3, <2>4 DEF SamePlaces
<1> QED  BY <1>2, <1>3

LinkAround(w, n, lvl, p) ==
  LET to(m, d) == ConnectTo(m, n, lvl, p, d) IN to(to(to(to(w, 0), 1), 2), 3)
LEMMA AroundKeeps ==
  ASSUME NEW w \in Map, NEW n \in DOMAIN w, NEW lvl, NEW p, w[n].used, w[n].level = lvl, Spot(w[n]) = p,
         NEW r, r = LinkAround(w, n, lvl, p)
  PROVE  Keeps(w, r)
<1>1. PICK r0 : r0 = ConnectTo(w, n, lvl, p, 0)  OBVIOUS
<1>2. PICK r1 : r1 = ConnectTo(r0, n, lvl, p, 1)  OBVIOUS
<1>3. PICK r2 : r2 = ConnectTo(r1, n, lvl, p, 2)  OBVIOUS
<1>4. r = ConnectTo(r2, n, lvl, p, 3)  BY <1>1, <1>2, <1>3 DEF LinkAround
<1>5. 0 \in Dir /\ 1 \in Dir /\ 2 \in Dir /\ 3 \in Dir  BY DEF Dir
<1>6. /\ Keeps(w, r0)
      /\ n \in DOMAIN r0 /\ r0[n].used /\ r0[n].level = lvl /\ Spot(r0[n]) = p
  BY <1>1, <1>5, ConnectToKeeps
<1>7. /\ Keeps(r0, r1)
      /\ n \in DOMAIN r1 /\ r1[n].used /\ r1[n].level = lvl /\ Spot(r1[n]) = p
  BY <1>2, <1>5, <1>6, ConnectToKeeps
<1>8. /\ Keeps(r1, r2)
      /\ n \in DOMAIN r2 /\ r2[n].used /\ r2[n].level = lvl /\ Spot(r2[n]) = p
  BY <1>3, <1>5, <1>7, ConnectToKeeps
<1>9. Keeps(r2, r)
  BY <1>4, <1>5, <1>8, ConnectToKeeps
<1> QED  BY <1>6, <1>7, <1>8, <1>9

\* a sector that is there gets its walls back
LEMMA WallsUp ==
  ASSUME NEW s \in Map, NEW n \in DOMAIN s, NEW w, w = WalledAt(s, n)
  PROVE  /\ Keeps(s, w)
         /\ SamePlaces(s, w)
<1> DEFINE e == [s[n] EXCEPT !.wall = AllDirs(TRUE)]
<1>1. s \in Seq(SectorRecord) /\ s[n] \in SectorRecord /\ n \in 1..Len(s)  BY MapTypes
<1>2. AllDirs(TRUE) \in [Dir -> BOOLEAN] /\ \A d \in Dir : AllDirs(TRUE)[d] = TRUE  BY DEF AllDirs
<1>3. e \in SectorRecord  BY <1>1, <1>2 DEF SectorRecord
<1>4. /\ e.used = s[n].used /\ e.level = s[n].level /\ e.x = s[n].x /\ e.y = s[n].y
      /\ e.exit = s[n].exit /\ e.wall = AllDirs(TRUE)
  BY <1>1 DEF SectorRecord
<1>5. w = [s EXCEPT ![n] = e]  BY DEF WalledAt
<1> HIDE DEF e
<1>6. w \in Seq(SectorRecord) /\ Len(w) = Len(s) /\ DOMAIN w = DOMAIN s
      /\ \A m \in DOMAIN s : w[m] = IF m = n THEN e ELSE s[m]
  <2>1. [s EXCEPT ![n] = e] \in Seq(SectorRecord) /\ Len([s EXCEPT ![n] = e]) = Len(s)
    BY <1>1, <1>3, ExceptSeq, Zenon
  <2> QED  BY <1>5, <2>1
<1>7. SamePlaces(s, w) /\ \A m \in DOMAIN s : w[m].exit = s[m].exit
  BY <1>4, <1>6 DEF SamePlaces
<1>8. Fenced(w)
  <2>1. ASSUME NEW m \in DOMAIN s, NEW d \in Dir, w[m].used, ~w[m].wall[d]
        PROVE  w[m].exit[d] # 0
    <3>1. m # n /\ w[m] = s[m]
      <4>1. CASE m = n
        <5>1. w[m].wall = AllDirs(TRUE)  BY <1>4, <1>6, <4>1
        <5> QED  BY <1>2, <2>1, <5>1
      <4> QED  BY <1>6, <4>1
    <3> QED  BY <2>1, <3>1, MapTypes DEF Fenced
  <2> QED  BY <1>6, <2>1 DEF Fenced
<1>9. w \in Map
  <2>1. \A m \in DOMAIN w, d \in Dir : w[m].exit[d] # 0 => w[m].exit[d] \in DOMAIN w
    BY <1>6, <1>7, MapTypes
  <2> QED  BY <1>6, <1>8, <2>1, MapTypes DEF Map
<1>10. Unique(s) => Unique(w)  BY <1>1, <1>6, <1>7, SpotsKept
<1>11. Mutual(s) => Mutual(w)
  <2>1. \A m \in DOMAIN s : Spot(w[m]) = Spot(s[m])  BY <1>1, <1>6, <1>7, SpotsKept
  <2>2. \A m \in DOMAIN s, d \in Dir : s[m].exit[d] # 0 => s[m].exit[d] \in DOMAIN s  BY MapTypes
  <2>3. SUFFICES ASSUME Mutual(s), NEW m \in DOMAIN s, NEW d \in Dir, w[m].exit[d] # 0
                 PROVE  /\ w[m].used /\ w[w[m].exit[d]].used /\ w[w[m].exit[d]].exit[Rev(d)] = m
                        /\ w[w[m].exit[d]].level = w[m].level
                        /\ Spot(w[w[m].exit[d]]) = Beside(Spot(w[m]), d)
    BY <1>6, <1>9, MutualSpots
  <2>4. PICK t : t = s[m].exit[d]  OBVIOUS
  <2>5. w[m].exit[d] = t /\ t \in DOMAIN s  BY <1>7, <2>2, <2>3, <2>4
  <2>6. /\ s[m].used /\ s[t].used /\ s[t].exit[Rev(d)] = m /\ s[t].level = s[m].level
        /\ Spot(s[t]) = Beside(Spot(s[m]), d)
    BY <2>3, <2>4, <2>5, MutualSpots
  <2> QED  BY <1>7, <2>1, <2>5, <2>6 DEF SamePlaces
<1> QED  BY <1>7, <1>9, <1>10, <1>11 DEF UniqueMap, LinkedMap

\* a sector that is new where there was none
LEMMA FreshKeeps ==
  ASSUME NEW s \in Map, NEW n, n \in DOMAIN s => ~s[n].used, NEW lvl, NEW p,
         At(s, lvl, p) = 0,
         NEW w \in Seq(SectorRecord), DOMAIN w = DOMAIN s \cup {n}, Len(w) < Limit,
         \A m \in DOMAIN s : m # n => w[m] = s[m],
         w[n].used, w[n].level = lvl, Spot(w[n]) = p,
         \A d \in Dir : w[n].exit[d] = 0 /\ w[n].wall[d]
  PROVE  Keeps(s, w)
<1>1. \A m \in DOMAIN w : m # n => m \in DOMAIN s /\ w[m] = s[m]  OBVIOUS
<1>2. \A m \in DOMAIN w, d \in Dir : w[m].exit[d] # 0 => w[m].exit[d] \in DOMAIN w
  BY <1>1, MapTypes
<1>3. Fenced(w)
  <2>1. ASSUME NEW m \in DOMAIN w, NEW d \in Dir, w[m].used, ~w[m].wall[d]
        PROVE  w[m].exit[d] # 0
    <3>1. m # n  BY <2>1
    <3> QED  BY <1>1, <2>1, <3>1, MapTypes DEF Fenced
  <2> QED  BY <2>1 DEF Fenced
<1>4. w \in Map  BY <1>2, <1>3 DEF Map
<1>5. \A m \in DOMAIN s : ~(s[m].used /\ s[m].level = lvl /\ Spot(s[m]) = p)  BY AtFacts, MapTypes
<1>6. ASSUME Unique(s) PROVE Unique(w)
  <2>1. \A i, m \in DOMAIN s : s[i].used /\ s[m].used /\ s[i].level = s[m].level
                                 /\ Spot(s[i]) = Spot(s[m]) => i = m
    BY <1>6, MapTypes, UniqueSpots
  <2>2. ASSUME NEW i \in DOMAIN w, NEW m \in DOMAIN w, w[i].used, w[m].used,
               w[i].level = w[m].level, Spot(w[i]) = Spot(w[m])
        PROVE  i = m
    <3>1. CASE i = n /\ m # n  BY <1>1, <1>5, <2>2, <3>1
    <3>2. CASE i # n /\ m = n  BY <1>1, <1>5, <2>2, <3>2
    <3>3. CASE i # n /\ m # n  BY <1>1, <2>1, <2>2, <3>3
    <3> QED  BY <3>1, <3>2, <3>3
  <2> QED  BY <2>2, UniqueSpots
<1>7. ASSUME Mutual(s) PROVE Mutual(w)
  <2>1. \A m \in DOMAIN s, d \in Dir : s[m].exit[d] # 0 =>
          /\ s[m].exit[d] \in DOMAIN s /\ s[m].used /\ s[s[m].exit[d]].used
          /\ s[s[m].exit[d]].exit[Rev(d)] = m /\ s[s[m].exit[d]].level = s[m].level
          /\ Spot(s[s[m].exit[d]]) = Beside(Spot(s[m]), d)
    BY <1>7, MapTypes, MutualSpots
  <2>2. ASSUME NEW m \in DOMAIN w, NEW d \in Dir, w[m].exit[d] # 0
        PROVE  /\ w[m].used /\ w[w[m].exit[d]].used /\ w[w[m].exit[d]].exit[Rev(d)] = m
               /\ w[w[m].exit[d]].level = w[m].level
               /\ Spot(w[w[m].exit[d]]) = Beside(Spot(w[m]), d)
    <3>1. m # n /\ m \in DOMAIN s /\ w[m] = s[m]  BY <1>1, <2>2
    <3>2. s[m].exit[d] \in DOMAIN s /\ s[m].exit[d] # n  BY <2>1, <2>2, <3>1
    <3>3. w[s[m].exit[d]] = s[s[m].exit[d]]  BY <3>2
    <3> QED  BY <2>1, <2>2, <3>1, <3>3
  <2> QED  BY <1>4, <2>2, MutualSpots
<1> QED  BY <1>4, <1>6, <1>7 DEF UniqueMap, LinkedMap

LEMMA NewSector ==
  ASSUME NEW lvl \in Int, NEW x \in Int, NEW y \in Int,
         NEW f \in [Dir -> Nat], NEW g \in [Dir -> BOOLEAN], NEW e, e = Literal(lvl, x, y, f, g)
  PROVE  e \in SectorRecord /\ e.used /\ e.level = lvl /\ e.x = x /\ e.y = y /\ e.exit = f /\ e.wall = g
BY DEF SectorRecord, Literal

LEMMA WalledSector ==
  ASSUME NEW e \in SectorRecord, NEW w, w = Walled(e)
  PROVE  /\ w \in SectorRecord /\ w.used = e.used /\ w.level = e.level /\ w.x = e.x /\ w.y = e.y
         /\ w.exit = e.exit /\ w.wall = AllDirs(TRUE)
<1>1. PICK g \in [Dir -> BOOLEAN] : g = AllDirs(TRUE)
  <2>1. AllDirs(TRUE) \in [Dir -> BOOLEAN]  BY DEF AllDirs
  <2> QED  BY <2>1
<1>2. w = [e EXCEPT !.wall = g]  BY <1>1 DEF Walled
<1>3. /\ w \in SectorRecord /\ w.used = e.used /\ w.level = e.level /\ w.x = e.x /\ w.y = e.y
      /\ w.exit = e.exit /\ w.wall = g
  BY <1>2 DEF SectorRecord
<1> QED  BY <1>1, <1>3

LEMMA NewAtFacts ==
  ASSUME NEW lvl \in Int, NEW p \in Int \X Int, NEW w, w = Walled(NewAt(lvl, p))
  PROVE  /\ NewAt(lvl, p) \in SectorRecord /\ w \in SectorRecord /\ w.used /\ w.level = lvl /\ Spot(w) = p
         /\ \A d \in Dir : w.exit[d] = 0 /\ w.wall[d]
<1>1. p[1] \in Int /\ p[2] \in Int /\ p = <<p[1], p[2]>>  OBVIOUS
<1>2. PICK e : e = NewAt(lvl, p)  OBVIOUS
<1>3. PICK f \in [Dir -> Nat] : f = AllDirs(0)
  <2>1. AllDirs(0) \in [Dir -> Nat]  BY DEF AllDirs
  <2> QED  BY <2>1
<1>4. PICK g \in [Dir -> BOOLEAN] : g = AllDirs(FALSE)
  <2>1. AllDirs(FALSE) \in [Dir -> BOOLEAN]  BY DEF AllDirs
  <2> QED  BY <2>1
<1>5. \A d \in Dir : f[d] = 0 /\ AllDirs(TRUE)[d]  BY <1>3 DEF AllDirs
<1>6. e = Literal(lvl, p[1], p[2], f, g)
  BY <1>2, <1>3, <1>4 DEF NewAt, Blank, Literal
<1>8. /\ e \in SectorRecord /\ e.used /\ e.level = lvl /\ e.x = p[1] /\ e.y = p[2] /\ e.exit = f
  BY <1>1, <1>6, NewSector
<1>9. w = Walled(e)  BY <1>2
<1>10. /\ w \in SectorRecord /\ w.used = e.used /\ w.level = e.level /\ w.x = e.x /\ w.y = e.y
       /\ w.exit = e.exit /\ w.wall = AllDirs(TRUE)
  BY <1>8, <1>9, WalledSector
<1>11. w.used  BY <1>8, <1>10
<1>12. Spot(w) = p  BY <1>1, <1>8, <1>10 DEF Spot
<1>13. \A d \in Dir : w.exit[d] = 0 /\ w.wall[d]  BY <1>5, <1>8, <1>10
<1> QED  BY <1>2, <1>8, <1>10, <1>11, <1>12, <1>13

LEMMA AppendWalled ==
  ASSUME NEW s \in Seq(SectorRecord), NEW e \in SectorRecord, NEW n, n = Len(s) + 1, Walled(e) \in SectorRecord
  PROVE  Append(s, Walled(e)) = WalledAt(Append(s, e), n)
<1>1. PICK v \in SectorRecord : v = Walled(e)  OBVIOUS
<1>2. PICK q : q = Append(s, e)  OBVIOUS
<1>3. n \in 1..Len(q) /\ n \in DOMAIN q /\ Len(q) = n /\ q[n] = e /\ q \in Seq(SectorRecord)  BY <1>2
<1>4. WalledAt(q, n) = PutAt(q, n, v)  BY <1>1, <1>3 DEF PutAt, Walled, WalledAt
<1>5. PutAt(q, n, v) \in Seq(SectorRecord) /\ Len(PutAt(q, n, v)) = n  BY <1>3, PutAtFacts
<1>6. Append(s, v) \in Seq(SectorRecord) /\ Len(Append(s, v)) = n  OBVIOUS
<1>7. ASSUME NEW i \in 1..n PROVE Append(s, v)[i] = PutAt(q, n, v)[i]
  <2>1. i \in 1..Len(q)  BY <1>3
  <2>2. PutAt(q, n, v)[i] = IF i = n THEN v ELSE q[i]  BY <1>3, <2>1 DEF PutAt
  <2>3. q[i] = IF i = n THEN e ELSE s[i]  BY <1>2
  <2>4. Append(s, v)[i] = IF i = n THEN v ELSE s[i]  OBVIOUS
  <2> QED  BY <2>2, <2>3, <2>4
<1>8. Append(s, v) = PutAt(q, n, v)
  <2> HIDE DEF PutAt
  <2> QED  BY <1>5, <1>6, <1>7, SeqEqual
<1> QED  BY <1>1, <1>2, <1>4, <1>8

\* the sector n of w, just made, is linked to its neighbours
LEMMA FreshCell ==
  ASSUME NEW s \in Map, NEW lvl \in Int, NEW p \in Int \X Int, At(s, lvl, p) = 0,
         NEW n, n \in DOMAIN s => ~s[n].used, NEW e, e = Walled(NewAt(lvl, p)),
         NEW w \in Seq(SectorRecord), DOMAIN w = DOMAIN s \cup {n}, Len(w) < Limit,
         w[n] = e, \A m \in DOMAIN s : m # n => w[m] = s[m],
         NEW r, r = LinkAround(w, n, lvl, p)
  PROVE  Keeps(s, r)
<1>1. /\ e.used /\ e.level = lvl /\ Spot(e) = p
      /\ \A d \in Dir : e.exit[d] = 0 /\ e.wall[d]
  BY NewAtFacts
<1>2. n \in DOMAIN w /\ w[n].used /\ w[n].level = lvl /\ Spot(w[n]) = p
      /\ \A d \in Dir : w[n].exit[d] = 0 /\ w[n].wall[d]
  <2>1. \A d \in Dir : w[n].exit[d] = 0 /\ w[n].wall[d]  BY <1>1
  <2>2. n \in DOMAIN w  OBVIOUS
  <2> QED  BY <1>1, <2>1, <2>2
<1>3. Keeps(s, w)
  BY <1>2, FreshKeeps
<1> QED  BY <1>2, <1>3, AroundKeeps

LEMMA DrawCellKeeps ==
  ASSUME NEW s \in Map, NEW lvl \in Int, NEW p \in Int \X Int, NEW r, r = DrawCell(s, lvl, p)
  PROVE  Keeps(s, r)
<1>1. PICK here : here = At(s, lvl, p)  OBVIOUS
<1>2. PICK new : new = NewAt(lvl, p)  OBVIOUS
<1>3. PICK wall : wall = Walled(new)  OBVIOUS
<1>4. new \in SectorRecord /\ wall \in SectorRecord  BY <1>2, <1>3, NewAtFacts
<1>5. s \in Seq(SectorRecord) /\ Len(s) \in Nat /\ DOMAIN s = 1..Len(s) /\ Len(s) < Limit  BY MapTypes
<1>6. Limit \in Nat  BY SectorsAssumption
<1>7. CASE here # 0
  <2>1. here \in DOMAIN s /\ s[here].used /\ s[here].level = lvl /\ Spot(s[here]) = p
    BY <1>1, <1>5, <1>7, AtFacts
  <2>2. PICK w : w = WalledAt(s, here)  OBVIOUS
  <2>3. /\ Keeps(s, w)
        /\ SamePlaces(s, w)
    BY <2>1, <2>2, WallsUp
  <2>4. here \in DOMAIN w /\ w[here].used /\ w[here].level = lvl /\ Spot(w[here]) = p
    BY <2>1, <2>3 DEF SamePlaces, Spot
  <2>5. r = LinkAround(w, here, lvl, p)
    <3>1. r = ConnectAround(s, here, lvl, p)  BY <1>1, <1>7 DEF DrawCell
    <3> QED  BY <2>2, <3>1 DEF ConnectAround, LinkAround, WalledAt
  <2> QED  BY <2>3, <2>4, <2>5, AroundKeeps
<1>8. CASE here = 0 /\ Free(s) # {}
  <2>1. PICK n : n = Min(Free(s))  OBVIOUS
  <2>2. n \in DOMAIN s /\ ~s[n].used
    <3>1. Free(s) \subseteq Nat  BY <1>5 DEF Free
    <3>2. n \in Free(s)  BY <1>8, <2>1, <3>1, LeastOf
    <3> QED  BY <3>2 DEF Free
  <2>3. PICK w : w = [s EXCEPT ![n] = wall]  OBVIOUS
  <2>4. w \in Seq(SectorRecord) /\ Len(w) = Len(s) /\ DOMAIN w = DOMAIN s \cup {n}
        /\ w[n] = wall /\ \A m \in DOMAIN s : m # n => w[m] = s[m]
    <3>1. n \in 1..Len(s)  BY <1>5, <2>2
    <3>2. PutAt(s, n, wall) \in Seq(SectorRecord) /\ Len(PutAt(s, n, wall)) = Len(s)
      BY <1>4, <1>5, <3>1, PutAtFacts
    <3> QED  BY <2>2, <2>3, <3>2 DEF PutAt
  <2>5. r = LinkAround(w, n, lvl, p)
    <3>1. r = ConnectAround([s EXCEPT ![n] = new], n, lvl, p)
      BY <1>1, <1>2, <1>8, <2>1 DEF DrawCell
    <3>2. w = [[s EXCEPT ![n] = new] EXCEPT ![n].wall = AllDirs(TRUE)]
      BY <1>3, <2>2, <2>3 DEF Walled
    <3> QED  BY <3>1, <3>2 DEF ConnectAround, LinkAround
  <2> QED  BY <1>1, <1>2, <1>3, <1>5, <1>8, <2>2, <2>4, <2>5, FreshCell
<1>9. CASE here = 0 /\ Free(s) = {} /\ Full(s)
  <2>1. r = s  BY <1>1, <1>9 DEF DrawCell
  <2> QED  BY <2>1
<1>10. CASE here = 0 /\ Free(s) = {} /\ ~Full(s)
  <2>1. PICK n : n = Len(s) + 1  OBVIOUS
  <2>2. n \notin DOMAIN s /\ n < Limit  BY <1>5, <1>6, <1>10, <2>1 DEF Full
  <2>3. PICK w : w = Append(s, wall)  OBVIOUS
  <2>4. w \in Seq(SectorRecord) /\ Len(w) = n /\ DOMAIN w = DOMAIN s \cup {n}
        /\ w[n] = wall /\ \A m \in DOMAIN s : m # n => w[m] = s[m]
    BY <1>4, <1>5, <2>1, <2>3
  <2>5. r = LinkAround(w, n, lvl, p)
    <3>1. r = ConnectAround(Append(s, new), n, lvl, p)
      BY <1>1, <1>2, <1>10, <2>1 DEF DrawCell
    <3>2. w = WalledAt(Append(s, new), n)  BY <1>3, <1>4, <1>5, <2>1, <2>3, AppendWalled
    <3> QED  BY <3>1, <3>2 DEF ConnectAround, LinkAround, WalledAt
  <2>6. At(s, lvl, p) = 0 /\ Len(w) < Limit /\ wall = Walled(NewAt(lvl, p))
    BY <1>1, <1>2, <1>3, <1>10, <2>2, <2>4
  <2>7. n \in DOMAIN s => ~s[n].used  BY <2>2
  <2>8. w \in Seq(SectorRecord) /\ DOMAIN w = DOMAIN s \cup {n} /\ w[n] = wall
        /\ \A m \in DOMAIN s : m # n => w[m] = s[m]
    BY <2>4
  <2> QED  BY <2>5, <2>6, <2>7, <2>8, FreshCell
<1> QED  BY <1>7, <1>8, <1>9, <1>10

LEMMA CellType ==
  ASSUME NEW r \in Rect, r.left < r.right, r.top < r.bottom
  PROVE  /\ (r.right - r.left) * (r.bottom - r.top) \in Nat
         /\ \A k \in 1..(r.right - r.left) * (r.bottom - r.top) : Cell(r, k) \in Int \X Int
<1>1. r.left \in Nat /\ r.right \in Nat /\ r.top \in Nat /\ r.bottom \in Nat
  BY SectorsAssumption DEF Rect
<1>2. PICK w \in Nat, h \in Nat \ {0} : w = r.right - r.left /\ h = r.bottom - r.top  BY <1>1
<1>3. w * h \in Nat  BY <1>2
<1>4. ASSUME NEW k \in 1..w * h PROVE Cell(r, k) \in Int \X Int
  <2>1. (k - 1) \div h \in Int /\ (k - 1) % h \in Int  BY <1>2, <1>3
  <2> QED  BY <1>1, <1>2, <2>1 DEF Cell
<1> QED  BY <1>2, <1>3, <1>4

LEMMA DrawKeeps ==
  ASSUME NEW s \in Map, NEW lvl \in Int, NEW r \in Rect, r.left < r.right, r.top < r.bottom,
         NEW t, t = Draw(s, lvl, r)
  PROVE  Keeps(s, t)
<1> DEFINE cells == (r.right - r.left) * (r.bottom - r.top)
           P == {m \in Map : Keeps(s, m)}
           step == [x \in P \X (1..cells) |-> DrawCell(x[1], lvl, Cell(r, x[2]))]
           Run(f) == f = [k \in 0..cells |-> IF k = 0 THEN s ELSE DrawCell(f[k - 1], lvl, Cell(r, k))]
<1>1. cells \in Nat /\ \A k \in 1..cells : Cell(r, k) \in Int \X Int  BY CellType
<1> HIDE DEF cells
<1>2. ASSUME NEW m \in P, NEW k \in 1..cells PROVE DrawCell(m, lvl, Cell(r, k)) \in P
  <2>1. Keeps(m, DrawCell(m, lvl, Cell(r, k)))  BY <1>1, DrawCellKeeps
  <2> QED  BY <2>1
<1>3. cells \in Nat /\ s \in P /\ LoopStep(P, cells, step)  BY <1>1, <1>2 DEF LoopStep
<1>4. \A m \in P, k \in 1..cells : step[<<m, k>>] = DrawCell(m, lvl, Cell(r, k))  OBVIOUS
<1> HIDE DEF step, P
<1>5. PICK g : LoopRun(P, s, cells, step, g)  BY <1>3, LoopExists
<1>6. Run(g)
  <2>1. ASSUME NEW k \in 0..cells
        PROVE  g[k] = IF k = 0 THEN s ELSE DrawCell(g[k - 1], lvl, Cell(r, k))
    <3>1. CASE k = 0  BY <1>5, <3>1 DEF LoopRun
    <3>2. CASE k # 0
      <4>1. k \in 1..cells /\ k - 1 \in 0..cells  BY <1>1, <3>2
      <4> QED  BY <1>4, <1>5, <3>2, <4>1 DEF LoopRun
    <3> QED  BY <3>1, <3>2
  <2> QED  BY <1>5, <2>1 DEF LoopRun
<1> DEFINE f == CHOOSE x : Run(x)
<1>7. Run(f)
  <2> HIDE DEF Run
  <2> QED  BY <1>6
<1>8. t = f[cells]  BY DEF Draw, cells
<1> HIDE DEF f
<1>9. f[0] = s /\ \A k \in 1..cells : f[k] = DrawCell(f[k - 1], lvl, Cell(r, k))  BY <1>1, <1>7
<1>10. f[0] \in P /\ \A k \in 1..cells : f[k - 1] \in P => f[k] \in P  BY <1>2, <1>3, <1>9
<1>11. f[cells] \in P  BY <1>3, <1>10, AlongLoop
<1> QED  BY <1>8, <1>11 DEF P
-----------------------------------------------------------------------------
(***************************************************************************)
(* splitRect, eraseRect and the selection.                                 *)
(***************************************************************************)
LEMMA SplitAtKeeps ==
  ASSUME NEW s \in Map, NEW lvl, NEW p, NEW d \in Dir, NEW thin \in BOOLEAN,
         NEW r, r = SplitAt(s, lvl, p, d, thin)
  PROVE  Keeps(s, r)
<1>1. PICK n : n = At(s, lvl, p)  OBVIOUS
<1>2. CASE n = 0  BY <1>1, <1>2 DEF SplitAt
<1>3. CASE n # 0
  <2>1. n \in DOMAIN s  BY <1>1, <1>3, AtFacts, MapTypes
  <2>2. r = Disconnect(s, n, d, thin)  BY <1>1, <1>3 DEF SplitAt
  <2> QED  BY <2>1, <2>2, DisconnectKeeps
<1> QED  BY <1>2, <1>3

LEMMA SplitKeeps ==
  ASSUME NEW s \in Map, NEW lvl, NEW r \in Rect, NEW thin \in BOOLEAN,
         NEW t, t = Split(s, lvl, r, thin)
  PROVE  Keeps(s, t)
<1> DEFINE d == IF r.left = r.right THEN 3 ELSE 0
           cells == IF d = 3 THEN r.bottom - r.top ELSE r.right - r.left
           p(k) == IF d = 3 THEN <<r.left, r.top + k - 1>> ELSE <<r.left + k - 1, r.top>>
           P == {m \in Map : Keeps(s, m)}
           step == [x \in P \X (1..cells) |-> SplitAt(x[1], lvl, p(x[2]), d, thin)]
           Run(f) == f = [k \in 0..cells |-> IF k = 0 THEN s ELSE SplitAt(f[k - 1], lvl, p(k), d, thin)]
<1>1. d \in Dir /\ cells \in Nat  BY SectorsAssumption DEF Rect, Dir
<1> HIDE DEF cells, p, d
<1>2. ASSUME NEW m \in P, NEW k \in 1..cells PROVE SplitAt(m, lvl, p(k), d, thin) \in P
  <2>1. Keeps(m, SplitAt(m, lvl, p(k), d, thin))  BY <1>1, SplitAtKeeps
  <2> QED  BY <2>1
<1>3. cells \in Nat /\ s \in P /\ LoopStep(P, cells, step)  BY <1>1, <1>2 DEF LoopStep
<1>4. \A m \in P, k \in 1..cells : step[<<m, k>>] = SplitAt(m, lvl, p(k), d, thin)  OBVIOUS
<1> HIDE DEF step, P
<1>5. PICK g : LoopRun(P, s, cells, step, g)  BY <1>3, LoopExists
<1>6. Run(g)
  <2>1. ASSUME NEW k \in 0..cells
        PROVE  g[k] = IF k = 0 THEN s ELSE SplitAt(g[k - 1], lvl, p(k), d, thin)
    <3>1. CASE k = 0  BY <1>5, <3>1 DEF LoopRun
    <3>2. CASE k # 0
      <4>1. k \in 1..cells /\ k - 1 \in 0..cells  BY <1>1, <3>2
      <4> QED  BY <1>4, <1>5, <3>2, <4>1 DEF LoopRun
    <3> QED  BY <3>1, <3>2
  <2> QED  BY <1>5, <2>1 DEF LoopRun
<1> DEFINE f == CHOOSE x : Run(x)
<1>7. Run(f)
  <2> HIDE DEF Run
  <2> QED  BY <1>6
<1>8. t = f[cells]  BY DEF Split, cells, d, p
<1> HIDE DEF f
<1>9. f[0] = s /\ \A k \in 1..cells : f[k] = SplitAt(f[k - 1], lvl, p(k), d, thin)  BY <1>1, <1>7
<1>10. f[0] \in P /\ \A k \in 1..cells : f[k - 1] \in P => f[k] \in P  BY <1>2, <1>3, <1>9
<1>11. f[cells] \in P  BY <1>3, <1>10, AlongLoop
<1> QED  BY <1>8, <1>11 DEF P

\* a sector without exits goes
LEMMA BlankKeeps ==
  ASSUME NEW s \in Map, NEW n \in DOMAIN s, NEW w, w = PutAt(s, n, Blank)
  PROVE  /\ w \in Map /\ (s \in UniqueMap => w \in UniqueMap) /\ DOMAIN w = DOMAIN s
         /\ s \in LinkedMap /\ (\A d \in Dir : s[n].exit[d] = 0) => w \in LinkedMap
<1>1. Blank \in SectorRecord /\ ~Blank.used /\ \A d \in Dir : Blank.exit[d] = 0
  <2>1. PICK f \in [Dir -> Nat] : f = AllDirs(0)
    <3>1. AllDirs(0) \in [Dir -> Nat]  BY DEF AllDirs
    <3> QED  BY <3>1
  <2>2. PICK g \in [Dir -> BOOLEAN] : g = AllDirs(FALSE)
    <3>1. AllDirs(FALSE) \in [Dir -> BOOLEAN]  BY DEF AllDirs
    <3> QED  BY <3>1
  <2>3. Blank = [used |-> FALSE, level |-> 0, x |-> 0, y |-> 0, exit |-> f, wall |-> g]
    BY <2>1, <2>2 DEF Blank
  <2>4. Blank \in SectorRecord /\ ~Blank.used /\ Blank.exit = f  BY <2>3 DEF SectorRecord
  <2> QED  BY <2>1, <2>4 DEF AllDirs
<1>2. s \in Seq(SectorRecord) /\ Len(s) \in Nat /\ DOMAIN s = 1..Len(s) /\ Len(s) < Limit  BY MapTypes
<1>3. w \in Seq(SectorRecord) /\ Len(w) = Len(s)  BY <1>1, <1>2, PutAtFacts
<1>4. DOMAIN w = DOMAIN s /\ w[n] = Blank /\ \A m \in DOMAIN s : m # n => w[m] = s[m]
  BY DEF PutAt
<1>5. \A m \in DOMAIN w, d \in Dir : w[m].exit[d] # 0 => m # n /\ w[m].exit[d] \in DOMAIN w
  BY <1>1, <1>4, MapTypes
<1>6. Fenced(w)
  <2>1. ASSUME NEW m \in DOMAIN w, NEW d \in Dir, w[m].used, ~w[m].wall[d]
        PROVE  w[m].exit[d] # 0
    <3>1. m # n  BY <1>1, <1>4, <2>1
    <3> QED  BY <1>4, <2>1, <3>1, MapTypes DEF Fenced
  <2> QED  BY <2>1 DEF Fenced
<1>7. w \in Map  BY <1>2, <1>3, <1>5, <1>6 DEF Map
<1>8. ASSUME Unique(s) PROVE Unique(w)
  <2>1. \A i, m \in DOMAIN s : s[i].used /\ s[m].used /\ s[i].level = s[m].level
                                 /\ Spot(s[i]) = Spot(s[m]) => i = m
    BY <1>2, <1>8, UniqueSpots
  <2>2. \A i \in DOMAIN w : w[i].used => i # n  BY <1>1, <1>4
  <2>3. \A i, m \in DOMAIN w : w[i].used /\ w[m].used /\ w[i].level = w[m].level
                                 /\ Spot(w[i]) = Spot(w[m]) => i = m
    BY <1>4, <2>1, <2>2
  <2> QED  BY <1>3, <2>3, UniqueSpots
<1>9. ASSUME s \in LinkedMap, \A d \in Dir : s[n].exit[d] = 0 PROVE Mutual(w)
  <2>1. \A m \in DOMAIN s, d \in Dir : s[m].exit[d] # 0 =>
          /\ s[m].exit[d] \in DOMAIN s /\ s[m].used /\ s[s[m].exit[d]].used
          /\ s[s[m].exit[d]].exit[Rev(d)] = m /\ s[s[m].exit[d]].level = s[m].level
          /\ Spot(s[s[m].exit[d]]) = Beside(Spot(s[m]), d)
    BY <1>9, MapTypes, MutualSpots DEF LinkedMap
  <2>2. ASSUME NEW m \in DOMAIN w, NEW d \in Dir, w[m].exit[d] # 0
        PROVE  /\ w[m].used /\ w[w[m].exit[d]].used /\ w[w[m].exit[d]].exit[Rev(d)] = m
               /\ w[w[m].exit[d]].level = w[m].level
               /\ Spot(w[w[m].exit[d]]) = Beside(Spot(w[m]), d)
    <3>1. m # n /\ m \in DOMAIN s /\ w[m] = s[m]  BY <1>4, <1>5, <2>2
    <3>2. s[m].exit[d] # n
      <4>1. \A e \in Dir : s[n].exit[e] = 0  BY <1>9
      <4>2. Rev(d) \in Dir /\ m # 0  BY <1>2, <3>1, DirFacts
      <4>3. SUFFICES ASSUME s[m].exit[d] = n PROVE FALSE  OBVIOUS
      <4>4. s[n].exit[Rev(d)] = m  BY <2>1, <2>2, <3>1, <4>3
      <4> QED  BY <4>1, <4>2, <4>4
    <3>3. w[s[m].exit[d]] = s[s[m].exit[d]]  BY <1>4, <2>1, <2>2, <3>1, <3>2
    <3> QED  BY <2>1, <2>2, <3>1, <3>3
  <2> QED  BY <1>7, <2>2, MutualSpots
<1> QED  BY <1>4, <1>7, <1>8, <1>9 DEF UniqueMap, LinkedMap

\* b is a with the link d of n ended
Cut(a, b, n, d) ==
  /\ b \in Map /\ Keeps(a, b) /\ DOMAIN b = DOMAIN a
  /\ a \in LinkedMap => b[n].exit[d] = 0
  /\ \A e \in Dir : a[n].exit[e] = 0 => b[n].exit[e] = 0
LEMMA CutByDisconnect ==
  ASSUME NEW a \in Map, NEW n \in DOMAIN a, NEW d \in Dir, NEW thin \in BOOLEAN, ~thin,
         NEW b, b = Disconnect(a, n, d, thin)
  PROVE  Cut(a, b, n, d)
<1>1. /\ Keeps(a, b) /\ SamePlaces(a, b)
      /\ a \in LinkedMap /\ ~thin => b[n].exit[d] = 0
      /\ \A e \in Dir : a[n].exit[e] = 0 => b[n].exit[e] = 0
  BY DisconnectKeeps
<1> QED  BY <1>1 DEF Cut, SamePlaces
LEMMA CutFacts ==
  ASSUME NEW a \in Map, NEW n \in DOMAIN a, NEW d \in Dir, NEW b, b = Disconnect(a, n, d, FALSE)
  PROVE  Cut(a, b, n, d)
<1>1. FALSE \in BOOLEAN /\ ~FALSE  OBVIOUS
<1> QED  BY <1>1, CutByDisconnect, Zenon

LEMMA EraseSectorKeeps ==
  ASSUME NEW s \in Map, NEW n \in DOMAIN s, NEW r, r = EraseSector(s, n)
  PROVE  Keeps(s, r) /\ DOMAIN r = DOMAIN s
<1>1. PICK c0 : c0 = Disconnect(s, n, 0, FALSE)  OBVIOUS
<1>2. PICK c1 : c1 = Disconnect(c0, n, 1, FALSE)  OBVIOUS
<1>3. PICK c2 : c2 = Disconnect(c1, n, 2, FALSE)  OBVIOUS
<1>4. PICK c3 : c3 = Disconnect(c2, n, 3, FALSE)  OBVIOUS
<1>5. r = PutAt(c3, n, Blank)  BY <1>1, <1>2, <1>3, <1>4 DEF EraseSector, PutAt
<1>6. 0 \in Dir /\ 1 \in Dir /\ 2 \in Dir /\ 3 \in Dir  BY DEF Dir
<1>7. \A d \in Dir : d = 0 \/ d = 1 \/ d = 2 \/ d = 3  BY DEF Dir
<1>8. Cut(s, c0, n, 0) /\ n \in DOMAIN c0 /\ c0 \in Map
  <2>1. Cut(s, c0, n, 0)  BY <1>1, <1>6, CutFacts
  <2> QED  BY <2>1 DEF Cut
<1>9. Cut(c0, c1, n, 1) /\ n \in DOMAIN c1 /\ c1 \in Map
  <2>1. Cut(c0, c1, n, 1)  BY <1>2, <1>6, <1>8, CutFacts
  <2> QED  BY <2>1, <1>8 DEF Cut
<1>10. Cut(c1, c2, n, 2) /\ n \in DOMAIN c2 /\ c2 \in Map
  <2>1. Cut(c1, c2, n, 2)  BY <1>3, <1>6, <1>9, CutFacts
  <2> QED  BY <2>1, <1>9 DEF Cut
<1>11. Cut(c2, c3, n, 3) /\ n \in DOMAIN c3 /\ c3 \in Map
  <2>1. Cut(c2, c3, n, 3)  BY <1>4, <1>6, <1>10, CutFacts
  <2> QED  BY <2>1, <1>10 DEF Cut
<1>12. Keeps(s, c3) /\ DOMAIN c3 = DOMAIN s  BY <1>8, <1>9, <1>10, <1>11 DEF Cut
<1>13. ASSUME s \in LinkedMap PROVE \A d \in Dir : c3[n].exit[d] = 0
  <2>1. c0 \in LinkedMap /\ c1 \in LinkedMap /\ c2 \in LinkedMap
    BY <1>8, <1>9, <1>10, <1>13 DEF Cut
  <2>2. c0[n].exit[0] = 0 /\ c1[n].exit[1] = 0 /\ c2[n].exit[2] = 0 /\ c3[n].exit[3] = 0
    BY <1>8, <1>9, <1>10, <1>11, <1>13, <2>1 DEF Cut
  <2>3. c3[n].exit[0] = 0 /\ c3[n].exit[1] = 0 /\ c3[n].exit[2] = 0
    BY <1>6, <1>9, <1>10, <1>11, <2>2 DEF Cut
  <2> QED  BY <1>7, <2>2, <2>3
<1>14. /\ r \in Map /\ (c3 \in UniqueMap => r \in UniqueMap) /\ DOMAIN r = DOMAIN c3
       /\ c3 \in LinkedMap /\ (\A d \in Dir : c3[n].exit[d] = 0) => r \in LinkedMap
  BY <1>5, <1>11, BlankKeeps
<1> QED  BY <1>12, <1>13, <1>14

LEMMA EraseKeeps ==
  ASSUME NEW s \in Map, NEW gone \in SUBSET DOMAIN s, NEW t, t = Erase(s, gone)
  PROVE  Keeps(s, t)
<1> DEFINE last == Len(s)
           P == {m \in Map : Keeps(s, m) /\ DOMAIN m = DOMAIN s}
           one(m, k) == IF k \in gone THEN EraseSector(m, k) ELSE m
           step == [x \in P \X (1..last) |-> one(x[1], x[2])]
           Run(f) == f = [k \in 0..last |-> IF k = 0 THEN s ELSE IF k \in gone
                                            THEN EraseSector(f[k - 1], k) ELSE f[k - 1]]
<1>1. last \in Nat /\ DOMAIN s = 1..last  BY MapTypes
<1> HIDE DEF last
<1>2. ASSUME NEW m \in P, NEW k \in 1..last PROVE one(m, k) \in P
  <2>1. Keeps(m, EraseSector(m, k)) /\ DOMAIN EraseSector(m, k) = DOMAIN m
    BY <1>1, EraseSectorKeeps
  <2> QED  BY <2>1
<1>3. last \in Nat /\ s \in P /\ LoopStep(P, last, step)
  <2> HIDE DEF one
  <2> QED  BY <1>1, <1>2 DEF LoopStep
<1>4. \A m \in P, k \in 1..last : step[<<m, k>>] = one(m, k)
  <2> HIDE DEF one
  <2> QED  OBVIOUS
<1> HIDE DEF step, P
<1>5. PICK g : LoopRun(P, s, last, step, g)  BY <1>3, LoopExists
<1>6. Run(g)
  <2>1. ASSUME NEW k \in 0..last
        PROVE  g[k] = IF k = 0 THEN s ELSE one(g[k - 1], k)
    <3> HIDE DEF one
    <3>1. CASE k = 0  BY <1>5, <3>1 DEF LoopRun
    <3>2. CASE k # 0
      <4>1. k \in 1..last /\ k - 1 \in 0..last  BY <1>1, <3>2
      <4> QED  BY <1>4, <1>5, <3>2, <4>1 DEF LoopRun
    <3> QED  BY <3>1, <3>2
  <2> QED  BY <1>5, <2>1 DEF LoopRun
<1> DEFINE f == CHOOSE x : Run(x)
<1>7. Run(f)
  <2> HIDE DEF Run
  <2> QED  BY <1>6
<1>8. t = f[last]  BY DEF Erase, last
<1> HIDE DEF f
<1>9. f[0] = s /\ \A k \in 1..last : f[k] = one(f[k - 1], k)  BY <1>1, <1>7
<1>10. f[0] \in P /\ \A k \in 1..last : f[k - 1] \in P => f[k] \in P
  <2> HIDE DEF one
  <2> QED  BY <1>2, <1>3, <1>9
<1>11. f[last] \in P  BY <1>3, <1>10, AlongLoop
<1> QED  BY <1>8, <1>11 DEF P

LEMMA ExpandType ==
  ASSUME NEW s \in Map, NEW set \in SUBSET Nat
  PROVE  Expand(s, set) \in SUBSET Nat
<1> DEFINE last == Len(s)
           P == SUBSET Nat
           one(m) == m \cup Exits(s, m)
           step == [x \in P \X (1..last) |-> one(x[1])]
           Run(f) == f = [k \in 0..last |-> IF k = 0 THEN set ELSE f[k - 1] \cup Exits(s, f[k - 1])]
<1>1. last \in Nat /\ \A n \in DOMAIN s : s[n] \in SectorRecord  BY MapTypes
<1> HIDE DEF last
<1>2. ASSUME NEW m \in P PROVE one(m) \in P
  <2>1. \A n \in DOMAIN s, d \in Dir : s[n].exit[d] \in Nat  BY <1>1 DEF SectorRecord
  <2>2. \A x \in Exits(s, m) : x \in Nat  BY <2>1 DEF Exits
  <2>3. \A x \in m : x \in Nat  OBVIOUS
  <2> QED  BY <2>2, <2>3
<1>3. last \in Nat /\ set \in P /\ LoopStep(P, last, step)
  <2> HIDE DEF one, P
  <2> QED  BY <1>1, <1>2 DEF LoopStep, P
<1>4. \A m \in P, k \in 1..last : step[<<m, k>>] = one(m)
  <2> HIDE DEF one, P
  <2> QED  OBVIOUS
<1> HIDE DEF step, P
<1>5. PICK g : LoopRun(P, set, last, step, g)  BY <1>3, LoopExists
<1>6. Run(g)
  <2>1. ASSUME NEW k \in 0..last
        PROVE  g[k] = IF k = 0 THEN set ELSE one(g[k - 1])
    <3> HIDE DEF one
    <3>1. CASE k = 0  BY <1>5, <3>1 DEF LoopRun
    <3>2. CASE k # 0
      <4>1. k \in 1..last /\ k - 1 \in 0..last  BY <1>1, <3>2
      <4> QED  BY <1>4, <1>5, <3>2, <4>1 DEF LoopRun
    <3> QED  BY <3>1, <3>2
  <2> QED  BY <1>5, <2>1 DEF LoopRun
<1> DEFINE f == CHOOSE x : Run(x)
<1>7. Run(f)
  <2> HIDE DEF Run
  <2> QED  BY <1>6
<1>8. Expand(s, set) = f[last]  BY DEF Expand, last
<1> HIDE DEF f
<1>9. f[0] = set /\ \A k \in 1..last : f[k] = one(f[k - 1])
  <2>1. f[0] = set  BY <1>1, <1>7
  <2>2. ASSUME NEW k \in 1..last PROVE f[k] = one(f[k - 1])
    <3>1. k \in 0..last /\ k # 0  BY <1>1
    <3>2. f[k] = f[k - 1] \cup Exits(s, f[k - 1])  BY <1>7, <3>1, Zenon
    <3> QED  BY <3>2
  <2> QED  BY <2>1, <2>2
<1>10. f[0] \in P /\ \A k \in 1..last : f[k - 1] \in P => f[k] \in P
  <2> HIDE DEF one
  <2> QED  BY <1>2, <1>3, <1>9
<1>11. f[last] \in P  BY <1>3, <1>10, AlongLoop
<1> QED  BY <1>8, <1>11 DEF P
-----------------------------------------------------------------------------
(***************************************************************************)
(* moveSelection.                                                          *)
(***************************************************************************)
\* the sector e, moved
Shift(e, dx, dy, to) == [e EXCEPT !.x = @ + dx, !.y = @ + dy, !.level = to]
LEMMA ShiftFacts ==
  ASSUME NEW e \in SectorRecord, NEW dx \in Int, NEW dy \in Int, NEW to \in Int, NEW f, f = Shift(e, dx, dy, to)
  PROVE  /\ f \in SectorRecord /\ f.used = e.used /\ f.exit = e.exit /\ f.wall = e.wall /\ f.level = to
         /\ Spot(f) = <<e.x + dx, e.y + dy>>
<1>1. /\ f.used = e.used /\ f.exit = e.exit /\ f.wall = e.wall /\ f.level = to
      /\ f.x = e.x + dx /\ f.y = e.y + dy
  BY DEF Shift, SectorRecord
<1>2. f \in SectorRecord
  <2>1. PICK x \in Int, y \in Int : x = e.x + dx /\ y = e.y + dy  BY DEF SectorRecord
  <2>2. f = [e EXCEPT !.x = x, !.y = y, !.level = to]  BY <2>1 DEF Shift
  <2> QED  BY <2>1, <2>2 DEF SectorRecord
<1> QED  BY <1>1, <1>2 DEF Spot

LEMMA MovedFacts ==
  ASSUME NEW s \in Map, NEW sel, NEW dx \in Int, NEW dy \in Int, NEW to \in Int,
         NEW r, r = Moved(s, sel, dx, dy, to)
  PROVE  /\ r \in Seq(SectorRecord) /\ Len(r) = Len(s) /\ DOMAIN r = DOMAIN s
         /\ \A n \in DOMAIN s : /\ n \in sel => r[n] = Shift(s[n], dx, dy, to)
                                /\ n \notin sel => r[n] = s[n]
         /\ \A n \in DOMAIN s : r[n].used = s[n].used /\ r[n].exit = s[n].exit /\ r[n].wall = s[n].wall
<1>1. Len(s) \in Nat /\ DOMAIN s = 1..Len(s) /\ \A n \in DOMAIN s : s[n] \in SectorRecord  BY MapTypes
<1>2. r = [n \in 1..Len(s) |-> IF n \in sel THEN Shift(s[n], dx, dy, to) ELSE s[n]]
  BY <1>1 DEF Moved, Shift
<1>3. ASSUME NEW n \in 1..Len(s)
      PROVE  /\ Shift(s[n], dx, dy, to) \in SectorRecord
             /\ n \in sel => r[n] = Shift(s[n], dx, dy, to)
             /\ n \notin sel => r[n] = s[n]
             /\ r[n].used = s[n].used /\ r[n].exit = s[n].exit /\ r[n].wall = s[n].wall
  <2>1. s[n] \in SectorRecord  BY <1>1
  <2>2. PICK f : f = Shift(s[n], dx, dy, to)  OBVIOUS
  <2>3. f \in SectorRecord /\ f.used = s[n].used /\ f.exit = s[n].exit /\ f.wall = s[n].wall
    BY <2>1, <2>2, ShiftFacts
  <2>4. CASE n \in sel
    <3>1. r[n] = f  BY <1>2, <2>2, <2>4
    <3> QED  BY <2>2, <2>3, <2>4, <3>1
  <2>5. CASE n \notin sel
    <3>1. r[n] = s[n]  BY <1>2, <2>5
    <3> QED  BY <2>2, <2>3, <2>5, <3>1
  <2> QED  BY <2>4, <2>5
<1>4. r \in [1..Len(s) -> SectorRecord]  BY <1>1, <1>2, <1>3
<1>5. r \in Seq(SectorRecord) /\ Len(r) = Len(s)  BY <1>1, <1>4, SeqDef
<1> QED  BY <1>1, <1>3, <1>4, <1>5

LEMMA MovedKeeps ==
  ASSUME NEW s \in Map, NEW sel \in SUBSET DOMAIN s, NEW dx \in Int, NEW dy \in Int, NEW to \in Int,
         CanMove(s, sel, dx, dy, to), NEW r, r = Moved(s, sel, dx, dy, to)
  PROVE  /\ r \in Map
         /\ s \in UniqueMap /\ OneLevel(s, sel) => r \in UniqueMap
         /\ s \in LinkedMap /\ OneLevel(s, sel) /\ Whole(s, sel) => r \in LinkedMap
<1>1. /\ r \in Seq(SectorRecord) /\ Len(r) = Len(s) /\ DOMAIN r = DOMAIN s
      /\ \A n \in DOMAIN s : /\ n \in sel => r[n] = Shift(s[n], dx, dy, to)
                             /\ n \notin sel => r[n] = s[n]
      /\ \A n \in DOMAIN s : r[n].used = s[n].used /\ r[n].exit = s[n].exit /\ r[n].wall = s[n].wall
  BY MovedFacts
<1>2. s \in Seq(SectorRecord) /\ \A n \in DOMAIN s : s[n] \in SectorRecord  BY MapTypes
<1>3. r \in Map
  <2>1. Fenced(r)  BY <1>1, MapTypes DEF Fenced
  <2>2. \A n \in DOMAIN r, d \in Dir : r[n].exit[d] # 0 => r[n].exit[d] \in DOMAIN r
    BY <1>1, MapTypes
  <2> QED  BY <1>1, <2>1, <2>2, MapTypes DEF Map
\* where the moved and the other sectors are
<1>4. ASSUME NEW n \in sel
      PROVE  r[n].level = to /\ Spot(r[n]) = <<s[n].x + dx, s[n].y + dy>> /\ s[n].x \in Int /\ s[n].y \in Int
  <2>1. s[n] \in SectorRecord /\ r[n] = Shift(s[n], dx, dy, to)  BY <1>1, <1>2
  <2> QED  BY <2>1, ShiftFacts DEF SectorRecord
<1>5. \A n \in DOMAIN s : n \notin sel => r[n].level = s[n].level /\ Spot(r[n]) = Spot(s[n])
  BY <1>1
<1>6. ASSUME NEW n \in sel, NEW m \in DOMAIN s, m \notin sel, s[m].used, s[m].level = to
      PROVE  Spot(r[n]) # Spot(r[m])
  <2>1. Place(s[n], dx, dy) # Place(s[m], 0, 0)  BY <1>6 DEF CanMove
  <2>2. Place(s[n], dx, dy) = Spot(r[n])  BY <1>4 DEF Place
  <2>3. Place(s[m], 0, 0) = Spot(r[m])  BY <1>2, <1>5, <1>6, PlaceIsSpot
  <2> QED  BY <2>1, <2>2, <2>3
<1>7. ASSUME Unique(s), OneLevel(s, sel) PROVE Unique(r)
  <2>1. \A n, m \in DOMAIN s : s[n].used /\ s[m].used /\ s[n].level = s[m].level
                                 /\ Spot(s[n]) = Spot(s[m]) => n = m
    BY <1>2, <1>7, UniqueSpots
  <2>2. ASSUME NEW n \in DOMAIN s, NEW m \in DOMAIN s, r[n].used, r[m].used,
               r[n].level = r[m].level, Spot(r[n]) = Spot(r[m])
        PROVE  n = m
    <3>1. s[n].used /\ s[m].used  BY <1>1, <2>2
    <3>2. CASE n \in sel /\ m \in sel
      <4>1. s[n].level = s[m].level  BY <1>7, <3>1, <3>2 DEF OneLevel
      <4>2. /\ Spot(r[n]) = <<s[n].x + dx, s[n].y + dy>> /\ s[n].x \in Int /\ s[n].y \in Int
            /\ Spot(r[m]) = <<s[m].x + dx, s[m].y + dy>> /\ s[m].x \in Int /\ s[m].y \in Int
        BY <1>4, <3>2
      <4>3. s[n].x = s[m].x /\ s[n].y = s[m].y
        <5>1. PICK x \in Int, y \in Int : x = s[n].x /\ y = s[n].y  BY <4>2
        <5>2. PICK u \in Int, v \in Int : u = s[m].x /\ v = s[m].y  BY <4>2
        <5>3. <<x + dx, y + dy>> = <<u + dx, v + dy>>  BY <2>2, <4>2, <5>1, <5>2
        <5>4. x + dx = u + dx /\ y + dy = v + dy  BY <5>3
        <5>5. \A i, j, k \in Int : i + k = j + k => i = j  OBVIOUS
        <5>6. x = u /\ y = v  BY <5>4, <5>5
        <5> QED  BY <5>1, <5>2, <5>6
      <4>4. Spot(s[n]) = Spot(s[m])  BY <4>3 DEF Spot
      <4> QED  BY <2>1, <3>1, <4>1, <4>4
    <3>3. CASE n \in sel /\ m \notin sel  BY <1>4, <1>5, <1>6, <2>2, <3>1, <3>3
    <3>4. CASE n \notin sel /\ m \in sel  BY <1>4, <1>5, <1>6, <2>2, <3>1, <3>4
    <3>5. CASE n \notin sel /\ m \notin sel  BY <1>5, <2>1, <2>2, <3>1, <3>5
    <3> QED  BY <3>2, <3>3, <3>4, <3>5
  <2> QED  BY <1>1, <2>2, UniqueSpots
<1>8. ASSUME Mutual(s), Whole(s, sel) PROVE Mutual(r)
  <2>1. \A m \in DOMAIN s, d \in Dir : s[m].exit[d] # 0 =>
          /\ s[m].exit[d] \in DOMAIN s /\ s[m].used /\ s[s[m].exit[d]].used
          /\ s[s[m].exit[d]].exit[Rev(d)] = m /\ s[s[m].exit[d]].level = s[m].level
          /\ Spot(s[s[m].exit[d]]) = Beside(Spot(s[m]), d)
    BY <1>8, MapTypes, MutualSpots
  <2>2. ASSUME NEW m \in DOMAIN s, NEW d \in Dir, r[m].exit[d] # 0
        PROVE  /\ r[m].used /\ r[r[m].exit[d]].used /\ r[r[m].exit[d]].exit[Rev(d)] = m
               /\ r[r[m].exit[d]].level = r[m].level
               /\ Spot(r[r[m].exit[d]]) = Beside(Spot(r[m]), d)
    <3>1. PICK t : t = s[m].exit[d]  OBVIOUS
    <3>2. r[m].exit[d] = t /\ t # 0  BY <1>1, <2>2, <3>1
    <3>3. /\ t \in DOMAIN s /\ s[m].used /\ s[t].used /\ s[t].exit[Rev(d)] = m
          /\ s[t].level = s[m].level /\ Spot(s[t]) = Beside(Spot(s[m]), d)
      BY <2>1, <3>1, <3>2
    <3>4. m \in sel <=> t \in sel  BY <1>8, <3>1, <3>2 DEF Whole
    <3>5. r[m].used /\ r[t].used /\ r[t].exit[Rev(d)] = m  BY <1>1, <3>3
    <3>6. r[t].level = r[m].level /\ Spot(r[t]) = Beside(Spot(r[m]), d)
      <4>1. CASE m \in sel
        <5>1. t \in sel  BY <3>4, <4>1
        <5>2. r[m].level = to /\ Spot(r[m]) = <<s[m].x + dx, s[m].y + dy>> /\ s[m].x \in Int /\ s[m].y \in Int
          BY <1>4, <4>1
        <5>3. r[t].level = to /\ Spot(r[t]) = <<s[t].x + dx, s[t].y + dy>> /\ s[t].x \in Int /\ s[t].y \in Int
          BY <1>4, <5>1
        <5>4. PICK u \in Int, v \in Int : Step[d] = <<u, v>>  BY DirFacts
        <5>5. s[t].x = s[m].x + u /\ s[t].y = s[m].y + v
          BY <3>3, <5>2, <5>3, <5>4 DEF Beside, Spot
        <5>6. Beside(Spot(r[m]), d) = <<s[m].x + dx + u, s[m].y + dy + v>>
          BY <5>2, <5>4 DEF Beside
        <5> QED  BY <5>2, <5>3, <5>4, <5>5, <5>6
      <4>2. CASE m \notin sel  BY <1>5, <3>3, <3>4, <4>2
      <4> QED  BY <4>1, <4>2
    <3> QED  BY <3>2, <3>5, <3>6
  <2> QED  BY <1>1, <1>3, <2>2, MutualSpots
<1> QED  BY <1>3, <1>7, <1>8 DEF UniqueMap, LinkedMap
-----------------------------------------------------------------------------
(***************************************************************************)
(* The history of changes.                                                 *)
(***************************************************************************)
LEMMA ChangeKeeps ==
  ASSUME NEW P, docs \in Seq(P), cur \in DOMAIN docs, NEW s \in P, Change(s)
  PROVE  docs' \in Seq(P) /\ cur' \in DOMAIN docs'
<1>1. cur \in Nat /\ 1 <= cur /\ cur <= Len(docs) /\ Len(docs) \in Nat  OBVIOUS
<1>2. PICK all : all = Append(SubSeq(docs, 1, cur), s)  OBVIOUS
<1>3. SubSeq(docs, 1, cur) \in Seq(P) /\ Len(SubSeq(docs, 1, cur)) = cur
  BY <1>1
<1>4. all \in Seq(P) /\ Len(all) = cur + 1  BY <1>2, <1>3
<1>5. PICK a : a = (IF Len(all) > KeepUndo + 1 THEN Len(all) - KeepUndo ELSE 1)  OBVIOUS
<1>6. a \in 1..cur + 1  BY <1>1, <1>4, <1>5, SectorsAssumption
<1>7. docs' = SubSeq(all, a, Len(all)) /\ cur' = Len(docs')  BY <1>2, <1>5 DEF Change
<1>8. docs' \in Seq(P) /\ Len(docs') = cur + 1 - a + 1  BY <1>1, <1>4, <1>6, <1>7
<1> QED  BY <1>1, <1>6, <1>7, <1>8

LEMMA EditKeeps ==
  ASSUME MapsInv, NEW s, Keeps(Sectors, s), Change(s), UNCHANGED <<selection, torn, merged>>
  PROVE  MapsInv'
<1>1. cur \in DOMAIN docs /\ changes' \in Nat  BY DEF MapsInv, Typed, Change
<1>2. docs' \in Seq(Map) /\ cur' \in DOMAIN docs'
  BY <1>1, ChangeKeeps DEF MapsInv
<1>3. ASSUME ~merged' PROVE docs' \in Seq(UniqueMap)
  <2>1. docs \in Seq(UniqueMap)  BY <1>3 DEF MapsInv
  <2>2. s \in UniqueMap  BY <1>1, <2>1 DEF Sectors
  <2> QED  BY <1>1, <2>1, <2>2, ChangeKeeps
<1>4. ASSUME ~merged', ~torn' PROVE docs' \in Seq(LinkedMap)
  <2>1. docs \in Seq(LinkedMap)  BY <1>4 DEF MapsInv
  <2>2. s \in LinkedMap  BY <1>1, <2>1 DEF Sectors
  <2> QED  BY <1>1, <2>1, <2>2, ChangeKeeps
<1> QED  BY <1>1, <1>2, <1>3, <1>4 DEF MapsInv, Typed

LEMMA InitMaps == Init => MapsInv
<1>1. 1 \in DOMAIN << <<>> >> /\ \A P : <<>> \in P => << <<>> >> \in Seq(P)  OBVIOUS
<1>2. <<>> \in Map  BY SectorsAssumption DEF Map, Fenced
<1>3. <<>> \in UniqueMap  BY <1>2 DEF UniqueMap, Unique
<1>4. <<>> \in LinkedMap  BY <1>3 DEF LinkedMap, Mutual
<1>5. << <<>> >> \in Seq(Map) /\ << <<>> >> \in Seq(UniqueMap) /\ << <<>> >> \in Seq(LinkedMap)
  BY <1>1, <1>2, <1>3, <1>4
<1>6. SUFFICES ASSUME Init PROVE MapsInv  OBVIOUS
<1>7. Typed  BY <1>1, <1>6 DEF Init, Typed
<1>8. docs = << <<>> >>  BY <1>6 DEF Init
<1> QED  BY <1>5, <1>7, <1>8 DEF MapsInv

LEMMA StepKeepsMaps == MapsInv /\ [Next]_vars => MapsInv'
<1>0. SUFFICES ASSUME MapsInv, [Next]_vars PROVE MapsInv'
  OBVIOUS
<1>1. Sectors \in Map /\ docs \in Seq(Map) /\ cur \in DOMAIN docs
  BY <1>0 DEF MapsInv, Typed, Sectors
<1>2. ASSUME NEW lvl \in Level, NEW r \in Rect, DrawRect(lvl, r)
      PROVE  MapsInv'
  <2>1. PICK s : s = Draw(Sectors, lvl, r)  OBVIOUS
  <2>2. /\ r.left < r.right /\ r.top < r.bottom /\ Change(s)
        /\ UNCHANGED <<selection, torn, merged>> /\ lvl \in Int
    BY <1>2, <2>1, SectorsAssumption DEF DrawRect
  <2>3. Keeps(Sectors, s)  BY <1>1, <2>1, <2>2, DrawKeeps
  <2> QED  BY <1>0, <2>2, <2>3, EditKeeps
<1>3. ASSUME NEW lvl \in Level, NEW r \in Rect, EraseRect(lvl, r)
      PROVE  MapsInv'
  <2>1. PICK gone : gone = InRect(Sectors, lvl, r)  OBVIOUS
  <2>2. PICK s : s = Erase(Sectors, gone)  OBVIOUS
  <2>3. Change(s) /\ UNCHANGED <<selection, torn, merged>>  BY <1>3, <2>1, <2>2 DEF EraseRect
  <2>4. gone \in SUBSET DOMAIN Sectors  BY <2>1 DEF InRect
  <2>5. Keeps(Sectors, s)  BY <1>1, <2>2, <2>4, EraseKeeps
  <2> QED  BY <1>0, <2>3, <2>5, EditKeeps
<1>4. ASSUME NEW lvl \in Level, NEW r \in Rect, NEW thin \in BOOLEAN, SplitRect(lvl, r, thin)
      PROVE  MapsInv'
  <2>1. PICK s : s = Split(Sectors, lvl, r, thin)  OBVIOUS
  <2>2. Change(s) /\ UNCHANGED <<selection, torn, merged>>  BY <1>4, <2>1 DEF SplitRect
  <2>3. Keeps(Sectors, s)  BY <1>1, <2>1, SplitKeeps
  <2> QED  BY <1>0, <2>2, <2>3, EditKeeps
<1>5. ASSUME NEW lvl \in Level, NEW r \in Rect, NEW how \in {"set", "add", "drop", "move"},
             Select(lvl, r, how)
      PROVE  MapsInv'
  <2>1. PICK in : in = InRect(Sectors, lvl, r)  OBVIOUS
  <2>2. in \in SUBSET Nat /\ selection \in SUBSET Nat
    BY <1>0, <1>1, <2>1, MapTypes DEF MapsInv, Typed, InRect
  <2>3. Expand(Sectors, in) \in SUBSET Nat  BY <1>1, <2>2, ExpandType
  <2>4. /\ selection' = in \/ selection' = selection \cup in \/ selection' = selection \ in
           \/ selection' = Expand(Sectors, in)
        /\ UNCHANGED <<docs, cur, changes, torn, merged>>
    BY <1>5, <2>1 DEF Select
  <2>5. selection' \subseteq Nat  BY <2>2, <2>3, <2>4
  <2> QED  BY <1>0, <2>4, <2>5 DEF MapsInv, Typed
<1>6. ASSUME NEW dx \in 1 - Width..Width - 1, NEW dy \in 1 - Height..Height - 1, NEW to \in Level,
             MoveSelection(dx, dy, to)
      PROVE  MapsInv'
  <2>1. PICK s : s = Moved(Sectors, selection, dx, dy, to)  OBVIOUS
  <2>2. dx \in Int /\ dy \in Int /\ to \in Int  BY SectorsAssumption
  <2>3. /\ selection \in SUBSET DOMAIN Sectors /\ CanMove(Sectors, selection, dx, dy, to) /\ Change(s)
        /\ torn' = (torn \/ ~Whole(Sectors, selection))
        /\ merged' = (merged \/ ~OneLevel(Sectors, selection))
        /\ UNCHANGED selection
    BY <1>6, <2>1 DEF MoveSelection
  <2>4. /\ s \in Map
        /\ Sectors \in UniqueMap /\ OneLevel(Sectors, selection) => s \in UniqueMap
        /\ Sectors \in LinkedMap /\ OneLevel(Sectors, selection) /\ Whole(Sectors, selection)
             => s \in LinkedMap
    BY <1>1, <2>1, <2>2, <2>3, MovedKeeps
  <2>5. docs' \in Seq(Map) /\ cur' \in DOMAIN docs'  BY <1>1, <2>3, <2>4, ChangeKeeps
  <2>6. ASSUME ~merged' PROVE docs' \in Seq(UniqueMap)
    <3>1. ~merged /\ OneLevel(Sectors, selection)  BY <1>0, <2>3, <2>6 DEF MapsInv, Typed
    <3>2. docs \in Seq(UniqueMap)  BY <1>0, <3>1 DEF MapsInv
    <3>3. s \in UniqueMap  BY <1>1, <2>4, <3>1, <3>2 DEF Sectors
    <3> QED  BY <1>1, <2>3, <3>2, <3>3, ChangeKeeps
  <2>7. ASSUME ~merged', ~torn' PROVE docs' \in Seq(LinkedMap)
    <3>1. ~merged /\ ~torn /\ OneLevel(Sectors, selection) /\ Whole(Sectors, selection)
      BY <1>0, <2>3, <2>7 DEF MapsInv, Typed
    <3>2. docs \in Seq(LinkedMap)  BY <1>0, <3>1 DEF MapsInv
    <3>3. s \in LinkedMap  BY <1>1, <2>4, <3>1, <3>2 DEF Sectors
    <3> QED  BY <1>1, <2>3, <3>2, <3>3, ChangeKeeps
  <2>8. changes' \in Nat /\ torn' \in BOOLEAN /\ merged' \in BOOLEAN
    BY <1>0, <2>3 DEF MapsInv, Typed, Change
  <2> QED  BY <1>0, <2>3, <2>5, <2>6, <2>7, <2>8 DEF MapsInv, Typed
<1>7. CASE Undo
  <2>1. cur' \in DOMAIN docs /\ UNCHANGED <<docs, selection, changes, torn, merged>>
    BY <1>1, <1>7 DEF Undo
  <2> QED  BY <1>0, <2>1 DEF MapsInv, Typed
<1>8. CASE Redo
  <2>1. cur' \in DOMAIN docs /\ UNCHANGED <<docs, selection, changes, torn, merged>>
    BY <1>1, <1>8 DEF Redo
  <2> QED  BY <1>0, <2>1 DEF MapsInv, Typed
<1>9. CASE UNCHANGED vars  BY <1>0, <1>9 DEF MapsInv, Typed, vars
<1> QED  BY <1>0, <1>2, <1>3, <1>4, <1>5, <1>6, <1>7, <1>8, <1>9 DEF Next

\* MapsInv holds in every state: all maps of the history, not only the one
\* shown, are fenced; they have one sector per cell and mutual links as long
\* as nothing was torn or merged.
THEOREM MapsStayMaps == Spec => []MapsInv
<1> QED  BY InitMaps, StepKeepsMaps, PTL DEF Spec

\* NoOpenEdge, for a grid of any size and any history of drawing, splitting,
\* erasing, moving, undo and redo: where a sector has no exit it has a wall.
THEOREM MapsHaveNoOpenEdge == Spec => []NoOpenEdge
<1>1. MapsInv => NoOpenEdge  BY MapTypes DEF MapsInv, Typed, NoOpenEdge, Sectors
<1> QED  BY <1>1, MapsStayMaps, PTL

\* OnePerCell, for a grid of any size: unless sectors of two levels were moved
\* to one, no two sectors of a level are in one place.
THEOREM MapsHaveOnePerCell == Spec => []OnePerCell
<1>1. MapsInv => OnePerCell
  <2>1. SUFFICES ASSUME MapsInv, ~merged PROVE Unique(Sectors)  BY DEF OnePerCell
  <2>2. Sectors \in UniqueMap  BY <2>1 DEF MapsInv, Typed, Sectors
  <2> QED  BY <2>2 DEF UniqueMap
<1> QED  BY <1>1, MapsStayMaps, PTL

\* LinksAreMutual, for a grid of any size: the exits of connectSectors and
\* disconnectSectors come in pairs, between neighbours, along any history that
\* moves only parts that hang together.
THEOREM MapsHaveMutualLinks == Spec => []LinksAreMutual
<1>1. MapsInv => LinksAreMutual
  <2>1. SUFFICES ASSUME MapsInv, ~merged, ~torn PROVE Mutual(Sectors)  BY DEF LinksAreMutual
  <2>2. Sectors \in LinkedMap  BY <2>1 DEF MapsInv, Typed, Sectors
  <2> QED  BY <2>2 DEF LinkedMap
<1> QED  BY <1>1, MapsStayMaps, PTL

\* No map of the history reaches the limit of sectors, of 15 bits in the file
\* of the map: drawRect stops drawing before it.
THEOREM MapsStayInLimit == Spec => [](\A n \in DOMAIN docs : Len(docs[n]) < Limit)
<1>1. MapsInv => \A n \in DOMAIN docs : Len(docs[n]) < Limit  BY MapTypes DEF MapsInv
<1> QED  BY <1>1, MapsStayMaps, PTL

-----------------------------------------------------------------------------
(***************************************************************************)
(* The panel.  Its state has the types its document has; an Apply changes  *)
(* the sides that the mode means, which are those the filters find in the  *)
(* map it leaves, since the sides do not change the exits.                 *)
(***************************************************************************)
SideRecord == [primary : Wall \cup {0}, flags : SUBSET SideFlag]
PanelMap == [flags : [Sector -> SUBSET SectorFlag], exit : [Sector -> [Side -> Sector \cup {0}]],
             side : [Sector -> [Side -> SideRecord]]]
PanelFocus == [sector : Sector, side : Side, flags : SUBSET SectorFlag,
               exit : [Side -> Sector \cup {0}], def : SideRecord]
UsedModes == Modes \cup {"active", "direction", "all", "outer"}
Shapes == {"none", "row", "block", "outer"}
PanelInv ==
  /\ panel_docs \in Seq(PanelMap) /\ current \in 1..Len(panel_docs)
  /\ focus \in PanelFocus /\ selected \subseteq Sector
  /\ mode \in UsedModes /\ shape \in Shapes /\ lastMode \in [Shapes -> UsedModes]

LEMMA PanelOf ==
  ASSUME NEW m \in PanelMap, NEW s \in Sector, NEW d \in Side
  PROVE  Panel(m, s, d) \in PanelFocus
BY DEF Panel, PanelMap, PanelFocus

LEMMA Current ==
  ASSUME PanelInv
  PROVE  /\ curmap \in PanelMap /\ old \in PanelFocus
         /\ focus.sector \in Sector /\ focus.side \in Side
<1>1. curmap \in PanelMap  BY DEF PanelInv, curmap
<1>2. focus.sector \in Sector /\ focus.side \in Side  BY DEF PanelInv, PanelFocus
<1> QED  BY <1>1, <1>2, PanelOf DEF old

LEMMA ShapeIsOne == ASSUME NEW sel, NEW s PROVE ShapeOf(sel, s) \in Shapes
BY DEF ShapeOf, Shapes

LEMMA SelectedKeeps ==
  ASSUME PanelInv, NEW sel, sel \subseteq Sector, NEW s, Selected(sel, s)
  PROVE  selected' \subseteq Sector /\ mode' \in UsedModes /\ shape' \in Shapes /\ lastMode' = lastMode
<1>1. shape' \in Shapes  BY ShapeIsOne DEF Selected
<1>2. mode' \in UsedModes
  <2>1. lastMode[shape'] \in UsedModes  BY <1>1 DEF PanelInv
  <2>2. "active" \in UsedModes  BY DEF UsedModes
  <2> QED  BY <2>1, <2>2 DEF PanelInv, Selected
<1> QED  BY <1>1, <1>2 DEF Selected

\* what Apply makes of a map
Applied1 == IF AnySectorChange THEN SectorsDone ELSE curmap
Applied == SidesDone(Applied1)
LEMMA NewSideTypes ==
  ASSUME PanelInv, NEW x \in SideRecord
  PROVE  NewSide(x) \in SideRecord
<1>1. old.def \in SideRecord /\ focus.def \in SideRecord  BY Current DEF PanelInv, PanelFocus
<1> QED  BY <1>1 DEF NewSide, MergeFlags, SideRecord

LEMMA AppliedIs ==
  ASSUME PanelInv
  PROVE  /\ Applied1 \in PanelMap /\ Applied \in PanelMap
         /\ Applied.exit = Applied1.exit
         /\ \A s \in Sector, d \in Side :
              Applied.side[s][d] = IF AnySideChange /\ <<s, d>> \in ChangedSides(Applied1)
                                   THEN NewSide(curmap.side[s][d]) ELSE curmap.side[s][d]
<1>1. curmap \in PanelMap /\ old \in PanelFocus /\ focus \in PanelFocus  BY Current DEF PanelInv
<1>2. Applied1 \in PanelMap /\ Applied1.side = curmap.side
  <2>1. CASE ~AnySectorChange  BY <1>1, <2>1 DEF Applied1
  <2>2. CASE AnySectorChange
    <3> DEFINE flags == [s \in Sector |-> IF s \in ChangedSectors THEN MergeSectorFlags(curmap.flags[s])
                                          ELSE curmap.flags[s]]
               exit == [s \in Sector |-> IF s \in ChangedSectors THEN NewExit(curmap.exit[s])
                                         ELSE curmap.exit[s]]
    <3>1. \A s \in Sector : MergeSectorFlags(curmap.flags[s]) \in SUBSET SectorFlag
      BY <1>1 DEF MergeSectorFlags, PanelMap, PanelFocus
    <3>2. \A s \in Sector : NewExit(curmap.exit[s]) \in [Side -> Sector \cup {0}]
      BY <1>1 DEF NewExit, PanelMap, PanelFocus
    <3>3. flags \in [Sector -> SUBSET SectorFlag]  BY <1>1, <3>1 DEF PanelMap
    <3>4. exit \in [Sector -> [Side -> Sector \cup {0}]]  BY <1>1, <3>2 DEF PanelMap
    <3>5. Applied1 = [curmap EXCEPT !.flags = flags, !.exit = exit]
      BY <1>1, <2>2 DEF Applied1, SectorsDone
    <3> HIDE DEF flags, exit
    <3> QED  BY <1>1, <3>3, <3>4, <3>5 DEF PanelMap
  <2> QED  BY <2>1, <2>2
<1> DEFINE side == [s \in Sector |-> [d \in Side |->
                      IF AnySideChange /\ <<s, d>> \in ChangedSides(Applied1)
                      THEN NewSide(curmap.side[s][d]) ELSE curmap.side[s][d]]]
<1>3. side \in [Sector -> [Side -> SideRecord]]
  <2>1. \A s \in Sector, d \in Side : curmap.side[s][d] \in SideRecord  BY <1>1 DEF PanelMap
  <2>2. \A s \in Sector, d \in Side : NewSide(curmap.side[s][d]) \in SideRecord  BY <2>1, NewSideTypes
  <2> QED  BY <2>1, <2>2
<1>4. Applied = [Applied1 EXCEPT !.side = side]
  BY <1>2 DEF Applied, SidesDone
<1>5. \A s \in Sector, d \in Side : side[s][d] = IF AnySideChange /\ <<s, d>> \in ChangedSides(Applied1)
                                   THEN NewSide(curmap.side[s][d]) ELSE curmap.side[s][d]
  OBVIOUS
<1> HIDE DEF side
<1>6. Applied \in PanelMap /\ Applied.exit = Applied1.exit /\ Applied.side = side
  BY <1>2, <1>3, <1>4 DEF PanelMap
<1> QED  BY <1>2, <1>5, <1>6

LEMMA ApplyStep ==
  ASSUME PanelInv, Apply
  PROVE  /\ panel_docs' \in Seq(PanelMap) /\ current' \in 1..Len(panel_docs')
         /\ newmap = Applied /\ focus' = Panel(newmap, focus.sector, focus.side)
<1> DEFINE before == SubSeq(panel_docs, 1, current)
<1>1. panel_docs' = Append(before, Applied) /\ current' = current + 1
      /\ focus' = Panel(Applied, focus.sector, focus.side)
  BY DEF Apply, EndEdit, Applied, Applied1
<1>2. panel_docs \in Seq(PanelMap) /\ current \in 1..Len(panel_docs) /\ Len(panel_docs) \in Nat
  BY DEF PanelInv
<1>3. before \in Seq(PanelMap) /\ Len(before) = current  BY <1>2
<1>4. Applied \in PanelMap  BY AppliedIs
<1> HIDE DEF before
<1>5. Append(before, Applied) \in Seq(PanelMap) /\ Len(Append(before, Applied)) = current + 1
      /\ Append(before, Applied)[current + 1] = Applied
  BY <1>2, <1>3, <1>4
<1> QED  BY <1>1, <1>2, <1>5 DEF newmap

LEMMA PanelStep ==
  ASSUME PanelAssumption, PanelInv, [PanelNext]_panel_vars
  PROVE  PanelInv'
<1>1. CASE UNCHANGED panel_vars  BY <1>1 DEF PanelInv, panel_vars
<1>2. ASSUME NEW s \in Sector, NEW d \in Side, NEW shift \in BOOLEAN, Click(s, d, shift)  PROVE PanelInv'
  <2>1. focus' \in PanelFocus  BY <1>2, Current, PanelOf DEF Click
  <2>2. CASE shift  BY <1>2, <2>1, <2>2 DEF Click, PanelInv
  <2>3. CASE ~shift
    <3>1. Selected({}, s)  BY <1>2, <2>3 DEF Click
    <3> QED  BY <1>2, <2>1, <3>1, SelectedKeeps DEF Click, PanelInv
  <2> QED  BY <2>2, <2>3
<1>3. ASSUME NEW sel \in SUBSET Sector, SelectSectors(sel)  PROVE PanelInv'
  <2>1. Selected(sel, focus.sector)  BY <1>3 DEF SelectSectors
  <2> QED  BY <1>3, <2>1, SelectedKeeps DEF SelectSectors, PanelInv
<1>4. ASSUME NEW m \in Modes, ChooseMode(m)  PROVE PanelInv'
  BY <1>4 DEF ChooseMode, PanelInv, UsedModes
<1>5. ASSUME NEW p \in PanelFocus, Edit(p)  PROVE PanelInv'
  BY <1>5 DEF Edit, PanelInv
<1>6. focus \in PanelFocus  BY DEF PanelInv
<1>7. CASE EditSectorFlag
  <2>1. PICK f \in SectorFlag : Edit([focus EXCEPT !.flags = Toggle(@, f)])  BY <1>7 DEF EditSectorFlag
  <2>2. [focus EXCEPT !.flags = Toggle(@, f)] \in PanelFocus  BY <1>6 DEF PanelFocus, Toggle
  <2> QED  BY <1>5, <2>1, <2>2
<1>8. CASE EditSideFlag
  <2>1. PICK f \in SideFlag : Edit([focus EXCEPT !.def.flags = Toggle(@, f)])  BY <1>8 DEF EditSideFlag
  <2>2. [focus EXCEPT !.def.flags = Toggle(@, f)] \in PanelFocus
    BY <1>6 DEF PanelFocus, SideRecord, Toggle
  <2> QED  BY <1>5, <2>1, <2>2
<1>9. CASE EditPrimary
  <2>1. PICK w \in Wall : Edit([focus EXCEPT !.def.primary = w])  BY <1>9 DEF EditPrimary
  <2>2. [focus EXCEPT !.def.primary = w] \in PanelFocus  BY <1>6 DEF PanelFocus, SideRecord
  <2> QED  BY <1>5, <2>1, <2>2
<1>10. CASE EditExit
  <2>1. PICK e \in Links : Edit([focus EXCEPT !.exit[focus.side] = e])  BY <1>10 DEF EditExit
  <2>2. [focus EXCEPT !.exit[focus.side] = e] \in PanelFocus
    BY <1>6 DEF PanelFocus, PanelAssumption
  <2> QED  BY <1>5, <2>1, <2>2
<1>11. CASE Apply
  <2>1. panel_docs' \in Seq(PanelMap) /\ current' \in 1..Len(panel_docs')  BY <1>11, ApplyStep
  <2>2. focus' \in PanelFocus
    <3>1. focus' = Panel(Applied, focus.sector, focus.side)  BY <1>11, ApplyStep
    <3>2. Applied \in PanelMap  BY AppliedIs
    <3>3. focus.sector \in Sector /\ focus.side \in Side  BY Current
    <3> QED  BY <3>1, <3>2, <3>3, PanelOf
  <2>3. lastMode' \in [Shapes -> UsedModes]  BY <1>11, ShapeIsOne DEF Apply, PanelInv
  <2> QED  BY <1>11, <2>1, <2>2, <2>3 DEF Apply, PanelInv
<1>12. CASE DoUndo \/ DoRedo
  <2>1. current' \in 1..Len(panel_docs) /\ panel_docs' = panel_docs
    BY <1>12 DEF DoUndo, DoRedo, PanelInv
  <2>2. panel_docs[current'] \in PanelMap  BY <2>1 DEF PanelInv
  <2>3. focus' \in PanelFocus  BY <1>12, <2>2, Current, PanelOf DEF DoUndo, DoRedo
  <2> QED  BY <1>12, <2>1, <2>3 DEF DoUndo, DoRedo, PanelInv
<1> QED  BY <1>1, <1>2, <1>3, <1>4, <1>7, <1>8, <1>9, <1>10, <1>11, <1>12 DEF PanelNext

\* The panel's document, its contents and its modes have their types, for any map,
\* any modes and any number of Applies.
THEOREM PanelTypes == ASSUME PanelAssumption PROVE PanelSpec => []PanelInv
<1>1. ASSUME PanelInit PROVE PanelInv
  <2>1. PICK g \in [Sector -> SUBSET SideFlag] :
          panel_docs = <<[flags |-> [s \in Sector |-> {}], exit |-> Plan,
                          side |-> [s \in Sector |-> [d \in Side |-> [primary |-> 0, flags |-> g[s]]]]]>>
    BY <1>1 DEF PanelInit
  <2>2. panel_docs[1] \in PanelMap /\ panel_docs \in Seq(PanelMap) /\ Len(panel_docs) = 1
    <3> DEFINE m == [flags |-> [s \in Sector |-> {}], exit |-> Plan,
                     side |-> [s \in Sector |-> [d \in Side |-> [primary |-> 0, flags |-> g[s]]]]]
    <3>1. m \in PanelMap  BY <2>1 DEF PanelMap, SideRecord, PanelAssumption, Side
    <3>2. panel_docs = <<m>>  BY <2>1
    <3> HIDE DEF m
    <3> QED  BY <3>1, <3>2
  <2>3. focus \in PanelFocus  BY <1>1, <2>2, PanelOf DEF PanelInit
  <2>4. lastMode \in [Shapes -> UsedModes]  BY <1>1 DEF PanelInit, Shapes, UsedModes
  <2> QED  BY <1>1, <2>2, <2>3, <2>4 DEF PanelInit, PanelInv, UsedModes, Shapes
<1>2. PanelInv /\ [PanelNext]_panel_vars => PanelInv'  BY PanelStep
<1> QED  BY <1>1, <1>2, PTL DEF PanelSpec

LEMMA OnlyApply ==
  ASSUME PanelInv, PanelNext, newmap # curmap
  PROVE  focus' = Panel(newmap, focus.sector, focus.side)
<1>1. CASE panel_docs' = panel_docs /\ current' = current  BY <1>1 DEF newmap, curmap
<1>2. CASE Apply  BY <1>2, ApplyStep
<1>3. CASE DoUndo \/ DoRedo  BY <1>3 DEF DoUndo, DoRedo, newmap
<1> QED  BY <1>1, <1>2, <1>3 DEF PanelNext, Click, SelectSectors, ChooseMode, Edit, EditSectorFlag, EditSideFlag,
            EditPrimary, EditExit

\* PanelFollows, for any map and any number of Applies, undos and redos.
THEOREM ThePanelFollows == ASSUME PanelAssumption PROVE PanelSpec => PanelFollows
<1>1. PanelInv /\ [PanelNext]_panel_vars =>
        [newmap # curmap => focus' = Panel(newmap, focus.sector, focus.side)]_panel_vars
  BY OnlyApply
<1> QED  BY <1>1, PanelTypes, PTL DEF PanelSpec, PanelFollows

\* East and West are left out: the code changes the opposite sides for them.
NoCompass == Modes \cap {"east", "west"} = {}
LEMMA MeantIsChanged ==
  ASSUME PanelAssumption, PanelInv, NoCompass, NEW m \in PanelMap,
         NEW n, n.exit = m.exit, NEW s \in Sector, NEW d \in Side
  PROVE  Meant(n, s, d) <=> <<s, d>> \in ChangedSides(m)
<1>1. focus.sector \in Sector /\ focus.side \in Side /\ selected \subseteq Sector /\ 0 \notin Sector
  BY Current DEF PanelInv, PanelAssumption
<1>2. CASE mode = "active"  BY <1>1, <1>2 DEF Meant, ChangedSides
<1>3. CASE mode = "both"
  <2>1. Meant(n, s, d) <=> (s = focus.sector /\ d = focus.side)
                           \/ (s = m.exit[focus.sector][focus.side] /\ d = Opposite(focus.side))
    BY <1>3 DEF Meant
  <2>2. ChangedSides(m) = Both(m)  BY <1>3 DEF ChangedSides
  <2> QED  BY <1>1, <2>1, <2>2 DEF Both
<1>4. CASE mode \notin {"active", "both", "outer"}
  <2>1. <<s, d>> \in ChangedSides(m) <=> s \in selected /\ Filter(m.exit[s][d], d)
    BY <1>4 DEF ChangedSides
  <2>2. CASE mode = "direction"  BY <2>1, <2>2 DEF Meant, Filter
  <2>3. CASE mode = "perimeter"  BY <2>1, <2>3 DEF Meant, Filter
  <2>4. CASE mode = "inner"  BY <2>1, <2>4 DEF Meant, Filter
  <2>5. CASE mode = "edge"  BY <2>1, <2>5 DEF Meant, Filter
  <2>6. CASE mode = "all"  BY <2>1, <2>6 DEF Meant, Filter
  <2>7. CASE mode = "north"  BY <2>1, <2>7 DEF Meant, Filter
  <2>8. CASE mode = "south"  BY <2>1, <2>8 DEF Meant, Filter
  <2>9. mode \in AllModes \ {"east", "west"}
    BY DEF PanelInv, UsedModes, AllModes, PanelAssumption, NoCompass
  <2> QED  BY <1>4, <2>2, <2>3, <2>4, <2>5, <2>6, <2>7, <2>8, <2>9 DEF AllModes
<1>5. CASE mode = "outer"
  <2>1. <<s, d>> \in ChangedSides(m) <=> s \notin selected /\ m.exit[s][d] \in selected
    BY <1>1, <1>5 DEF ChangedSides, Filter
  <2> QED  BY <1>5, <2>1 DEF Meant
<1> QED  BY <1>2, <1>3, <1>4, <1>5

\* OnlyMeantSides, for any map, any edits and any modes but East and West.
THEOREM ApplyMeansItsSides == ASSUME PanelAssumption, NoCompass PROVE PanelSpec => OnlyMeantSides
<1>1. ASSUME PanelInv, Apply, NEW s \in Sector, NEW d \in Side,
             newmap.side[s][d] # curmap.side[s][d]
      PROVE  Meant(newmap, s, d)
  <2>1. newmap = Applied  BY <1>1, ApplyStep
  <2>2. <<s, d>> \in ChangedSides(Applied1)  BY <1>1, <2>1, AppliedIs
  <2> QED  BY <1>1, <2>1, <2>2, AppliedIs, MeantIsChanged
<1>2. PanelInv /\ [PanelNext]_panel_vars =>
        [Apply => \A s \in Sector, d \in Side :
           newmap.side[s][d] # curmap.side[s][d] => Meant(newmap, s, d)]_panel_vars
  BY <1>1
<1> QED  BY <1>2, PanelTypes, PTL DEF PanelSpec, OnlyMeantSides

\* EditsArrive, for any map, any edits and any modes but East and West.
Arrives(s, d) ==
  LET was == curmap.side[s][d]
      is == newmap.side[s][d]
      Toggled(f) == f \in old.def.flags <=> f \notin focus.def.flags
  IN /\ \A f \in SideFlag :
          f \in is.flags <=> IF Toggled(f) THEN f \in focus.def.flags ELSE f \in was.flags
     /\ is.primary = IF old.def.primary # focus.def.primary THEN focus.def.primary
                     ELSE was.primary
THEOREM AppliedEditsArrive == ASSUME PanelAssumption, NoCompass PROVE PanelSpec => EditsArrive
<1>1. ASSUME PanelInv, Apply, NEW s \in Sector, NEW d \in Side, Meant(newmap, s, d)
      PROVE  Arrives(s, d)
  <2>1. newmap = Applied  BY <1>1, ApplyStep
  <2>2. <<s, d>> \in ChangedSides(Applied1)  BY <1>1, <2>1, AppliedIs, MeantIsChanged
  <2>3. newmap.side[s][d] = IF AnySideChange THEN NewSide(curmap.side[s][d]) ELSE curmap.side[s][d]
    BY <1>1, <2>1, <2>2, AppliedIs
  <2>4. curmap.side[s][d] \in SideRecord /\ old.def \in SideRecord /\ focus.def \in SideRecord
    BY <1>1, Current DEF PanelInv, PanelMap, PanelFocus
  <2>5. CASE ~AnySideChange  BY <2>3, <2>5 DEF Arrives, AnySideChange
  <2>6. CASE AnySideChange
    <3>1. newmap.side[s][d] = NewSide(curmap.side[s][d])  BY <2>3, <2>6
    <3> QED  BY <2>4, <3>1 DEF Arrives, NewSide, MergeFlags, SideRecord
  <2> QED  BY <2>5, <2>6
<1>2. PanelInv /\ [PanelNext]_panel_vars =>
        [Apply => \A s \in Sector, d \in Side : Meant(newmap, s, d) => Arrives(s, d)]_panel_vars
  BY <1>1
<1>3. PanelInv /\ [PanelNext]_panel_vars =>
        [Apply => \A s \in Sector, d \in Side : Meant(newmap, s, d) =>
           LET was == curmap.side[s][d]
               is == newmap.side[s][d]
               Toggled(f) == f \in old.def.flags <=> f \notin focus.def.flags
           IN /\ \A f \in SideFlag :
                   f \in is.flags <=> IF Toggled(f) THEN f \in focus.def.flags ELSE f \in was.flags
              /\ is.primary = IF old.def.primary # focus.def.primary THEN focus.def.primary
                              ELSE was.primary]_panel_vars
  BY <1>2 DEF Arrives
<1> QED  BY <1>3, PanelTypes, PTL DEF PanelSpec, EditsArrive
=============================================================================
