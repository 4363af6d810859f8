--------------------------- MODULE RpcLink_proofs ---------------------------
(***************************************************************************)
(* Proofs about the calls of a tab: for any number of calls and of their   *)
(* attachments, frames are read in their places and calls run in order.    *)
(***************************************************************************)
EXTENDS RpcLink, SequenceTheorems, TLAPS

\* Frames.
LEMMA FramesTyped ==
  ASSUME NEW id \in Call \cup {0}, NEW n \in Nat
  PROVE  Text(id, n) \in Frame /\ Binary(id, n) \in Frame
  BY DEF Text, Binary, Frame

LEMMA FrameFields ==
  ASSUME NEW f \in Frame
  PROVE  f.type \in {"text", "binary"} /\ f.id \in Call \cup {0} /\ f.count \in Nat
  BY DEF Frame

LEMMA MessageFlows ==
  ASSUME NEW id \in Call \cup {0}, NEW n \in Nat
  PROVE  /\ Message(id, n) \in Seq(Frame) /\ Message(id, n) # <<>> /\ Len(Message(id, n)) = n + 1
         /\ Message(id, n)[1].type = "text"
         /\ Flows(0, Message(id, n)) /\ Leaves(0, Message(id, n)) = 0
         /\ \A i \in 1..n + 1 : Message(id, n)[i].id = id
         /\ \A i \in 1..n + 1 : Message(id, n)[i].type = "text" <=> i = 1
<1>1. PICK m : m = Message(id, n)
  OBVIOUS
<1>2. ASSUME NEW i \in 1..n + 1
      PROVE  /\ m[i] \in Frame /\ m[i].id = id /\ m[i].count = n + 1 - i
             /\ m[i].type = IF i = 1 THEN "text" ELSE "binary"
  <2>1. m[i] = IF i = 1 THEN Text(id, n) ELSE Binary(id, n + 1 - i)
    BY <1>1 DEF Message
  <2>2. n + 1 - i \in Nat
    OBVIOUS
  <2>3. CASE i = 1
    <3>1. m[i] = Text(id, n) /\ n + 1 - i = n
      BY <2>1, <2>3
    <3> QED
      BY <2>3, <3>1, FramesTyped DEF Text
  <2>4. CASE i # 1
    <3>1. m[i] = Binary(id, n + 1 - i)
      BY <2>1, <2>4
    <3> QED
      BY <2>2, <2>4, <3>1, FramesTyped DEF Binary
  <2> QED
    BY <2>3, <2>4
<1>3. m = [i \in 1..n + 1 |-> m[i]] /\ DOMAIN m = 1..n + 1
  BY <1>1 DEF Message
<1>4. m \in Seq(Frame) /\ Len(m) = n + 1
  <2>1. m \in [1..n + 1 -> Frame]
    BY <1>2, <1>3
  <2> QED
    BY <2>1, <1>3
<1>5. Flows(0, m)
  <2> SUFFICES ASSUME NEW i \in 1..n + 1 PROVE Fits(m[i], IF i = 1 THEN 0 ELSE m[i - 1].count)
    BY <1>4 DEF Flows
  <2>1. CASE i = 1
    BY <1>2, <2>1 DEF Fits
  <2>2. CASE i # 1
    <3>1. i - 1 \in 1..n + 1
      BY <2>2
    <3>2. m[i - 1].count = n + 1 - (i - 1) /\ m[i].count = n + 1 - i
      BY <1>2, <3>1
    <3> QED
      BY <1>2, <2>2, <3>2 DEF Fits
  <2> QED
    BY <2>1, <2>2
<1>6. Leaves(0, m) = 0
  <2>1. m[n + 1].count = 0 /\ m # <<>>
    BY <1>2, <1>4
  <2> QED
    BY <1>4, <2>1 DEF Leaves
<1>7. m # <<>> /\ m[1].type = "text" /\ \A i \in 1..n + 1 : m[i].type = "text" <=> i = 1
  BY <1>2, <1>4
<1> QED
  BY <1>1, <1>2, <1>4, <1>5, <1>6, <1>7

LEMMA FlowsEmpty ==
  ASSUME NEW k \in Nat
  PROVE  Flows(k, <<>>) /\ Leaves(k, <<>>) = k
  BY DEF Flows, Leaves

LEMMA FlowsAppend ==
  ASSUME NEW k \in Nat, NEW s \in Seq(Frame), NEW f \in Frame, Flows(k, s), Fits(f, Leaves(k, s))
  PROVE  Flows(k, Append(s, f)) /\ Leaves(k, Append(s, f)) = f.count
<1>1. PICK t : t = Append(s, f)
  OBVIOUS
<1>2. /\ t \in Seq(Frame) /\ Len(t) = Len(s) + 1 /\ t[Len(s) + 1] = f
      /\ \A i \in 1..Len(s) : t[i] = s[i]
  BY <1>1, AppendProperties
<1>3. Len(s) \in Nat
  OBVIOUS
<1>4. Flows(k, t)
  <2> SUFFICES ASSUME NEW i \in 1..Len(t) PROVE Fits(t[i], IF i = 1 THEN k ELSE t[i - 1].count)
    BY DEF Flows
  <2>1. CASE i \in 1..Len(s)
    <3>1. i # 1 => t[i - 1] = s[i - 1]
      BY <1>2, <1>3, <2>1
    <3> QED
      BY <1>2, <2>1, <3>1 DEF Flows
  <2>2. CASE i = Len(s) + 1
    <3>1. Leaves(k, s) = IF i = 1 THEN k ELSE t[i - 1].count
      <4>1. s = <<>> <=> i = 1
        BY <2>2
      <4>2. i # 1 => t[i - 1] = s[Len(s)]
        BY <1>2, <1>3, <2>2
      <4> QED
        BY <2>2, <4>1, <4>2 DEF Leaves
    <3> QED
      BY <1>2, <2>2, <3>1
  <2> QED
    BY <1>2, <1>3, <2>1, <2>2
<1>5. Leaves(k, t) = f.count
  <2>1. t # <<>>
    BY <1>2, <1>3
  <2> QED
    BY <1>2, <2>1 DEF Leaves
<1> QED
  BY <1>1, <1>4, <1>5

LEMMA FlowsTail ==
  ASSUME NEW k \in Nat, NEW s \in Seq(Frame), s # <<>>, Flows(k, s)
  PROVE  /\ Head(s) \in Frame /\ Tail(s) \in Seq(Frame) /\ Fits(Head(s), k)
         /\ Flows(Head(s).count, Tail(s)) /\ Leaves(Head(s).count, Tail(s)) = Leaves(k, s)
<1>1. PICK t : t = Tail(s)
  OBVIOUS
<1>2. /\ t \in Seq(Frame) /\ Len(t) = Len(s) - 1 /\ Len(s) \in Nat \ {0}
      /\ \A i \in 1..Len(t) : t[i] = s[i + 1]
      /\ Head(s) = s[1] /\ s[1] \in Frame
  BY <1>1, HeadTailProperties
<1>3. Fits(Head(s), k)
  <2>1. 1 \in 1..Len(s)
    BY <1>2
  <2> QED
    BY <1>2, <2>1 DEF Flows
<1>4. Flows(Head(s).count, t)
  <2> SUFFICES ASSUME NEW i \in 1..Len(t)
               PROVE  Fits(t[i], IF i = 1 THEN Head(s).count ELSE t[i - 1].count)
    BY DEF Flows
  <2>1. i + 1 \in 1..Len(s) /\ i + 1 # 1 /\ i + 1 - 1 = i
    BY <1>2
  <2>2. Fits(s[i + 1], s[i].count)
    BY <2>1 DEF Flows
  <2>3. i # 1 => t[i - 1] = s[i]
    BY <1>2
  <2> QED
    BY <1>2, <2>2, <2>3
<1>5. Leaves(Head(s).count, t) = Leaves(k, s)
  <2>1. t = <<>> <=> Len(s) = 1
    BY <1>2
  <2>2. t # <<>> => t[Len(t)] = s[Len(s)]
    BY <1>2, <2>1
  <2> QED
    BY <1>2, <2>1, <2>2 DEF Leaves
<1> QED
  BY <1>1, <1>2, <1>3, <1>4, <1>5

LEMMA FlowsConcat ==
  ASSUME NEW k \in Nat, NEW s \in Seq(Frame), NEW t \in Seq(Frame),
         Flows(k, s), Leaves(k, s) = 0, Flows(0, t), Leaves(0, t) = 0
  PROVE  Flows(k, s \o t) /\ Leaves(k, s \o t) = 0
<1>1. PICK u : u = s \o t
  OBVIOUS
<1>2. /\ u \in Seq(Frame) /\ Len(u) = Len(s) + Len(t) /\ Len(s) \in Nat /\ Len(t) \in Nat
      /\ \A i \in 1..Len(s) : u[i] = s[i]
      /\ \A i \in 1..Len(t) : u[Len(s) + i] = t[i]
  <2>1. \A i \in 1..Len(s) + Len(t) : u[i] = IF i <= Len(s) THEN s[i] ELSE t[i - Len(s)]
    BY <1>1, ConcatProperties
  <2>2. ASSUME NEW i \in 1..Len(t) PROVE u[Len(s) + i] = t[i]
    <3>1. Len(s) + i \in 1..Len(s) + Len(t) /\ ~(Len(s) + i <= Len(s)) /\ Len(s) + i - Len(s) = i
      OBVIOUS
    <3> QED
      BY <2>1, <3>1
  <2>3. ASSUME NEW i \in 1..Len(s) PROVE u[i] = s[i]
    BY <2>1
  <2> QED
    BY <1>1, <2>2, <2>3, ConcatProperties
<1>3. Flows(k, u)
  <2> SUFFICES ASSUME NEW i \in 1..Len(u) PROVE Fits(u[i], IF i = 1 THEN k ELSE u[i - 1].count)
    BY DEF Flows
  <2>1. CASE i \in 1..Len(s)
    <3>1. i # 1 => u[i - 1] = s[i - 1]
      BY <1>2, <2>1
    <3> QED
      BY <1>2, <2>1, <3>1 DEF Flows
  <2>2. CASE i = Len(s) + 1
    <3>1. Len(t) # 0 /\ 1 \in 1..Len(t) /\ u[i] = t[1]
      BY <1>2, <2>2
    <3>2. Fits(u[i], 0)
      BY <3>1 DEF Flows
    <3>3. 0 = IF i = 1 THEN k ELSE u[i - 1].count
      <4>1. s = <<>> <=> i = 1
        BY <2>2
      <4>2. i # 1 => u[i - 1] = s[Len(s)]
        BY <1>2, <2>2
      <4> QED
        BY <4>1, <4>2 DEF Leaves
    <3> QED
      BY <3>2, <3>3
  <2>3. CASE i \in Len(s) + 2..Len(u)
    <3>1. PICK j \in 1..Len(t) : j = i - Len(s) /\ j # 1 /\ i = Len(s) + j /\ j - 1 \in 1..Len(t) /\ i - 1 = Len(s) + (j - 1)
      BY <1>2, <2>3
    <3>2. u[i] = t[j] /\ u[i - 1] = t[j - 1]
      BY <1>2, <3>1
    <3>3. Fits(t[j], t[j - 1].count)
      BY <3>1 DEF Flows
    <3> QED
      BY <1>2, <3>1, <3>2, <3>3
  <2> QED
    BY <1>2, <2>1, <2>2, <2>3
<1>4. Leaves(k, u) = 0
  <2>1. CASE t = <<>>
    <3>1. u = s
      BY <1>1, <2>1
    <3> QED
      BY <3>1
  <2>2. CASE t # <<>>
    <3>1. Len(t) \in 1..Len(t) /\ u # <<>>
      BY <1>2, <2>2
    <3>2. u[Len(u)] = t[Len(t)]
      BY <1>2, <3>1
    <3> QED
      BY <2>2, <3>1, <3>2 DEF Leaves
  <2> QED
    BY <2>1, <2>2
<1> QED
  BY <1>1, <1>3, <1>4

LEMMA FlowsPrefix ==
  ASSUME NEW k \in Nat, NEW s \in Seq(Frame), NEW n \in 0..Len(s), Flows(k, s)
  PROVE  SubSeq(s, 1, n) \in Seq(Frame) /\ Flows(k, SubSeq(s, 1, n))
<1>1. PICK t : t = SubSeq(s, 1, n)
  OBVIOUS
<1>2. t \in Seq(Frame) /\ Len(t) = n /\ \A i \in 1..n : t[i] = s[i]
  BY <1>1, SubSeqProperties
<1>3. Flows(k, t)
  <2> SUFFICES ASSUME NEW i \in 1..Len(t) PROVE Fits(t[i], IF i = 1 THEN k ELSE t[i - 1].count)
    BY DEF Flows
  <2>1. i \in 1..Len(s) /\ t[i] = s[i] /\ (i # 1 => t[i - 1] = s[i - 1])
    BY <1>2
  <2> QED
    BY <2>1 DEF Flows
<1> QED
  BY <1>1, <1>2, <1>3

\* The calls that frames make.
LEMMA AsksTyped ==
  ASSUME NEW s \in Seq(Frame)
  PROVE  Asks(s) \subseteq Call \cup {0}
  BY FrameFields DEF Asks

LEMMA AsksEmpty == Asks(<<>>) = {} /\ Rising(<<>>)
  BY DEF Asks, Rising

LEMMA AsksMember ==
  ASSUME NEW s \in Seq(Frame), NEW i \in 1..Len(s), s[i].type = "text"
  PROVE  s[i].id \in Asks(s)
  BY DEF Asks

LEMMA AsksMessage ==
  ASSUME NEW id \in Call \cup {0}, NEW n \in Nat
  PROVE  Asks(Message(id, n)) = {id} /\ Rising(Message(id, n))
<1>1. PICK m : m = Message(id, n)
  OBVIOUS
<1>2. /\ Len(m) = n + 1 /\ \A i \in 1..n + 1 : m[i].id = id
      /\ \A i \in 1..n + 1 : m[i].type = "text" <=> i = 1
  BY <1>1, MessageFlows
<1>3. {j \in 1..Len(m) : m[j].type = "text"} = {1}
  BY <1>2
<1>4. Asks(m) = {id}
  BY <1>2, <1>3 DEF Asks
<1>5. Rising(m)
  BY <1>2 DEF Rising
<1> QED
  BY <1>1, <1>4, <1>5

LEMMA AsksTail ==
  ASSUME NEW s \in Seq(Frame), s # <<>>, Rising(s)
  PROVE  /\ Rising(Tail(s))
         /\ Head(s).type = "text" => Asks(s) = {Head(s).id} \cup Asks(Tail(s)) /\ Below({Head(s).id}, Asks(Tail(s)))
         /\ Head(s).type # "text" => Asks(s) = Asks(Tail(s))
<1>1. PICK t : t = Tail(s)
  OBVIOUS
<1>2. /\ t \in Seq(Frame) /\ Len(t) = Len(s) - 1 /\ Len(s) \in Nat \ {0}
      /\ \A i \in 1..Len(t) : t[i] = s[i + 1]
      /\ Head(s) = s[1] /\ s[1] \in Frame
  BY <1>1, HeadTailProperties
<1>3. Rising(t)
  <2> SUFFICES ASSUME NEW i \in 1..Len(t), NEW j \in 1..Len(t), i < j,
                      t[i].type = "text", t[j].type = "text"
               PROVE  t[i].id < t[j].id
    BY DEF Rising
  <2>1. i + 1 \in 1..Len(s) /\ j + 1 \in 1..Len(s) /\ i + 1 < j + 1
    BY <1>2
  <2> QED
    BY <1>2, <2>1 DEF Rising
<1>4. \A x \in Asks(t) : \E i \in 1..Len(t) : t[i].type = "text" /\ x = t[i].id
  BY DEF Asks
<1>5. \A x \in Asks(s) : \E i \in 1..Len(s) : s[i].type = "text" /\ x = s[i].id
  BY DEF Asks
<1>6. Asks(t) \subseteq Asks(s)
  <2> SUFFICES ASSUME NEW x \in Asks(t) PROVE x \in Asks(s)
    OBVIOUS
  <2>1. PICK i \in 1..Len(t) : t[i].type = "text" /\ x = t[i].id
    BY <1>4
  <2>2. i + 1 \in 1..Len(s) /\ s[i + 1] = t[i]
    BY <1>2
  <2> QED
    BY <2>1, <2>2, AsksMember
<1>7. ASSUME NEW x \in Asks(s) PROVE x \in Asks(t) \/ (s[1].type = "text" /\ x = s[1].id)
  <2>1. PICK i \in 1..Len(s) : s[i].type = "text" /\ x = s[i].id
    BY <1>5
  <2>2. CASE i = 1
    BY <2>1, <2>2
  <2>3. CASE i # 1
    <3>1. PICK j \in 1..Len(t) : j = i - 1 /\ i = j + 1
      BY <1>2, <2>3
    <3>2. t[j] = s[i]
      BY <1>2, <3>1
    <3> QED
      BY <1>2, <2>1, <3>2, AsksMember
  <2> QED
    BY <2>2, <2>3
<1>8. s[1].type = "text" => s[1].id \in Asks(s)
  <2>1. 1 \in 1..Len(s)
    BY <1>2
  <2> QED
    BY <2>1, AsksMember
<1>9. s[1].type = "text" => Below({s[1].id}, Asks(t))
  <2> SUFFICES ASSUME s[1].type = "text", NEW x \in Asks(t) PROVE s[1].id < x
    BY DEF Below
  <2>1. PICK i \in 1..Len(t) : t[i].type = "text" /\ x = t[i].id
    BY <1>4
  <2>2. 1 \in 1..Len(s) /\ i + 1 \in 1..Len(s) /\ 1 < i + 1 /\ s[i + 1] = t[i]
    BY <1>2
  <2> QED
    BY <2>1, <2>2 DEF Rising
<1> QED
  BY <1>1, <1>2, <1>3, <1>6, <1>7, <1>8, <1>9

LEMMA AsksConcat ==
  ASSUME NEW s \in Seq(Frame), NEW t \in Seq(Frame), Rising(s), Rising(t), Below(Asks(s), Asks(t))
  PROVE  Asks(s \o t) = Asks(s) \cup Asks(t) /\ Rising(s \o t)
<1>1. PICK u : u = s \o t
  OBVIOUS
<1>2. /\ u \in Seq(Frame) /\ Len(u) = Len(s) + Len(t) /\ Len(s) \in Nat /\ Len(t) \in Nat
      /\ \A i \in 1..Len(u) : u[i] = IF i <= Len(s) THEN s[i] ELSE t[i - Len(s)]
  BY <1>1, ConcatProperties
<1>3. \A i \in 1..Len(u) : (i \in 1..Len(s) /\ u[i] = s[i]) \/ (i - Len(s) \in 1..Len(t) /\ u[i] = t[i - Len(s)] /\ ~(i <= Len(s)))
  BY <1>2
<1>4. ASSUME NEW x \in Asks(u) PROVE x \in Asks(s) \cup Asks(t)
  <2>1. PICK i \in 1..Len(u) : u[i].type = "text" /\ x = u[i].id
    BY DEF Asks
  <2> QED
    BY <1>3, <2>1, AsksMember
<1>5. ASSUME NEW x \in Asks(s) PROVE x \in Asks(u)
  <2>1. PICK i \in 1..Len(s) : s[i].type = "text" /\ x = s[i].id
    BY DEF Asks
  <2>2. i \in 1..Len(u) /\ u[i] = s[i]
    BY <1>2
  <2> QED
    BY <1>2, <2>1, <2>2, AsksMember
<1>6. ASSUME NEW x \in Asks(t) PROVE x \in Asks(u)
  <2>1. PICK i \in 1..Len(t) : t[i].type = "text" /\ x = t[i].id
    BY DEF Asks
  <2>2. Len(s) + i \in 1..Len(u) /\ ~(Len(s) + i <= Len(s)) /\ Len(s) + i - Len(s) = i
    BY <1>2
  <2>3. u[Len(s) + i] = t[i]
    BY <1>2, <2>2
  <2> QED
    BY <1>2, <2>1, <2>2, <2>3, AsksMember
<1>7. Rising(u)
  <2> SUFFICES ASSUME NEW i \in 1..Len(u), NEW j \in 1..Len(u), i < j,
                      u[i].type = "text", u[j].type = "text"
               PROVE  u[i].id < u[j].id
    BY DEF Rising
  <2>1. CASE i \in 1..Len(s) /\ j \in 1..Len(s)
    BY <1>2, <2>1 DEF Rising
  <2>2. CASE i \in 1..Len(s) /\ ~(j <= Len(s))
    <3>1. u[i] = s[i] /\ j - Len(s) \in 1..Len(t) /\ u[j] = t[j - Len(s)]
      BY <1>2, <2>2
    <3>2. u[i].id \in Asks(s) /\ u[j].id \in Asks(t)
      BY <2>2, <3>1, AsksMember
    <3> QED
      BY <3>2 DEF Below
  <2>3. CASE ~(i <= Len(s))
    <3>1. /\ i - Len(s) \in 1..Len(t) /\ j - Len(s) \in 1..Len(t) /\ i - Len(s) < j - Len(s)
          /\ ~(j <= Len(s))
      BY <1>2, <2>3
    <3>2. u[i] = t[i - Len(s)] /\ u[j] = t[j - Len(s)]
      BY <1>2, <2>3, <3>1
    <3> QED
      BY <3>1, <3>2 DEF Rising
  <2> QED
    BY <1>2, <2>1, <2>2, <2>3
<1> QED
  BY <1>1, <1>4, <1>5, <1>6, <1>7

LEMMA AsksPrefix ==
  ASSUME NEW s \in Seq(Frame), NEW n \in 0..Len(s), Rising(s)
  PROVE  Asks(SubSeq(s, 1, n)) \subseteq Asks(s) /\ Rising(SubSeq(s, 1, n))
<1>1. PICK t : t = SubSeq(s, 1, n)
  OBVIOUS
<1>2. t \in Seq(Frame) /\ Len(t) = n /\ \A i \in 1..n : t[i] = s[i] /\ i \in 1..Len(s)
  BY <1>1, SubSeqProperties
<1>3. ASSUME NEW x \in Asks(t) PROVE x \in Asks(s)
  <2>1. PICK i \in 1..Len(t) : t[i].type = "text" /\ x = t[i].id
    BY DEF Asks
  <2> QED
    BY <1>2, <2>1, AsksMember
<1>4. Rising(t)
  BY <1>2 DEF Rising
<1> QED
  BY <1>1, <1>3, <1>4

\* What a session's new state and frames must be for its reading to keep the
\* invariant; then its steps are instances.
LEMMA SessionReads ==
  ASSUME IInv, NEW c \in Conn, NEW s \in Session, NEW u \in Seq(Frame), NEW k \in Nat,
         sess' = [sess EXCEPT ![c] = s], up' = [up EXCEPT ![c] = u],
         UNCHANGED <<client, serverUp, executed, down, alive>>,
         sess[c].st \in {"read", "collect"}, s.st \in {"none", "read", "collect"},
         s.st = "none" => u = <<>> /\ ~alive[c],
         s.out = <<>> \/ s.out = sess[c].out,
         k = (IF s.st = "collect" THEN s.left ELSE 0), Flows(k, u), alive[c] => Leaves(k, u) = 0,
         Rising(u), s.st = "collect" => s.id \in Waiting(c) /\ Below({s.id}, Asks(u)),
         Asks(u) \subseteq Waiting(c)
  PROVE  IInv'
<1>1. TypeOK /\ Links /\ Requests /\ Answers /\ InLine /\ Ended /\ InOrder
  BY DEF IInv
<1>2. /\ sess' \in [Conn -> Session] /\ sess'[c] = s /\ \A d \in Conn \ {c} : sess'[d] = sess[d]
      /\ up' \in [Conn -> Seq(Frame)] /\ up'[c] = u /\ \A d \in Conn \ {c} : up'[d] = up[d]
  BY <1>1 DEF TypeOK
<1>3. /\ conn' = conn /\ ws' = ws /\ idcnt' = idcnt /\ tosend' = tosend /\ responseMap' = responseMap
      /\ cur' = cur /\ outcome' = outcome /\ serverUp' = serverUp /\ executed' = executed
      /\ down' = down /\ alive' = alive
  BY DEF client
<1>4. conn \in Conn /\ 1 - conn \in Conn
  BY <1>1 DEF TypeOK, Conn
<1>5. TypeOK'
  BY <1>1, <1>2, <1>3 DEF TypeOK
<1>6. Links'
  BY <1>1, <1>2, <1>3, <1>4 DEF Links
<1>7. Requests'
  <2>1. \A d \in Conn : Flows(Due(d)', up'[d]) /\ (alive[d] => Leaves(Due(d)', up'[d]) = 0)
    <3> SUFFICES ASSUME NEW d \in Conn
                 PROVE  Flows(Due(d)', up'[d]) /\ (alive[d] => Leaves(Due(d)', up'[d]) = 0)
      OBVIOUS
    <3>1. CASE d = c
      <4>1. Due(d)' = k
        BY <1>2, <3>1 DEF Due
      <4> QED
        BY <1>2, <3>1, <4>1
    <3>2. CASE d # c
      <4>1. Due(d)' = Due(d) /\ up'[d] = up[d]
        BY <1>2, <3>2 DEF Due
      <4> QED
        BY <1>1, <4>1 DEF Requests
    <3> QED
      BY <3>1, <3>2
  <2> QED
    BY <1>1, <1>3, <2>1 DEF Requests
<1>8. Answers'
  <2>1. Owes(conn)' = Owes(conn)
    <3>1. CASE c = conn
      BY <1>2, <1>3, <3>1 DEF Owes, MidMessage
    <3>2. CASE c # conn
      BY <1>2, <1>3, <1>4, <3>2 DEF Owes, MidMessage
    <3> QED
      BY <3>1, <3>2
  <2>2. \A d \in Conn : sess'[d].st = "reply" => sess'[d] = sess[d] /\ Owes(d)' = Owes(d)
    BY <1>2 DEF Owes, MidMessage
  <2>3. Expected' = Expected
    BY <1>3 DEF Expected
  <2> QED
    BY <1>1, <1>3, <2>1, <2>2, <2>3 DEF Answers
<1>9. \A d \in Conn : Waiting(d)' \subseteq Waiting(d)
  <2>1. Waiting(c)' \subseteq Waiting(c)
    BY <1>2 DEF Waiting
  <2>2. \A d \in Conn \ {c} : Waiting(d)' = Waiting(d)
    BY <1>2 DEF Waiting
  <2> QED
    BY <2>1, <2>2
<1>10. Done' = Done
  BY <1>3 DEF Done
<1>11. InLine'
  <2>1. \A d \in Conn : Rising(up'[d]) /\ (sess'[d].st = "collect" => Below({sess'[d].id}, Asks(up'[d])))
    BY <1>1, <1>2 DEF InLine
  <2>2. \A d \in Conn : /\ Waiting(d)' \subseteq 1..idcnt /\ Below(Waiting(d)', Asks(tosend))
                        /\ Waiting(d)' \cap Done = {}
    BY <1>1, <1>9 DEF InLine, Below
  <2>3. Below(Waiting(1 - conn)', Waiting(conn)')
    BY <1>1, <1>3, <1>4, <1>9 DEF InLine, Below
  <2>4. Below(Done, Waiting(conn)')
    BY <1>1, <1>3, <1>4, <1>9 DEF InLine, Below
  <2> QED
    BY <1>1, <1>3, <1>10, <2>1, <2>2, <2>3, <2>4 DEF InLine
<1>12. Ended'
  <2>1. \A d \in Conn : \A i \in 1..Len(sess'[d].out) : sess'[d].out[i].id \in Done \cup {0}
    BY <1>1, <1>2 DEF Ended
  <2>2. \A x \in Waiting(1 - conn)' : outcome[x] = "rejected"
    BY <1>1, <1>3, <1>4, <1>9 DEF Ended
  <2>3. ws = "closed" => \A x \in Waiting(conn)' : outcome[x] = "rejected"
    BY <1>1, <1>3, <1>4, <1>9 DEF Ended
  <2> QED
    BY <1>1, <1>3, <1>10, <2>1, <2>2, <2>3 DEF Ended
<1>13. InOrder'
  BY <1>1, <1>3 DEF InOrder
<1> QED
  BY <1>5, <1>6, <1>7, <1>8, <1>11, <1>12, <1>13 DEF IInv

LEMMA ReadRequestKeeps ==
  ASSUME IInv, NEW c \in Conn, ReadRequest(c)
  PROVE  IInv'
<1>1. TypeOK /\ Requests /\ InLine
  BY DEF IInv
<1>2. /\ sess[c] \in Session /\ sess[c].st = "read" /\ up[c] \in Seq(Frame) /\ up[c] # <<>>
      /\ Flows(0, up[c]) /\ (alive[c] => Leaves(0, up[c]) = 0) /\ Rising(up[c])
      /\ Waiting(c) = Asks(up[c])
  BY <1>1 DEF ReadRequest, TypeOK, Requests, Due, InLine, Waiting
<1>3. PICK f \in Frame : /\ f = Head(up[c]) /\ f.type = "text" /\ f.count \in Nat /\ f.id \in Call \cup {0}
                         /\ Tail(up[c]) \in Seq(Frame) /\ Flows(f.count, Tail(up[c]))
                         /\ Leaves(f.count, Tail(up[c])) = Leaves(0, up[c])
  <2>1. Head(up[c]).type = "text"
    BY <1>2, FlowsTail DEF Fits
  <2> QED
    BY <1>2, <2>1, FlowsTail, FrameFields
<1>4. /\ Asks(up[c]) = {f.id} \cup Asks(Tail(up[c])) /\ Below({f.id}, Asks(Tail(up[c])))
      /\ Rising(Tail(up[c]))
  BY <1>2, <1>3, AsksTail
<1>5. PICK s : s = [sess[c] EXCEPT !.st = "collect", !.id = f.id, !.left = f.count]
  OBVIOUS
<1>6. s \in Session /\ s.st = "collect" /\ s.id = f.id /\ s.left = f.count /\ s.out = sess[c].out
  BY <1>2, <1>3, <1>5 DEF Session
<1>7. /\ sess' = [sess EXCEPT ![c] = s] /\ up' = [up EXCEPT ![c] = Tail(up[c])]
      /\ UNCHANGED <<client, serverUp, executed, down, alive>>
  BY <1>3, <1>5 DEF ReadRequest
<1> QED
  BY <1>2, <1>3, <1>4, <1>6, <1>7, SessionReads

LEMMA ReadAttachmentKeeps ==
  ASSUME IInv, NEW c \in Conn, ReadAttachment(c)
  PROVE  IInv'
<1>1. TypeOK /\ Requests /\ InLine
  BY DEF IInv
<1>2. /\ sess[c] \in Session /\ sess[c].st = "collect" /\ sess[c].left > 0 /\ sess[c].left \in Nat
      /\ up[c] \in Seq(Frame) /\ up[c] # <<>>
      /\ Flows(sess[c].left, up[c]) /\ (alive[c] => Leaves(sess[c].left, up[c]) = 0) /\ Rising(up[c])
      /\ Waiting(c) = {sess[c].id} \cup Asks(up[c]) /\ Below({sess[c].id}, Asks(up[c]))
  BY <1>1 DEF ReadAttachment, TypeOK, Requests, Due, InLine, Waiting, Session
<1>3. PICK f \in Frame : /\ f = Head(up[c]) /\ f.type = "binary" /\ f.count = sess[c].left - 1
                         /\ Tail(up[c]) \in Seq(Frame) /\ Flows(f.count, Tail(up[c]))
                         /\ Leaves(f.count, Tail(up[c])) = Leaves(sess[c].left, up[c])
  <2>1. Head(up[c]).type = "binary" /\ Head(up[c]).count = sess[c].left - 1
    BY <1>2, FlowsTail DEF Fits
  <2> QED
    BY <1>2, <2>1, FlowsTail
<1>4. Asks(up[c]) = Asks(Tail(up[c])) /\ Rising(Tail(up[c]))
  BY <1>2, <1>3, AsksTail
<1>5. PICK s : s = [sess[c] EXCEPT !.left = sess[c].left - 1]
  OBVIOUS
<1>6. /\ s \in Session /\ s.st = "collect" /\ s.id = sess[c].id /\ s.left = f.count /\ s.out = sess[c].out
      /\ f.count \in Nat
  BY <1>2, <1>3, <1>5 DEF Session
<1>7. /\ sess' = [sess EXCEPT ![c] = s] /\ up' = [up EXCEPT ![c] = Tail(up[c])]
      /\ UNCHANGED <<client, serverUp, executed, down, alive>>
  BY <1>3, <1>5 DEF ReadAttachment
<1> QED
  BY <1>2, <1>3, <1>4, <1>6, <1>7, SessionReads

LEMMA SessionsTyped ==
  /\ NoSession \in Session /\ NoSession.st = "none" /\ NoSession.out = <<>>
  /\ Reading \in Session /\ Reading.st = "read" /\ Reading.out = <<>>
<1>1. <<>> \in Seq(Frame) /\ 0 \in Call \cup {0} /\ 0 \in Nat
  OBVIOUS
<1>2. NoSession \in Session /\ NoSession.st = "none" /\ NoSession.out = <<>>
  BY <1>1 DEF NoSession, Session
<1>3. Reading \in Session /\ Reading.st = "read" /\ Reading.out = <<>>
  BY <1>2 DEF Reading, Session
<1> QED
  BY <1>2, <1>3

LEMMA EndSessionKeeps ==
  ASSUME IInv, NEW c \in Conn, EndSession(c)
  PROVE  IInv'
<1>1. TypeOK
  BY DEF IInv
<1>2. up[c] = <<>> /\ ~alive[c] /\ sess[c].st \in {"read", "collect"}
  BY DEF EndSession
<1>3. up' = [up EXCEPT ![c] = <<>>]
  BY <1>1, <1>2 DEF EndSession, TypeOK
<1>4. <<>> \in Seq(Frame) /\ 0 \in Nat
  OBVIOUS
<1>5. Flows(0, <<>>) /\ Asks(<<>>) = {} /\ Rising(<<>>)
  BY FlowsEmpty, AsksEmpty
<1>6. sess' = [sess EXCEPT ![c] = NoSession] /\ UNCHANGED <<client, serverUp, executed, down, alive>>
  BY DEF EndSession
<1> QED
  BY <1>2, <1>3, <1>4, <1>5, <1>6, SessionsTyped, SessionReads

LEMMA CallsMade ==
  ASSUME TypeOK
  PROVE  1..idcnt \subseteq Call /\ idcnt \in Nat /\ Call \subseteq Nat \ {0}
  BY BoundAssumption DEF TypeOK, Call

\* The client takes the next frame and knows m of its message.
LEMMA ClientTakes ==
  ASSUME IInv, ws = "open", down[conn] # <<>>, Taken,
         NEW m \in [id : Call \cup {0}, left : Nat, stale : BOOLEAN],
         (m.left = 0 /\ Finish(m)) \/ (m.left > 0 /\ Keep(m)),
         m.id \in Done \cup {0}, ~m.stale,
         Flows(m.left, Tail(down[conn])),
         alive[conn] => Leaves(m.left, Tail(down[conn])) = Owes(conn),
         UNCHANGED <<conn, ws, idcnt, tosend, up, alive, server>>
  PROVE  IInv'
<1>1. TypeOK /\ Links /\ Requests /\ Answers /\ InLine /\ Ended /\ InOrder
  BY DEF IInv
<1>2. /\ conn' = conn /\ ws' = ws /\ idcnt' = idcnt /\ tosend' = tosend /\ up' = up /\ alive' = alive
      /\ sess' = sess /\ serverUp' = serverUp /\ executed' = executed
  BY DEF server
<1>3. conn \in Conn /\ 1 - conn \in Conn
  BY <1>1 DEF TypeOK, Conn
<1>4. PICK t \in Seq(Frame) : /\ t = Tail(down[conn]) /\ Len(t) = Len(down[conn]) - 1
                              /\ \A i \in 1..Len(t) : t[i] = down[conn][i + 1]
  <2>1. down[conn] \in Seq(Frame)
    BY <1>1, <1>3 DEF TypeOK
  <2> QED
    BY <2>1, HeadTailProperties
<1>5. /\ down' \in [Conn -> Seq(Frame)] /\ down'[conn] = t
      /\ \A d \in Conn \ {conn} : down'[d] = down[d]
  BY <1>1, <1>3, <1>4 DEF TypeOK, Taken
<1>6. /\ cur' \in [id : Call \cup {0}, left : Nat, stale : BOOLEAN]
      /\ cur'.left = m.left /\ ~cur'.stale /\ cur'.id \in Done \cup {0}
  <2>1. NoMessage \in [id : Call \cup {0}, left : Nat, stale : BOOLEAN] /\ NoMessage.left = 0 /\ ~NoMessage.stale /\ NoMessage.id = 0
    BY DEF NoMessage
  <2> QED
    BY <2>1 DEF Finish, Keep
<1>7. /\ outcome' \in [Call -> {"none", "done", "rejected"}]
      /\ responseMap' = {x \in 1..idcnt : outcome'[x] = "none"}
      /\ \A x \in Call : \/ outcome'[x] = outcome[x]
                         \/ x = m.id /\ x \in responseMap /\ outcome[x] = "none" /\ outcome'[x] = "done"
  <2>1. CASE Finish(m) /\ m.id \in responseMap
    <3>1. outcome' = [outcome EXCEPT ![m.id] = "done"] /\ responseMap' = responseMap \ {m.id}
      BY <2>1 DEF Finish
    <3>2. m.id \in 1..idcnt /\ outcome[m.id] = "none" /\ m.id \in Call /\ 1..idcnt \subseteq Call
      BY <1>1, <2>1, CallsMade DEF TypeOK
    <3>3. /\ outcome' \in [Call -> {"none", "done", "rejected"}] /\ outcome'[m.id] = "done"
          /\ \A x \in Call \ {m.id} : outcome'[x] = outcome[x]
      BY <1>1, <3>1, <3>2 DEF TypeOK
    <3> QED
      BY <1>1, <2>1, <3>1, <3>2, <3>3 DEF TypeOK
  <2>2. CASE (Finish(m) /\ m.id \notin responseMap) \/ Keep(m)
    BY <1>1, <2>2 DEF Finish, Keep, TypeOK
  <2> QED
    BY <2>1, <2>2
<1>8. TypeOK'
  BY <1>1, <1>2, <1>5, <1>6, <1>7 DEF TypeOK
<1>9. Links'
  BY <1>1, <1>2 DEF Links
<1>10. Requests'
  BY <1>1, <1>2 DEF Requests, Due
<1>11. Answers'
  <2>1. \A d \in Conn : Owes(d)' = Owes(d)
    BY <1>2 DEF Owes, MidMessage
  <2>2. Expected' = m.left
    BY <1>6 DEF Expected
  <2> QED
    BY <1>1, <1>2, <1>3, <1>4, <1>5, <1>6, <2>1, <2>2 DEF Answers
<1>12. \A d \in Conn : Waiting(d)' = Waiting(d)
  BY <1>2 DEF Waiting
<1>13. Done' = Done
  BY <1>2 DEF Done
<1>14. InLine'
  BY <1>1, <1>2, <1>3, <1>12, <1>13 DEF InLine
<1>15. Ended'
  <2>1. \A d \in Conn : \A i \in 1..Len(down'[d]) : down'[d][i].id \in Done \cup {0}
    <3>1. Len(down[conn]) \in Nat
      BY <1>1, <1>3 DEF TypeOK
    <3>2. \A i \in 1..Len(t) : i + 1 \in 1..Len(down[conn])
      BY <1>4, <3>1
    <3>3. \A i \in 1..Len(down[conn]) : down[conn][i].id \in Done \cup {0}
      BY <1>1, <1>3 DEF Ended
    <3>4. \A i \in 1..Len(t) : t[i].id \in Done \cup {0}
      BY <1>4, <3>2, <3>3
    <3> QED
      BY <1>1, <1>5, <3>4 DEF Ended
  <2>2. \A x \in Call : (outcome'[x] = "done" => x \in Done) /\ (x > idcnt => outcome'[x] = "none")
    <3>1. 1..idcnt \subseteq Nat /\ \A x \in responseMap : x \in 1..idcnt /\ ~(x > idcnt) /\ x # 0
      BY <1>1 DEF TypeOK
    <3> QED
      BY <1>1, <1>7, <3>1 DEF Ended
  <2>3. \A x \in Waiting(1 - conn) : outcome'[x] = "rejected"
    <3>1. Waiting(1 - conn) \subseteq Call
      BY <1>1, <1>3, CallsMade DEF InLine
    <3> QED
      BY <1>1, <1>7, <3>1 DEF Ended
  <2> QED
    BY <1>1, <1>2, <1>3, <1>6, <1>12, <1>13, <2>1, <2>2, <2>3 DEF Ended
<1>16. InOrder'
  <2>1. \A i \in DOMAIN executed : executed[i] \in Call
    BY <1>1 DEF TypeOK
  <2> QED
    BY <1>1, <1>2, <1>7, <2>1 DEF InOrder
<1> QED
  BY <1>8, <1>9, <1>10, <1>11, <1>14, <1>15, <1>16 DEF IInv

LEMMA ReceiveTextKeeps ==
  ASSUME IInv, ReceiveText
  PROVE  IInv'
<1>1. TypeOK /\ Answers /\ Ended
  BY DEF IInv
<1>2. /\ down[conn] \in Seq(Frame) /\ down[conn] # <<>> /\ ws = "open" /\ conn \in Conn
      /\ Flows(0, down[conn]) /\ (alive[conn] => Leaves(0, down[conn]) = Owes(conn))
  BY <1>1 DEF ReceiveText, TypeOK, Answers, Expected
<1>3. PICK f \in Frame : /\ f = Head(down[conn]) /\ f.count \in Nat /\ f.id \in Call \cup {0}
                         /\ Flows(f.count, Tail(down[conn]))
                         /\ Leaves(f.count, Tail(down[conn])) = Leaves(0, down[conn])
  BY <1>2, FlowsTail, FrameFields
<1>4. f.id \in Done \cup {0}
  <2>1. 1 \in 1..Len(down[conn]) /\ f = down[conn][1]
    BY <1>2, <1>3, HeadTailProperties
  <2> QED
    BY <1>1, <1>2, <2>1 DEF Ended
<1>5. PICK m \in [id : Call \cup {0}, left : Nat, stale : BOOLEAN] :
        m = [id |-> f.id, left |-> f.count, stale |-> FALSE]
  BY <1>3
<1>6. (m.left = 0 /\ Finish(m)) \/ (m.left > 0 /\ Keep(m))
  BY <1>3, <1>5 DEF ReceiveText
<1>7. Taken /\ UNCHANGED <<conn, ws, idcnt, tosend, up, alive, server>>
  BY DEF ReceiveText
<1> QED
  BY <1>2, <1>3, <1>4, <1>5, <1>6, <1>7, ClientTakes

LEMMA ReceiveBinaryKeeps ==
  ASSUME IInv, ReceiveBinary
  PROVE  IInv'
<1>1. TypeOK /\ Answers /\ Ended
  BY DEF IInv
<1>2. /\ down[conn] \in Seq(Frame) /\ down[conn] # <<>> /\ ws = "open" /\ conn \in Conn
      /\ Expected \in Nat /\ Flows(Expected, down[conn])
      /\ (alive[conn] => Leaves(Expected, down[conn]) = Owes(conn))
      /\ Head(down[conn]).type = "binary"
  BY <1>1 DEF ReceiveBinary, TypeOK, Answers, Expected
<1>3. PICK f \in Frame : /\ f = Head(down[conn]) /\ f.count = Expected - 1 /\ Expected # 0
                         /\ Flows(f.count, Tail(down[conn]))
                         /\ Leaves(f.count, Tail(down[conn])) = Leaves(Expected, down[conn])
  <2>1. Expected # 0 /\ Head(down[conn]).count = Expected - 1
    BY <1>2, FlowsTail DEF Fits
  <2> QED
    BY <1>2, <2>1, FlowsTail
<1>4. ~cur.stale /\ Expected = cur.left
  BY <1>1, <1>3 DEF Expected, TypeOK
<1>5. PICK m \in [id : Call \cup {0}, left : Nat, stale : BOOLEAN] :
        m = [cur EXCEPT !.left = cur.left - 1]
  <2>1. cur.left - 1 \in Nat
    BY <1>2, <1>3, <1>4
  <2> QED
    BY <1>1, <2>1 DEF TypeOK
<1>6. m.left = f.count /\ m.id \in Done \cup {0} /\ ~m.stale
  BY <1>1, <1>3, <1>4, <1>5 DEF TypeOK, Ended
<1>7. (m.left = 0 /\ Finish(m)) \/ (m.left > 0 /\ Keep(m))
  <2>1. m.left \in Nat
    OBVIOUS
  <2>2. IF m.left = 0 THEN Finish(m) ELSE Keep(m)
    BY <1>5 DEF ReceiveBinary
  <2> QED
    BY <2>1, <2>2
<1>8. Taken /\ UNCHANGED <<conn, ws, idcnt, tosend, up, alive, server>>
  BY DEF ReceiveBinary
<1> QED
  BY <1>2, <1>3, <1>5, <1>6, <1>7, <1>8, ClientTakes

\* What the steps that follow have in common: an invariant stays while what it
\* speaks of does, or shrinks.
LEMMA LineShrinks ==
  ASSUME TypeOK, InLine, UNCHANGED <<conn, idcnt, tosend, executed>>,
         \A d \in Conn : Waiting(d)' \subseteq Waiting(d),
         \A d \in Conn : Rising(up'[d]) /\ (sess'[d].st = "collect" => Below({sess'[d].id}, Asks(up'[d])))
  PROVE  InLine'
<1>1. conn \in Conn /\ 1 - conn \in Conn
  BY DEF TypeOK, Conn
<1>2. Done' = Done
  BY DEF Done
<1>3. \A d \in Conn : /\ Waiting(d)' \subseteq 1..idcnt /\ Below(Waiting(d)', Asks(tosend))
                      /\ Waiting(d)' \cap Done = {}
  BY DEF InLine, Below
<1>4. Below(Waiting(1 - conn)', Waiting(conn)')
  BY <1>1 DEF InLine, Below
<1>5. Below(Done, Waiting(conn)')
  BY <1>1 DEF InLine, Below
<1> QED
  BY <1>2, <1>3, <1>4, <1>5 DEF InLine

LEMMA EndedStays ==
  ASSUME TypeOK, Ended, UNCHANGED <<conn, idcnt, executed, cur, outcome>>, ws' = "closed" => ws = "closed",
         \A d \in Conn : Waiting(d)' \subseteq Waiting(d),
         \A d \in Conn : \A i \in 1..Len(down'[d]) : down'[d][i].id \in Done \cup {0},
         \A d \in Conn : \A i \in 1..Len(sess'[d].out) : sess'[d].out[i].id \in Done \cup {0}
  PROVE  Ended'
<1>1. conn \in Conn /\ 1 - conn \in Conn
  BY DEF TypeOK, Conn
<1>2. Done' = Done
  BY DEF Done
<1>3. \A x \in Waiting(1 - conn)' : outcome[x] = "rejected"
  BY <1>1 DEF Ended
<1>4. ws' = "closed" => \A x \in Waiting(conn)' : outcome[x] = "rejected"
  BY <1>1 DEF Ended
<1> QED
  BY <1>2, <1>3, <1>4 DEF Ended

LEMMA ExecuteKeeps ==
  ASSUME IInv, NEW c \in Conn, NEW n \in ReplyAtt, Execute(c, n)
  PROVE  IInv'
<1>1. TypeOK /\ Links /\ Requests /\ Answers /\ InLine /\ Ended /\ InOrder
  BY DEF IInv
<1>2. /\ conn' = conn /\ ws' = ws /\ idcnt' = idcnt /\ tosend' = tosend /\ responseMap' = responseMap
      /\ cur' = cur /\ outcome' = outcome /\ serverUp' = serverUp /\ up' = up
      /\ down' = down /\ alive' = alive
  BY DEF Execute, client
<1>3. conn \in Conn /\ 1 - conn \in Conn /\ (c = conn \/ c = 1 - conn)
  BY <1>1 DEF TypeOK, Conn
<1>4. n \in Nat
  BY BoundAssumption
<1>5. PICK x \in Call : /\ x = sess[c].id /\ x \in 1..idcnt /\ x \notin Done /\ Below({x}, Asks(up[c]))
                        /\ Waiting(c) = {x} \cup Asks(up[c]) /\ Below({x}, Asks(tosend))
  <2>1. sess[c].st = "collect"
    BY DEF Execute
  <2>2. Waiting(c) = {sess[c].id} \cup Asks(up[c])
    BY <2>1 DEF Waiting
  <2> QED
    BY <1>1, <2>1, <2>2, CallsMade DEF InLine, Below
<1>6. PICK m \in Seq(Frame) : /\ m = Message(x, n) /\ m # <<>> /\ Len(m) = n + 1 /\ m[1].type = "text"
                              /\ Flows(0, m) /\ Leaves(0, m) = 0
                              /\ \A i \in 1..n + 1 : m[i].id = x
  BY <1>4, MessageFlows
<1>7. PICK s \in Session : s = [sess[c] EXCEPT !.st = "reply", !.out = m] /\ s.st = "reply" /\ s.out = m
  <2>1. sess[c] \in Session
    BY <1>1 DEF TypeOK
  <2>2. [sess[c] EXCEPT !.st = "reply", !.out = m] \in Session
    BY <2>1 DEF Session
  <2> QED
    BY <2>1, <2>2 DEF Session
<1>8. /\ sess' = [sess EXCEPT ![c] = s] /\ sess' \in [Conn -> Session] /\ sess'[c] = s
      /\ \A d \in Conn \ {c} : sess'[d] = sess[d]
  <2>1. sess' = [sess EXCEPT ![c] = s]
    BY <1>5, <1>6, <1>7 DEF Execute
  <2> QED
    BY <1>1, <2>1 DEF TypeOK
<1>9. /\ executed' \in Seq(Call) /\ Len(executed') = Len(executed) + 1 /\ Len(executed) \in Nat
      /\ executed'[Len(executed) + 1] = x /\ \A i \in 1..Len(executed) : executed'[i] = executed[i]
      /\ DOMAIN executed = 1..Len(executed) /\ DOMAIN executed' = 1..Len(executed) + 1
  <2>1. executed' = Append(executed, x)
    BY <1>5 DEF Execute
  <2>2. executed \in Seq(Call)
    BY <1>1 DEF TypeOK
  <2>3. /\ executed' \in Seq(Call) /\ Len(executed') = Len(executed) + 1
        /\ executed'[Len(executed) + 1] = x /\ \A i \in 1..Len(executed) : executed'[i] = executed[i]
    BY <2>1, <2>2, AppendProperties
  <2> QED
    BY <2>2, <2>3
<1>10. Done' = Done \cup {x}
  <2>1. \A i \in 1..Len(executed) + 1 : i \in 1..Len(executed) \/ i = Len(executed) + 1
    BY <1>9
  <2>2. \A i \in 1..Len(executed) : i \in 1..Len(executed) + 1
    BY <1>9
  <2>3. Len(executed) + 1 \in 1..Len(executed) + 1
    BY <1>9
  <2> QED
    BY <1>9, <2>1, <2>2, <2>3 DEF Done
<1>11. TypeOK'
  BY <1>1, <1>2, <1>8, <1>9 DEF TypeOK
<1>12. Links'
  <2>1. sess[c].st = "collect"
    BY DEF Execute
  <2> QED
    BY <1>1, <1>2, <1>3, <1>7, <1>8, <2>1 DEF Links
<1>13. Requests'
  <2>1. \A d \in Conn : Due(d)' = Due(d)
    BY <1>7, <1>8 DEF Due, Execute
  <2> QED
    BY <1>1, <1>2, <2>1 DEF Requests
<1>14. Answers'
  <2>1. Owes(c) = 0 /\ Owes(c)' = 0
    <3>1. Head(m) = m[1]
      BY <1>6
    <3>2. Owes(c) = 0
      BY DEF Owes, MidMessage, Execute
    <3>3. sess'[c].out = m /\ Head(sess'[c].out).type = "text"
      BY <1>6, <1>7, <1>8, <3>1
    <3>4. Owes(c)' = 0
      BY <3>3 DEF Owes, MidMessage
    <3> QED
      BY <3>2, <3>4
  <2>2. \A d \in Conn : d # c => Owes(d)' = Owes(d)
    BY <1>8 DEF Owes, MidMessage
  <2>3. Owes(conn)' = Owes(conn)
    BY <1>2, <1>3, <2>1, <2>2
  <2>4. \A d \in Conn : sess'[d].st = "reply" =>
          sess'[d].out # <<>> /\ Flows(Owes(d)', sess'[d].out) /\ Leaves(Owes(d)', sess'[d].out) = 0
    BY <1>1, <1>6, <1>7, <1>8, <2>1, <2>2 DEF Answers
  <2>5. Expected' = Expected
    BY <1>2 DEF Expected
  <2> QED
    BY <1>1, <1>2, <2>3, <2>4, <2>5 DEF Answers
<1>15. Waiting(c)' = Asks(up[c]) /\ \A d \in Conn \ {c} : Waiting(d)' = Waiting(d)
  BY <1>2, <1>7, <1>8 DEF Waiting
<1>16. Waiting(1 - conn) \subseteq Nat /\ Waiting(conn) \subseteq Nat /\ Asks(tosend) \subseteq Nat /\ Done \subseteq Nat
  <2>1. 1..idcnt \subseteq Nat
    BY <1>1, CallsMade
  <2> QED
    BY <1>1, <1>3, <2>1 DEF InLine, Ended
<1>17. InLine'
  <2>1. \A d \in Conn : /\ Rising(up'[d]) /\ Waiting(d)' \subseteq 1..idcnt
                        /\ sess'[d].st = "collect" => Below({sess'[d].id}, Asks(up'[d]))
                        /\ Below(Waiting(d)', Asks(tosend))
    BY <1>1, <1>2, <1>5, <1>7, <1>8, <1>15 DEF InLine, Below
  <2>2. \A d \in Conn : Waiting(d)' \cap Done = {}
    BY <1>1, <1>5, <1>15 DEF InLine
  <2>3. \A d \in Conn : x \notin Waiting(d)'
    <3>1. x \notin Waiting(c)'
      BY <1>5, <1>15, <1>16, <1>3 DEF Below
    <3>2. \A d \in Conn \ {c} : x \notin Waiting(d)
      <4>1. x \in Waiting(c)
        BY <1>5
      <4>2. \A d \in Conn \ {c} : (c = conn /\ d = 1 - conn) \/ (c = 1 - conn /\ d = conn)
        BY <1>1 DEF TypeOK, Conn
      <4> QED
        BY <1>1, <1>16, <4>1, <4>2 DEF InLine, Below
    <3> QED
      BY <1>15, <3>1, <3>2
  <2>4. Below(Waiting(1 - conn)', Waiting(conn)')
    BY <1>1, <1>2, <1>3, <1>5, <1>15 DEF InLine, Below
  <2>5. Below(Done, Waiting(conn)') /\ Below(Done, Asks(tosend))
    BY <1>1, <1>2, <1>3, <1>5, <1>15 DEF InLine, Below
  <2>6. Below({x}, Waiting(conn)') /\ Below({x}, Asks(tosend))
    <3>1. CASE c = conn
      BY <1>2, <1>5, <1>15, <3>1 DEF Below
    <3>2. CASE c = 1 - conn /\ c # conn
      <4>1. Waiting(conn)' = Waiting(conn)
        BY <1>2, <1>3, <1>15, <3>2
      <4>2. x \in Waiting(1 - conn)
        BY <1>5, <3>2
      <4>3. \A y \in Waiting(conn) : x < y
        BY <1>1, <4>2 DEF InLine, Below
      <4> QED
        BY <1>5, <4>1, <4>3 DEF Below
    <3> QED
      BY <1>3, <1>5, <3>1, <3>2
  <2>7. Below(Done', Waiting(conn)') /\ Below(Done', Asks(tosend))
    BY <1>10, <2>5, <2>6 DEF Below
  <2>8. \A d \in Conn : Waiting(d)' \cap Done' = {}
    BY <1>10, <2>2, <2>3
  <2> QED
    BY <1>1, <1>2, <2>1, <2>4, <2>7, <2>8 DEF InLine
<1>18. Ended'
  <2>1. \A i \in 1..Len(s.out) : s.out[i].id \in Done' \cup {0}
    BY <1>6, <1>7, <1>10
  <2>2. \A d \in Conn : \A i \in 1..Len(sess'[d].out) : sess'[d].out[i].id \in Done' \cup {0}
    BY <1>1, <1>8, <1>10, <2>1 DEF Ended
  <2>3. \A d \in Conn : \A i \in 1..Len(down[d]) : down[d][i].id \in Done' \cup {0}
    BY <1>1, <1>10 DEF Ended
  <2>4. \A d \in Conn : Waiting(d)' \subseteq Waiting(d)
    BY <1>5, <1>15
  <2>5. \A y \in Waiting(1 - conn)' : outcome[y] = "rejected"
    BY <1>1, <1>2, <1>3, <2>4 DEF Ended
  <2>6. ws = "closed" => \A y \in Waiting(conn)' : outcome[y] = "rejected"
    BY <1>1, <1>2, <1>3, <2>4 DEF Ended
  <2>7. Done' \subseteq 1..idcnt /\ cur.id \in Done' \cup {0} /\ \A y \in Call : outcome[y] = "done" => y \in Done'
    BY <1>1, <1>5, <1>10 DEF Ended
  <2> QED
    BY <1>1, <1>2, <2>2, <2>3, <2>5, <2>6, <2>7 DEF Ended
<1>19. InOrder'
  <2> SUFFICES ASSUME NEW i \in DOMAIN executed', NEW j \in DOMAIN executed', i < j
               PROVE  /\ executed'[i] # executed'[j]
                      /\ executed'[i] > executed'[j] => outcome[executed'[j]] = "rejected"
    BY <1>2 DEF InOrder
  <2>1. CASE j \in 1..Len(executed)
    BY <1>1, <1>9, <2>1 DEF InOrder
  <2>2. CASE j = Len(executed) + 1
    <3>1. i \in 1..Len(executed) /\ executed'[i] = executed[i] /\ executed[i] \in Done /\ executed'[j] = x
      BY <1>9, <2>2 DEF Done
    <3>2. CASE c = conn
      <4>1. executed[i] < x
        BY <1>1, <1>5, <3>1, <3>2 DEF InLine, Below
      <4> QED
        <5>1. x \in Nat /\ executed[i] \in Nat
          BY <1>1, <1>5, <1>16, <3>1, CallsMade
        <5>2. executed[i] # x /\ ~(executed[i] > x)
          BY <4>1, <5>1
        <5> QED
          BY <3>1, <5>2
    <3>3. CASE c = 1 - conn
      <4>1. outcome[x] = "rejected"
        BY <1>1, <1>5, <3>3 DEF Ended
      <4> QED
        BY <1>5, <3>1, <4>1
    <3> QED
      BY <1>3, <3>2, <3>3
  <2> QED
    BY <1>9, <2>1, <2>2
<1> QED
  BY <1>11, <1>12, <1>13, <1>14, <1>17, <1>18, <1>19 DEF IInv

LEMMA SendFrameKeeps ==
  ASSUME IInv, NEW c \in Conn, SendFrame(c)
  PROVE  IInv'
<1>1. TypeOK /\ Links /\ Requests /\ Answers /\ InLine /\ Ended /\ InOrder
  BY DEF IInv
<1>2. /\ conn' = conn /\ ws' = ws /\ idcnt' = idcnt /\ tosend' = tosend /\ responseMap' = responseMap
      /\ cur' = cur /\ outcome' = outcome /\ serverUp' = serverUp /\ executed' = executed /\ up' = up
      /\ alive' = alive
  BY DEF SendFrame, client
<1>3. conn \in Conn /\ 1 - conn \in Conn /\ (alive[c] => c = conn /\ ws = "open")
  BY <1>1 DEF TypeOK, Conn, Links
<1>4. PICK o \in Seq(Frame) : /\ o = sess[c].out /\ o # <<>> /\ Flows(Owes(c), o) /\ Leaves(Owes(c), o) = 0
                              /\ sess[c].st = "reply" /\ sess[c] \in Session
  BY <1>1 DEF SendFrame, TypeOK, Answers, Session
<1>5. Owes(c) \in Nat
  <2>1. Head(o) \in Frame
    BY <1>4, HeadTailProperties
  <2> QED
    BY <1>4, <2>1, FrameFields DEF Owes
<1>6. PICK f \in Frame : /\ f = Head(o) /\ f.count \in Nat /\ Fits(f, Owes(c)) /\ Tail(o) \in Seq(Frame)
                         /\ Flows(f.count, Tail(o)) /\ Leaves(f.count, Tail(o)) = 0
                         /\ f.id \in Done \cup {0}
  <2>1. Head(o) = o[1] /\ 1 \in 1..Len(o)
    BY <1>4, HeadTailProperties
  <2>2. Head(o).id \in Done \cup {0}
    BY <1>1, <1>4, <2>1 DEF Ended
  <2> QED
    BY <1>4, <1>5, <2>2, FlowsTail, FrameFields
<1>7. PICK s \in Session :
        /\ sess' = [sess EXCEPT ![c] = s]
        /\ (s.st = "reply" /\ s.out = Tail(o) /\ Len(o) > 1 /\ alive[c]) \/ (s = Reading /\ (Len(o) = 1 \/ ~alive[c]))
        /\ s.st # "collect" /\ s.st # "none"
  <2>1. Len(o) \in Nat /\ Len(o) # 0
    BY <1>4
  <2>2. CASE Len(o) > 1 /\ alive[c]
    <3>1. PICK s : s = [sess[c] EXCEPT !.out = Tail(o)]
      OBVIOUS
    <3>2. s \in Session /\ s.st = "reply" /\ s.out = Tail(o)
      BY <1>4, <1>6, <3>1 DEF Session
    <3>3. sess' = [sess EXCEPT ![c] = s]
      BY <1>4, <2>2, <3>1 DEF SendFrame
    <3> QED
      BY <2>2, <3>2, <3>3
  <2>3. CASE ~(Len(o) > 1 /\ alive[c])
    <3>1. sess' = [sess EXCEPT ![c] = Reading]
      BY <1>4, <2>3 DEF SendFrame
    <3>2. Len(o) = 1 \/ ~alive[c]
      <4>1. PICK n \in Nat \ {0} : n = Len(o)
        BY <2>1
      <4>2. n = 1 \/ n > 1
        BY <4>1
      <4> QED
        BY <2>3, <4>1, <4>2
    <3> QED
      BY <3>1, <3>2, SessionsTyped
  <2> QED
    BY <2>2, <2>3
<1>8. /\ sess' \in [Conn -> Session] /\ sess'[c] = s /\ \A d \in Conn \ {c} : sess'[d] = sess[d]
  BY <1>1, <1>7 DEF TypeOK
<1>9. PICK g \in Seq(Frame) : /\ down' = [down EXCEPT ![c] = g]
                              /\ g = IF alive[c] THEN Append(down[c], f) ELSE down[c]
  <2>1. down[c] \in Seq(Frame)
    BY <1>1 DEF TypeOK
  <2>2. PICK g : g = IF alive[c] THEN Append(down[c], f) ELSE down[c]
    OBVIOUS
  <2>3. g \in Seq(Frame)
    BY <2>1, <2>2, AppendProperties
  <2>4. down' = [down EXCEPT ![c] = g]
    <3>1. CASE alive[c]
      BY <1>4, <1>6, <2>2, <3>1 DEF SendFrame
    <3>2. CASE ~alive[c]
      BY <1>1, <2>2, <3>2 DEF SendFrame, TypeOK
    <3> QED
      BY <3>1, <3>2
  <2> QED
    BY <2>2, <2>3, <2>4
<1>10. /\ down' \in [Conn -> Seq(Frame)] /\ down'[c] = g /\ \A d \in Conn \ {c} : down'[d] = down[d]
  BY <1>1, <1>9 DEF TypeOK
<1>11. TypeOK'
  BY <1>1, <1>2, <1>8, <1>10 DEF TypeOK
<1>12. Links'
  BY <1>1, <1>2, <1>3, <1>4, <1>7, <1>8 DEF Links
<1>13. Requests'
  <2>1. \A d \in Conn : Due(d)' = Due(d)
    BY <1>4, <1>7, <1>8 DEF Due
  <2> QED
    BY <1>1, <1>2, <2>1 DEF Requests
<1>14. Answers'
  <2>1. alive[c] => Owes(c)' = f.count
    <3>1. CASE s.st = "reply" /\ s.out = Tail(o) /\ Len(o) > 1
      <4>1. Tail(o) # <<>>
        <5>1. Len(Tail(o)) = Len(o) - 1 /\ Len(o) \in Nat
          BY <1>4, HeadTailProperties
        <5>2. Len(Tail(o)) # 0
          BY <3>1, <5>1
        <5> QED
          BY <1>6, <5>2, EmptySeq
      <4>2. Fits(Head(Tail(o)), f.count) /\ Head(Tail(o)) \in Frame
        BY <1>6, <4>1, FlowsTail
      <4>3. CASE f.count = 0
        BY <1>8, <3>1, <4>2, <4>3 DEF Owes, MidMessage, Fits
      <4>4. CASE f.count # 0
        <5>1. PICK h : h = Head(Tail(o))
          OBVIOUS
        <5>2. h.type = "binary" /\ h.count = f.count - 1
          BY <4>2, <4>4, <5>1 DEF Fits
        <5>3. h.count + 1 = f.count
          BY <1>6, <5>2
        <5> QED
          BY <1>8, <3>1, <5>1, <5>2, <5>3 DEF Owes, MidMessage
      <4> QED
        BY <4>3, <4>4
    <3>2. CASE s = Reading /\ Len(o) = 1
      <4>1. Tail(o) = <<>>
        <5>1. Len(Tail(o)) = 0
          BY <1>4, <3>2, HeadTailProperties
        <5> QED
          BY <1>6, <5>1, EmptySeq
      <4>2. f.count = 0
        BY <1>6, <4>1 DEF Leaves
      <4>3. Reading.st = "read"
        BY SessionsTyped
      <4> QED
        BY <1>8, <3>2, <4>2, <4>3 DEF Owes, MidMessage
    <3> QED
      BY <1>7, <3>1, <3>2
  <2>2. \A d \in Conn : d # c => Owes(d)' = Owes(d)
    BY <1>8 DEF Owes, MidMessage
  <2>3. \A d \in Conn : sess'[d].st = "reply" =>
          sess'[d].out # <<>> /\ Flows(Owes(d)', sess'[d].out) /\ Leaves(Owes(d)', sess'[d].out) = 0
    <3> SUFFICES ASSUME NEW d \in Conn, sess'[d].st = "reply"
                 PROVE  sess'[d].out # <<>> /\ Flows(Owes(d)', sess'[d].out) /\ Leaves(Owes(d)', sess'[d].out) = 0
      OBVIOUS
    <3>1. CASE d = c
      <4>1. s.st = "reply" /\ s.out = Tail(o) /\ Len(o) > 1 /\ alive[c]
        BY <1>7, <1>8, <3>1, SessionsTyped
      <4>2. Tail(o) # <<>>
        <5>1. Len(Tail(o)) = Len(o) - 1 /\ Len(o) \in Nat
          BY <1>4, HeadTailProperties
        <5>2. Len(Tail(o)) # 0
          BY <4>1, <5>1
        <5> QED
          BY <1>6, <5>2, EmptySeq
      <4> QED
        BY <1>6, <1>8, <2>1, <3>1, <4>1, <4>2
    <3>2. CASE d # c
      BY <1>1, <1>8, <2>2, <3>2 DEF Answers
    <3> QED
      BY <3>1, <3>2
  <2>4. Expected' = Expected /\ Expected \in Nat
    BY <1>1, <1>2 DEF Expected, TypeOK
  <2>5. ws = "open" => Flows(Expected, down'[conn]) /\ (alive[conn] => Leaves(Expected, down'[conn]) = Owes(conn)')
    <3>1. CASE alive[c]
      <4>1. c = conn /\ Flows(Expected, down[c]) /\ Leaves(Expected, down[c]) = Owes(c) /\ down[c] \in Seq(Frame)
        BY <1>1, <1>3, <3>1 DEF Answers, TypeOK
      <4>2. Fits(f, Leaves(Expected, down[c]))
        BY <1>6, <4>1
      <4>3. Flows(Expected, Append(down[c], f)) /\ Leaves(Expected, Append(down[c], f)) = f.count
        BY <2>4, <4>1, <4>2, FlowsAppend
      <4> QED
        BY <1>2, <1>9, <1>10, <2>1, <3>1, <4>1, <4>3
    <3>2. CASE ~alive[c]
      <4>1. down' = down
        BY <3>2 DEF SendFrame
      <4>2. alive[conn] => c # conn
        BY <3>2
      <4> QED
        BY <1>1, <1>2, <1>3, <2>2, <4>1, <4>2 DEF Answers
    <3> QED
      BY <3>1, <3>2
  <2> QED
    BY <1>1, <1>2, <2>3, <2>4, <2>5 DEF Answers
<1>15. \A d \in Conn : Waiting(d)' = Waiting(d)
  <2>1. Waiting(c)' = Waiting(c)
    BY <1>2, <1>4, <1>7, <1>8 DEF Waiting
  <2>2. \A d \in Conn \ {c} : Waiting(d)' = Waiting(d)
    BY <1>2, <1>8 DEF Waiting
  <2> QED
    BY <2>1, <2>2
<1>16. InLine'
  <2>1. \A d \in Conn : Rising(up'[d]) /\ (sess'[d].st = "collect" => Below({sess'[d].id}, Asks(up'[d])))
    BY <1>1, <1>2, <1>7, <1>8 DEF InLine
  <2> QED
    BY <1>1, <1>2, <1>15, <2>1, LineShrinks
<1>17. Ended'
  <2>1. \A i \in 1..Len(g) : g[i].id \in Done \cup {0}
    <3>1. down[c] \in Seq(Frame) /\ \A i \in 1..Len(down[c]) : down[c][i].id \in Done \cup {0}
      BY <1>1 DEF TypeOK, Ended
    <3>2. CASE alive[c]
      <4>1. /\ Len(g) = Len(down[c]) + 1 /\ g[Len(down[c]) + 1] = f /\ Len(down[c]) \in Nat
            /\ \A i \in 1..Len(down[c]) : g[i] = down[c][i]
        BY <1>9, <3>1, <3>2, AppendProperties
      <4>2. \A i \in 1..Len(g) : i \in 1..Len(down[c]) \/ i = Len(down[c]) + 1
        BY <4>1
      <4> QED
        BY <1>6, <3>1, <4>1, <4>2
    <3>3. CASE ~alive[c]
      BY <1>9, <3>1, <3>3
    <3> QED
      BY <3>2, <3>3
  <2>2. \A d \in Conn : \A i \in 1..Len(down'[d]) : down'[d][i].id \in Done \cup {0}
    BY <1>1, <1>10, <2>1 DEF Ended
  <2>3. \A i \in 1..Len(s.out) : s.out[i].id \in Done \cup {0}
    <3>1. CASE s.out = Tail(o)
      <4>1. /\ Len(Tail(o)) = Len(o) - 1 /\ Len(o) \in Nat
            /\ \A i \in 1..Len(Tail(o)) : Tail(o)[i] = o[i + 1]
        BY <1>4, HeadTailProperties
      <4>2. \A i \in 1..Len(Tail(o)) : i + 1 \in 1..Len(o)
        BY <4>1
      <4>3. \A i \in 1..Len(o) : o[i].id \in Done \cup {0}
        BY <1>1, <1>4 DEF Ended
      <4> QED
        BY <3>1, <4>1, <4>2, <4>3
    <3>2. CASE s = Reading
      BY <3>2, SessionsTyped
    <3> QED
      BY <1>7, <3>1, <3>2
  <2>4. \A d \in Conn : \A i \in 1..Len(sess'[d].out) : sess'[d].out[i].id \in Done \cup {0}
    BY <1>1, <1>8, <2>3 DEF Ended
  <2> QED
    BY <1>1, <1>2, <1>15, <2>2, <2>4, EndedStays
<1>18. InOrder'
  BY <1>1, <1>2 DEF InOrder
<1> QED
  BY <1>11, <1>12, <1>13, <1>14, <1>16, <1>17, <1>18 DEF IInv

LEMMA NotifyKeeps ==
  ASSUME IInv, NEW c \in Conn, Notify(c)
  PROVE  IInv'
<1>1. TypeOK /\ Links /\ Requests /\ Answers /\ InLine /\ Ended /\ InOrder
  BY DEF IInv
<1>2. /\ conn' = conn /\ ws' = ws /\ idcnt' = idcnt /\ tosend' = tosend /\ responseMap' = responseMap
      /\ cur' = cur /\ outcome' = outcome /\ sess' = sess /\ serverUp' = serverUp /\ executed' = executed
      /\ up' = up /\ alive' = alive
  BY DEF Notify, client, server
<1>3. conn \in Conn /\ 1 - conn \in Conn /\ c = conn /\ ws = "open" /\ alive[c] /\ Owes(c) = 0
  BY <1>1 DEF TypeOK, Conn, Links, Notify, Owes
<1>4. PICK f \in Frame : f = Text(0, 0) /\ f.type = "text" /\ f.id = 0 /\ f.count = 0
  <2>1. 0 \in Call \cup {0} /\ 0 \in Nat
    OBVIOUS
  <2>2. Text(0, 0) \in Frame
    BY <2>1, FramesTyped
  <2> QED
    BY <2>2 DEF Text
<1>5. PICK g \in Seq(Frame) : /\ g = Append(down[c], f) /\ down' = [down EXCEPT ![c] = g]
                              /\ Flows(Expected, g) /\ Leaves(Expected, g) = 0
  <2>1. /\ down[c] \in Seq(Frame) /\ Expected \in Nat
        /\ Flows(Expected, down[c]) /\ Leaves(Expected, down[c]) = 0
    BY <1>1, <1>3 DEF TypeOK, Answers, Expected
  <2>2. Fits(f, Leaves(Expected, down[c]))
    BY <1>4, <2>1 DEF Fits
  <2>3. /\ Append(down[c], f) \in Seq(Frame)
        /\ Flows(Expected, Append(down[c], f)) /\ Leaves(Expected, Append(down[c], f)) = 0
    BY <1>4, <2>1, <2>2, FlowsAppend, AppendProperties
  <2> QED
    BY <1>4, <2>3 DEF Notify
<1>6. /\ down' \in [Conn -> Seq(Frame)] /\ down'[c] = g /\ \A d \in Conn \ {c} : down'[d] = down[d]
  BY <1>1, <1>5 DEF TypeOK
<1>7. TypeOK' /\ Links' /\ InOrder'
  BY <1>1, <1>2, <1>6 DEF TypeOK, Links, InOrder
<1>8. Requests'
  BY <1>1, <1>2 DEF Requests, Due
<1>9. Answers'
  <2>1. Expected' = Expected /\ \A d \in Conn : Owes(d)' = Owes(d)
    BY <1>2 DEF Expected, Owes, MidMessage
  <2> QED
    BY <1>1, <1>2, <1>3, <1>5, <1>6, <2>1 DEF Answers
<1>10. \A d \in Conn : Waiting(d)' = Waiting(d)
  BY <1>2 DEF Waiting
<1>11. InLine'
  BY <1>1, <1>2, <1>10, LineShrinks DEF InLine
<1>12. Ended'
  <2>1. down[c] \in Seq(Frame) /\ \A i \in 1..Len(down[c]) : down[c][i].id \in Done \cup {0}
    BY <1>1 DEF TypeOK, Ended
  <2>2. /\ Len(g) = Len(down[c]) + 1 /\ g[Len(down[c]) + 1] = f /\ Len(down[c]) \in Nat
        /\ \A i \in 1..Len(down[c]) : g[i] = down[c][i]
    BY <1>5, <2>1, AppendProperties
  <2>3. \A i \in 1..Len(g) : i \in 1..Len(down[c]) \/ i = Len(down[c]) + 1
    BY <2>2
  <2>4. \A i \in 1..Len(g) : g[i].id \in Done \cup {0}
    BY <1>4, <2>1, <2>2, <2>3
  <2>5. \A d \in Conn : \A i \in 1..Len(down'[d]) : down'[d][i].id \in Done \cup {0}
    BY <1>1, <1>6, <2>4 DEF Ended
  <2> QED
    BY <1>1, <1>2, <1>10, <2>5, EndedStays DEF Ended
<1> QED
  BY <1>7, <1>8, <1>9, <1>11, <1>12 DEF IInv

LEMMA BreakKeeps ==
  ASSUME IInv, Break
  PROVE  IInv'
<1>1. TypeOK /\ Links /\ Requests /\ Answers /\ InLine /\ Ended /\ InOrder
  BY DEF IInv
<1>2. /\ conn' = conn /\ ws' = ws /\ idcnt' = idcnt /\ tosend' = tosend /\ responseMap' = responseMap
      /\ cur' = cur /\ outcome' = outcome /\ sess' = sess /\ serverUp' = serverUp /\ executed' = executed
  BY DEF Break, client, server
<1>3. conn \in Conn /\ up[conn] \in Seq(Frame) /\ down[conn] \in Seq(Frame)
  BY <1>1 DEF TypeOK
<1>4. PICK i \in 0..Len(up[conn]), j \in 0..Len(down[conn]) :
        /\ up' = [up EXCEPT ![conn] = SubSeq(up[conn], 1, i)]
        /\ down' = [down EXCEPT ![conn] = SubSeq(down[conn], 1, j)]
  BY DEF Break
<1>5. PICK u \in Seq(Frame) : /\ u = SubSeq(up[conn], 1, i) /\ Flows(Due(conn), u) /\ Rising(u)
                              /\ Asks(u) \subseteq Asks(up[conn]) /\ (up[conn] = <<>> => u = <<>>)
  <2>1. Due(conn) \in Nat /\ Flows(Due(conn), up[conn]) /\ Rising(up[conn])
    BY <1>1, <1>3 DEF TypeOK, Requests, InLine, Due, Session
  <2>2. up[conn] = <<>> => SubSeq(up[conn], 1, i) = <<>>
    <3>1. up[conn] = <<>> => i = 0
      BY <1>3
    <3> QED
      BY <1>3, <3>1, SubSeqEmpty
  <2> QED
    BY <1>3, <2>1, <2>2, FlowsPrefix, AsksPrefix
<1>6. PICK g \in Seq(Frame) : /\ g = SubSeq(down[conn], 1, j) /\ (ws = "open" => Flows(Expected, g))
                              /\ \A n \in 1..Len(g) : g[n].id \in Done \cup {0}
  <2>1. Expected \in Nat /\ (ws = "open" => Flows(Expected, down[conn]))
        /\ \A n \in 1..Len(down[conn]) : down[conn][n].id \in Done \cup {0}
    BY <1>1, <1>3 DEF TypeOK, Answers, Expected, Ended
  <2>2. PICK g : g = SubSeq(down[conn], 1, j)
    OBVIOUS
  <2>3. g \in Seq(Frame) /\ Len(g) = j /\ \A n \in 1..j : g[n] = down[conn][n] /\ n \in 1..Len(down[conn])
    BY <1>3, <2>2, SubSeqProperties
  <2>4. ws = "open" => Flows(Expected, g)
    BY <1>3, <2>1, <2>2, FlowsPrefix
  <2> QED
    BY <2>1, <2>2, <2>3, <2>4
<1>7. /\ up' \in [Conn -> Seq(Frame)] /\ up'[conn] = u /\ \A d \in Conn \ {conn} : up'[d] = up[d]
      /\ down' \in [Conn -> Seq(Frame)] /\ down'[conn] = g /\ \A d \in Conn \ {conn} : down'[d] = down[d]
      /\ alive' \in [Conn -> BOOLEAN] /\ ~alive'[conn] /\ \A d \in Conn \ {conn} : alive'[d] = alive[d]
  BY <1>1, <1>3, <1>4, <1>5, <1>6 DEF TypeOK, Break
<1>8. \A d \in Conn : ~alive'[d]
  BY <1>1, <1>7 DEF Links
<1>9. TypeOK'
  BY <1>1, <1>2, <1>7 DEF TypeOK
<1>10. Links' /\ InOrder'
  <2>1. \A d \in Conn : sess[d].st = "none" => up'[d] = <<>>
    BY <1>1, <1>5, <1>7 DEF Links
  <2>2. Links'
    BY <1>1, <1>2, <1>8, <2>1 DEF Links
  <2>3. InOrder'
    BY <1>1, <1>2 DEF InOrder
  <2> QED
    BY <2>2, <2>3
<1>11. Requests'
  <2>1. \A d \in Conn : Due(d)' = Due(d)
    BY <1>2 DEF Due
  <2> QED
    BY <1>1, <1>2, <1>5, <1>7, <1>8, <2>1 DEF Requests
<1>12. Answers'
  <2>1. Expected' = Expected /\ \A d \in Conn : Owes(d)' = Owes(d)
    BY <1>2 DEF Expected, Owes, MidMessage
  <2> QED
    BY <1>1, <1>2, <1>3, <1>6, <1>7, <1>8, <2>1 DEF Answers
<1>13. \A d \in Conn : Waiting(d)' \subseteq Waiting(d)
  <2>1. Waiting(conn)' \subseteq Waiting(conn)
    BY <1>2, <1>5, <1>7 DEF Waiting
  <2>2. \A d \in Conn \ {conn} : Waiting(d)' = Waiting(d)
    BY <1>2, <1>7 DEF Waiting
  <2> QED
    BY <1>2, <2>1, <2>2
<1>14. InLine'
  <2>1. \A d \in Conn : Rising(up'[d]) /\ (sess'[d].st = "collect" => Below({sess'[d].id}, Asks(up'[d])))
    BY <1>1, <1>2, <1>3, <1>5, <1>7 DEF InLine, Below
  <2> QED
    BY <1>1, <1>2, <1>13, <2>1, LineShrinks
<1>15. Ended'
  <2>1. \A d \in Conn : \A n \in 1..Len(down'[d]) : down'[d][n].id \in Done \cup {0}
    BY <1>1, <1>6, <1>7 DEF Ended
  <2> QED
    BY <1>1, <1>2, <1>13, <2>1, EndedStays DEF Ended
<1> QED
  BY <1>9, <1>10, <1>11, <1>12, <1>14, <1>15 DEF IInv

LEMMA ServerDiesKeeps ==
  ASSUME IInv, ServerDies
  PROVE  IInv'
<1>1. TypeOK /\ Links /\ Requests /\ Answers /\ InLine /\ Ended /\ InOrder
  BY DEF IInv
<1>2. /\ conn' = conn /\ ws' = ws /\ idcnt' = idcnt /\ tosend' = tosend /\ responseMap' = responseMap
      /\ cur' = cur /\ outcome' = outcome /\ executed' = executed /\ down' = down
  BY DEF ServerDies, client
<1>3. /\ \A d \in Conn : ~alive'[d] /\ up'[d] = <<>> /\ sess'[d] = NoSession
      /\ alive' \in [Conn -> BOOLEAN] /\ up' \in [Conn -> Seq(Frame)] /\ sess' \in [Conn -> Session]
      /\ serverUp' \in BOOLEAN
  <2>1. <<>> \in Seq(Frame) /\ NoSession \in Session
    BY SessionsTyped
  <2> QED
    BY <2>1 DEF ServerDies
<1>4. TypeOK'
  BY <1>1, <1>2, <1>3 DEF TypeOK
<1>5. Links' /\ InOrder'
  BY <1>1, <1>2, <1>3, SessionsTyped DEF Links, InOrder, TypeOK
<1>6. Requests'
  <2>1. \A d \in Conn : Due(d)' = 0
    BY <1>3, SessionsTyped DEF Due
  <2>2. Flows(0, <<>>)
    BY FlowsEmpty
  <2> QED
    BY <1>1, <1>2, <1>3, <2>1, <2>2 DEF Requests
<1>7. Answers'
  <2>1. Expected' = Expected
    BY <1>2 DEF Expected
  <2>2. \A d \in Conn : sess'[d].st # "reply"
    BY <1>3, SessionsTyped
  <2>3. ~alive'[conn]
    BY <1>1, <1>3 DEF TypeOK
  <2> QED
    BY <1>1, <1>2, <2>1, <2>2, <2>3 DEF Answers
<1>8. \A d \in Conn : Waiting(d)' \subseteq Waiting(d)
  BY <1>3, SessionsTyped, AsksEmpty DEF Waiting
<1>9. InLine'
  <2>1. \A d \in Conn : Rising(up'[d]) /\ (sess'[d].st = "collect" => Below({sess'[d].id}, Asks(up'[d])))
    BY <1>3, SessionsTyped, AsksEmpty
  <2> QED
    BY <1>1, <1>2, <1>8, <2>1, LineShrinks
<1>10. Ended'
  <2>1. \A d \in Conn : \A i \in 1..Len(sess'[d].out) : sess'[d].out[i].id \in Done \cup {0}
    BY <1>3, SessionsTyped
  <2> QED
    BY <1>1, <1>2, <1>8, <2>1, EndedStays DEF Ended
<1> QED
  BY <1>4, <1>5, <1>6, <1>7, <1>9, <1>10 DEF IInv

LEMMA ServerStartsKeeps ==
  ASSUME IInv, ServerStarts
  PROVE  IInv'
<1>1. /\ conn' = conn /\ ws' = ws /\ idcnt' = idcnt /\ tosend' = tosend /\ responseMap' = responseMap
      /\ cur' = cur /\ outcome' = outcome /\ sess' = sess /\ serverUp' = TRUE /\ executed' = executed
      /\ up' = up /\ down' = down /\ alive' = alive
  BY DEF ServerStarts, client
<1>2. TypeOK /\ Links /\ Requests /\ Answers /\ InLine /\ Ended /\ InOrder
  BY DEF IInv
<1>3. TypeOK' /\ Links' /\ InOrder'
  BY <1>1, <1>2 DEF TypeOK, Links, InOrder
<1>4. Requests' /\ Answers'
  BY <1>1, <1>2 DEF Requests, Answers, Due, Owes, MidMessage, Expected
<1>5. InLine' /\ Ended'
  <2>1. Done' = Done /\ \A d \in Conn : Waiting(d)' = Waiting(d)
    BY <1>1 DEF Waiting, Done
  <2>2. InLine'
    BY <1>1, <1>2, <2>1, LineShrinks DEF InLine
  <2>3. Ended'
    BY <1>1, <1>2, <2>1, EndedStays DEF Ended
  <2> QED
    BY <2>2, <2>3
<1> QED
  BY <1>3, <1>4, <1>5 DEF IInv

\* reject_all leaves no call of the client unanswered.
LEMMA AllRejected ==
  ASSUME TypeOK, Ended, InLine, RejectAll
  PROVE  /\ outcome' \in [Call -> {"none", "done", "rejected"}]
         /\ responseMap' = {x \in 1..idcnt : outcome'[x] = "none"}
         /\ \A x \in Call : /\ outcome'[x] = "done" => x \in Done
                            /\ x > idcnt => outcome'[x] = "none"
                            /\ outcome[x] = "rejected" => outcome'[x] = "rejected"
         /\ \A d \in Conn : \A x \in Waiting(d) : outcome'[x] = "rejected"
<1>1. 1..idcnt \subseteq Call /\ idcnt \in Nat /\ Call \subseteq Nat \ {0}
  BY CallsMade
<1>2. responseMap = {x \in 1..idcnt : outcome[x] = "none"} /\ outcome \in [Call -> {"none", "done", "rejected"}]
  BY DEF TypeOK
<1>3. outcome' = [x \in Call |-> IF x \in responseMap THEN "rejected" ELSE outcome[x]]
  BY DEF RejectAll
<1>4. outcome' \in [Call -> {"none", "done", "rejected"}]
  BY <1>2, <1>3
<1>5. \A x \in 1..idcnt : outcome'[x] # "none"
  BY <1>1, <1>2, <1>3
<1>6. responseMap' = {x \in 1..idcnt : outcome'[x] = "none"}
  BY <1>5 DEF RejectAll
<1>7. \A x \in Call : /\ outcome'[x] = "done" => x \in Done
                      /\ x > idcnt => outcome'[x] = "none"
                      /\ outcome[x] = "rejected" => outcome'[x] = "rejected"
  <2>1. \A x \in Call : x > idcnt => x \notin responseMap
    BY <1>1, <1>2
  <2> QED
    BY <1>2, <1>3, <2>1 DEF Ended
<1>8. ASSUME NEW d \in Conn, NEW x \in Waiting(d) PROVE outcome'[x] = "rejected"
  <2>1. x \in 1..idcnt /\ x \notin Done
    BY DEF InLine
  <2>2. outcome'[x] \in {"none", "done", "rejected"} /\ outcome'[x] # "done" /\ outcome'[x] # "none"
    BY <1>1, <1>4, <1>5, <1>7, <2>1
  <2> QED
    BY <2>2
<1> QED
  BY <1>4, <1>6, <1>7, <1>8

LEMMA OnCloseKeeps ==
  ASSUME IInv, OnClose
  PROVE  IInv'
<1>1. TypeOK /\ Links /\ Requests /\ Answers /\ InLine /\ Ended /\ InOrder
  BY DEF IInv
<1>2. /\ conn' = conn /\ ws' = "closed" /\ idcnt' = idcnt /\ tosend' = tosend
      /\ sess' = sess /\ serverUp' = serverUp /\ executed' = executed /\ up' = up
  BY DEF OnClose, server
<1>3. conn \in Conn /\ 1 - conn \in Conn
  BY <1>1 DEF TypeOK, Conn
<1>4. /\ down' \in [Conn -> Seq(Frame)] /\ down'[conn] = <<>> /\ \A d \in Conn \ {conn} : down'[d] = down[d]
      /\ alive' \in [Conn -> BOOLEAN] /\ ~alive'[conn] /\ \A d \in Conn \ {conn} : alive'[d] = alive[d]
  BY <1>1, <1>3 DEF OnClose, TypeOK
<1>5. \A d \in Conn : ~alive'[d]
  BY <1>1, <1>4 DEF Links
<1>6. /\ cur' \in [id : Call \cup {0}, left : Nat, stale : BOOLEAN]
      /\ cur'.id = cur.id /\ cur'.left = cur.left /\ cur'.stale = (cur.left > 0)
  <2>1. PICK b \in BOOLEAN : b = (cur.left > 0)
    <3>1. CASE cur.left > 0
      BY <3>1
    <3>2. CASE ~(cur.left > 0)
      <4>1. FALSE \in BOOLEAN /\ FALSE = (cur.left > 0)
        BY <3>2
      <4> QED
        BY <4>1
    <3> QED
      BY <3>1, <3>2
  <2>2. cur' = [cur EXCEPT !.stale = b]
    BY <2>1 DEF OnClose
  <2> QED
    BY <1>1, <2>1, <2>2 DEF TypeOK
<1>7. /\ outcome' \in [Call -> {"none", "done", "rejected"}]
      /\ responseMap' = {x \in 1..idcnt : outcome'[x] = "none"}
      /\ \A x \in Call : /\ outcome'[x] = "done" => x \in Done
                         /\ x > idcnt => outcome'[x] = "none"
                         /\ outcome[x] = "rejected" => outcome'[x] = "rejected"
      /\ \A d \in Conn : \A x \in Waiting(d) : outcome'[x] = "rejected"
  BY <1>1, AllRejected DEF OnClose
<1>8. TypeOK'
  BY <1>1, <1>2, <1>4, <1>6, <1>7 DEF TypeOK
<1>9. Links'
  BY <1>1, <1>2, <1>5 DEF Links
<1>10. Requests'
  BY <1>1, <1>2, <1>5 DEF Requests, Due
<1>11. Answers'
  <2>1. \A d \in Conn : Owes(d)' = Owes(d)
    BY <1>2 DEF Owes, MidMessage
  <2> QED
    BY <1>1, <1>2, <1>6, <2>1 DEF Answers
<1>12. Done' = Done /\ \A d \in Conn : Waiting(d)' = Waiting(d)
  BY <1>2 DEF Done, Waiting
<1>13. InLine'
  BY <1>1, <1>2, <1>3, <1>12 DEF InLine
<1>14. Ended'
  <2>1. \A d \in Conn : \A i \in 1..Len(down'[d]) : down'[d][i].id \in Done \cup {0}
    <3>1. \A i \in 1..Len(down'[conn]) : FALSE
      BY <1>4
    <3> QED
      BY <1>1, <1>4, <3>1 DEF Ended
  <2>2. \A x \in Waiting(1 - conn)' : outcome'[x] = "rejected"
    BY <1>2, <1>3, <1>7, <1>12
  <2>3. \A x \in Waiting(conn)' : outcome'[x] = "rejected"
    BY <1>2, <1>3, <1>7, <1>12
  <2> QED
    BY <1>1, <1>2, <1>6, <1>7, <1>12, <2>1, <2>2, <2>3 DEF Ended
<1>15. InOrder'
  <2>1. \A i \in DOMAIN executed : executed[i] \in Call
    BY <1>1 DEF TypeOK
  <2> QED
    BY <1>1, <1>2, <1>7, <2>1 DEF InOrder
<1> QED
  BY <1>8, <1>9, <1>10, <1>11, <1>13, <1>14, <1>15 DEF IInv

LEMMA ReconnectKeeps ==
  ASSUME IInv, Reconnect
  PROVE  IInv'
<1>1. TypeOK /\ Links /\ Requests /\ Answers /\ InLine /\ Ended /\ InOrder
  BY DEF IInv
<1>2. /\ conn' = 1 - conn /\ ws = "closed" /\ ws' = "connecting" /\ sess[1 - conn].st = "none"
      /\ idcnt' = idcnt /\ tosend' = tosend /\ responseMap' = responseMap
      /\ cur' = cur /\ outcome' = outcome /\ sess' = sess /\ serverUp' = serverUp /\ executed' = executed
      /\ down' = down /\ alive' = alive
  BY DEF Reconnect, server
<1>3. conn \in Conn /\ 1 - conn \in Conn /\ 1 - (1 - conn) = conn
  BY <1>1 DEF TypeOK, Conn
<1>4. up' = up
  <2>1. up[1 - conn] = <<>>
    BY <1>1, <1>2, <1>3 DEF Links
  <2> QED
    BY <1>1, <1>2, <1>3, <2>1 DEF Reconnect, TypeOK
<1>5. TypeOK'
  BY <1>1, <1>2, <1>3, <1>4 DEF TypeOK
<1>6. Links'
  BY <1>1, <1>2, <1>3, <1>4 DEF Links
<1>7. Requests'
  BY <1>1, <1>2, <1>4 DEF Requests, Due
<1>8. Answers'
  <2>1. Expected' = Expected /\ \A d \in Conn : Owes(d)' = Owes(d)
    BY <1>2 DEF Expected, Owes, MidMessage
  <2> QED
    BY <1>1, <1>2, <2>1 DEF Answers
<1>9. Done' = Done /\ \A d \in Conn : Waiting(d)' = Waiting(d)
  BY <1>2, <1>4 DEF Done, Waiting
<1>10. Waiting(1 - conn) = {}
  <2>1. up[1 - conn] = <<>>
    BY <1>1, <1>2, <1>3 DEF Links
  <2> QED
    BY <1>2, <2>1, AsksEmpty DEF Waiting
<1>11. Waiting(conn)' = {} /\ Waiting(1 - conn)' = Waiting(conn)
  BY <1>2, <1>3, <1>9, <1>10
<1>12. InLine'
  BY <1>1, <1>2, <1>3, <1>4, <1>9, <1>11 DEF InLine, Below
<1>13. Ended'
  BY <1>1, <1>2, <1>3, <1>9, <1>11 DEF Ended
<1>14. InOrder'
  BY <1>1, <1>2 DEF InOrder
<1> QED
  BY <1>5, <1>6, <1>7, <1>8, <1>12, <1>13, <1>14 DEF IInv

LEMMA ReceiveOutOfPlaceKeeps ==
  ASSUME IInv, ReceiveOutOfPlace
  PROVE  IInv'
<1>1. TypeOK /\ Links /\ Requests /\ Answers /\ InLine /\ Ended /\ InOrder
  BY DEF IInv
<1>2. /\ conn' = conn /\ ws' = "closing" /\ idcnt' = idcnt /\ tosend' = tosend /\ responseMap' = responseMap
      /\ cur' = cur /\ outcome' = outcome /\ sess' = sess /\ serverUp' = serverUp /\ executed' = executed
      /\ up' = up
  BY DEF ReceiveOutOfPlace, server
<1>3. conn \in Conn /\ down[conn] \in Seq(Frame) /\ down[conn] # <<>>
  BY <1>1 DEF TypeOK, ReceiveOutOfPlace
<1>4. PICK t \in Seq(Frame) : /\ t = Tail(down[conn]) /\ Len(t) = Len(down[conn]) - 1 /\ Len(down[conn]) \in Nat
                              /\ \A i \in 1..Len(t) : t[i] = down[conn][i + 1]
  <2>1. Len(down[conn]) \in Nat
    BY <1>3
  <2>2. PICK t : t = Tail(down[conn])
    OBVIOUS
  <2>3. /\ t \in Seq(Frame) /\ Len(t) = Len(down[conn]) - 1
        /\ \A i \in 1..Len(t) : t[i] = down[conn][i + 1]
    BY <1>3, <2>2, HeadTailProperties
  <2> QED
    BY <2>1, <2>2, <2>3
<1>5. /\ down' \in [Conn -> Seq(Frame)] /\ down'[conn] = t /\ \A d \in Conn \ {conn} : down'[d] = down[d]
      /\ alive' \in [Conn -> BOOLEAN] /\ ~alive'[conn] /\ \A d \in Conn \ {conn} : alive'[d] = alive[d]
  BY <1>1, <1>3, <1>4 DEF ReceiveOutOfPlace, TypeOK, Taken
<1>6. \A d \in Conn : ~alive'[d]
  BY <1>1, <1>5 DEF Links
<1>7. TypeOK'
  BY <1>1, <1>2, <1>5 DEF TypeOK
<1>8. Links' /\ InOrder'
  BY <1>1, <1>2, <1>6 DEF Links, InOrder
<1>9. Requests'
  BY <1>1, <1>2, <1>6 DEF Requests, Due
<1>10. Answers'
  <2>1. \A d \in Conn : Owes(d)' = Owes(d)
    BY <1>2 DEF Owes, MidMessage
  <2> QED
    BY <1>1, <1>2, <2>1 DEF Answers
<1>11. \A d \in Conn : Waiting(d)' = Waiting(d)
  BY <1>2 DEF Waiting
<1>12. InLine'
  BY <1>1, <1>2, <1>11, LineShrinks DEF InLine
<1>13. Ended'
  <2>1. \A i \in 1..Len(t) : i + 1 \in 1..Len(down[conn])
    BY <1>4
  <2>2. \A i \in 1..Len(t) : t[i].id \in Done \cup {0}
    BY <1>1, <1>3, <1>4, <2>1 DEF Ended
  <2>3. \A d \in Conn : \A i \in 1..Len(down'[d]) : down'[d][i].id \in Done \cup {0}
    BY <1>1, <1>5, <2>2 DEF Ended
  <2> QED
    BY <1>1, <1>2, <1>11, <2>3, EndedStays DEF Ended
<1> QED
  BY <1>7, <1>8, <1>9, <1>10, <1>12, <1>13 DEF IInv

\* What flush does: the frames go out on a connection that is alive, are lost
\* on one that broke, and wait if there is none.
LEMMA CallServerKeeps ==
  ASSUME IInv, NEW n \in CallAtt, CallServer(n)
  PROVE  IInv'
<1>1. TypeOK /\ Links /\ Requests /\ Answers /\ InLine /\ Ended /\ InOrder
  BY DEF IInv
<1>2. /\ conn' = conn /\ ws' = ws /\ idcnt' = idcnt + 1 /\ responseMap' = responseMap \cup {idcnt + 1}
      /\ cur' = cur /\ outcome' = outcome /\ sess' = sess /\ serverUp' = serverUp /\ executed' = executed
      /\ down' = down /\ alive' = alive
  BY DEF CallServer, server
<1>3. conn \in Conn /\ 1 - conn \in Conn /\ n \in Nat
  BY <1>1, BoundAssumption DEF TypeOK, Conn
<1>4. PICK x \in Call : x = idcnt + 1 /\ x \in 0..MaxCalls /\ idcnt \in Nat
  BY <1>1, BoundAssumption DEF TypeOK, Call, CallServer
<1>5. PICK m \in Seq(Frame) : /\ m = Message(x, n) /\ Flows(0, m) /\ Leaves(0, m) = 0
                              /\ Asks(m) = {x} /\ Rising(m)
  BY <1>3, MessageFlows, AsksMessage
<1>6. \/ up' = up /\ tosend' = tosend
      \/ up' = up /\ tosend' = tosend \o m /\ ws # "open"
      \/ /\ up' = [up EXCEPT ![conn] = up[conn] \o m] /\ tosend' = tosend
         /\ alive[conn] /\ ws = "open" /\ tosend = <<>>
  <2>1. tosend \in Seq(Frame) /\ up[conn] \in Seq(Frame) /\ up \in [Conn -> Seq(Frame)]
    BY <1>1, <1>3 DEF TypeOK
  <2>2. Flush(tosend \o m)
    BY <1>2, <1>4, <1>5 DEF CallServer
  <2>3. CASE ws # "open"
    BY <1>2, <2>2, <2>3 DEF Flush
  <2>4. CASE ws = "open"
    <3>1. tosend = <<>> /\ tosend \o m = m
      BY <1>1, <1>5, <2>4, ConcatEmptySeq DEF Links
    <3>2. CASE alive[conn]
      BY <1>2, <2>2, <2>4, <3>1, <3>2 DEF Flush
    <3>3. CASE ~alive[conn]
      <4>1. up' = [up EXCEPT ![conn] = up[conn] \o <<>>] /\ tosend' = <<>>
        BY <1>2, <2>2, <2>4, <3>3 DEF Flush
      <4>2. up[conn] \o <<>> = up[conn]
        BY <2>1, ConcatEmptySeq
      <4> QED
        BY <2>1, <3>1, <4>1, <4>2
    <3> QED
      BY <3>2, <3>3
  <2> QED
    BY <2>3, <2>4
<1>7. /\ \A d \in Conn : Below(Waiting(d), {x}) /\ Waiting(d) \subseteq 1..idcnt /\ Asks(up[d]) \subseteq Waiting(d)
      /\ Below(Asks(tosend), {x}) /\ Below(Done, {x}) /\ 1..idcnt \subseteq 1..x
      /\ \A d \in Conn : x \notin Waiting(d)
  <2>1. /\ \A d \in Conn : Waiting(d) \subseteq 1..idcnt /\ Asks(up[d]) \subseteq Waiting(d)
        /\ Asks(tosend) \subseteq 1..idcnt /\ Done \subseteq 1..idcnt
    BY <1>1 DEF InLine, Ended, Waiting
  <2>2. \A y \in 1..idcnt : y < x /\ y \in 1..x
    BY <1>4
  <2>3. x \notin 1..idcnt
    BY <1>4
  <2> QED
    BY <2>1, <2>2, <2>3 DEF Below
<1>8. PICK u \in [Conn -> Seq(Frame)], q \in Seq(Frame) :
        /\ u = up' /\ q = tosend'
        /\ \A d \in Conn : Asks(u[d]) \subseteq Asks(up[d]) \cup {x} /\ Rising(u[d])
        /\ \A d \in Conn \ {conn} : u[d] = up[d]
        /\ Asks(q) \subseteq Asks(tosend) \cup {x} /\ Rising(q) /\ Flows(0, q) /\ Leaves(0, q) = 0
        /\ \/ Asks(u[conn]) = Asks(up[conn])
           \/ Asks(q) = {}
        /\ \A d \in Conn : Flows(Due(d), u[d]) /\ (alive[d] => Leaves(Due(d), u[d]) = 0)
        /\ \A d \in Conn : ~alive[d] => u[d] = up[d]
        /\ ws = "open" => q = <<>>
  <2>1. /\ tosend \in Seq(Frame) /\ up \in [Conn -> Seq(Frame)] /\ Rising(tosend)
        /\ \A d \in Conn : Rising(up[d])
        /\ Flows(0, tosend) /\ Leaves(0, tosend) = 0
        /\ \A d \in Conn : Flows(Due(d), up[d]) /\ (alive[d] => Leaves(Due(d), up[d]) = 0) /\ Due(d) \in Nat
        /\ ws = "open" => tosend = <<>>
    BY <1>1 DEF TypeOK, InLine, Requests, Links, Due, Session
  <2>2. CASE up' = up /\ tosend' = tosend
    BY <2>1, <2>2
  <2>3. CASE up' = up /\ tosend' = tosend \o m /\ ws # "open"
    <3>1. tosend \o m \in Seq(Frame) /\ Flows(0, tosend \o m) /\ Leaves(0, tosend \o m) = 0
      BY <1>5, <2>1, FlowsConcat, ConcatProperties
    <3>2. Asks(tosend \o m) = Asks(tosend) \cup {x} /\ Rising(tosend \o m)
      BY <1>5, <1>7, <2>1, AsksConcat
    <3> QED
      BY <2>1, <2>3, <3>1, <3>2
  <2>4. CASE /\ up' = [up EXCEPT ![conn] = up[conn] \o m] /\ tosend' = tosend
             /\ alive[conn] /\ ws = "open" /\ tosend = <<>>
    <3>1. /\ up[conn] \o m \in Seq(Frame) /\ Flows(Due(conn), up[conn] \o m)
          /\ Leaves(Due(conn), up[conn] \o m) = 0
      BY <1>3, <1>5, <2>1, <2>4, FlowsConcat, ConcatProperties
    <3>2. Below(Asks(up[conn]), {x}) /\ up[conn] \in Seq(Frame) /\ Rising(up[conn])
      BY <1>3, <1>7, <2>1 DEF Below
    <3>3. Asks(up[conn] \o m) = Asks(up[conn]) \cup {x} /\ Rising(up[conn] \o m)
      BY <1>5, <3>2, AsksConcat
    <3>4. /\ up' \in [Conn -> Seq(Frame)] /\ up'[conn] = up[conn] \o m
          /\ \A d \in Conn \ {conn} : up'[d] = up[d]
      BY <1>3, <2>1, <2>4, <3>1
    <3>5. Asks(tosend) = {}
      BY <2>4, AsksEmpty
    <3> QED
      BY <2>1, <2>4, <3>1, <3>3, <3>4, <3>5
  <2> QED
    BY <1>6, <2>2, <2>3, <2>4
<1>9. TypeOK'
  <2>1. responseMap' = {y \in 1..idcnt + 1 : outcome[y] = "none"}
    <3>1. outcome[x] = "none" /\ \A y \in 1..idcnt + 1 : y \in 1..idcnt \/ y = x
      BY <1>1, <1>4 DEF Ended
    <3>2. \A y \in 1..idcnt : y \in 1..idcnt + 1
      BY <1>4
    <3>3. x \in 1..idcnt + 1
      BY <1>4
    <3> QED
      BY <1>1, <1>2, <1>4, <3>1, <3>2, <3>3 DEF TypeOK
  <2> QED
    BY <1>1, <1>2, <1>4, <1>8, <2>1 DEF TypeOK
<1>10. Links'
  <2>1. \A d \in Conn : sess[d].st = "none" => up'[d] = <<>>
    BY <1>1, <1>8 DEF Links
  <2> QED
    BY <1>1, <1>2, <1>8, <2>1 DEF Links
<1>11. Requests'
  <2>1. \A d \in Conn : Due(d)' = Due(d)
    BY <1>2 DEF Due
  <2> QED
    BY <1>2, <1>8, <2>1 DEF Requests
<1>12. Answers'
  <2>1. Expected' = Expected /\ \A d \in Conn : Owes(d)' = Owes(d)
    BY <1>2 DEF Expected, Owes, MidMessage
  <2> QED
    BY <1>1, <1>2, <1>3, <2>1 DEF Answers
<1>13. /\ Done' = Done /\ \A d \in Conn : Waiting(d)' \subseteq Waiting(d) \cup {x}
       /\ Waiting(1 - conn)' = Waiting(1 - conn)
       /\ Waiting(conn)' = Waiting(conn) \/ Asks(tosend') = {}
       /\ \A d \in Conn : ~alive[d] => Waiting(d)' = Waiting(d)
  <2>1. \A d \in Conn : Waiting(d)' \subseteq Waiting(d) \cup {x}
    BY <1>2, <1>8 DEF Waiting
  <2>2. 1 - conn # conn
    BY <1>1 DEF TypeOK, Conn
  <2>3. \A d \in Conn : up'[d] = up[d] => Waiting(d)' = Waiting(d)
    BY <1>2 DEF Waiting
  <2>4. Waiting(1 - conn)' = Waiting(1 - conn)
    BY <1>2, <1>3, <1>8, <2>2, <2>3
  <2>5. Waiting(conn)' = Waiting(conn) \/ Asks(tosend') = {}
    BY <1>2, <1>3, <1>8 DEF Waiting
  <2> QED
    BY <1>2, <1>8, <2>1, <2>3, <2>4, <2>5 DEF Done
<1>14. InLine'
  <2>1. idcnt' = x /\ Rising(tosend') /\ Asks(tosend') \subseteq 1..x
    BY <1>1, <1>2, <1>4, <1>7, <1>8 DEF InLine
  <2>2. \A d \in Conn : Rising(up'[d]) /\ Waiting(d)' \subseteq 1..x
    <3>1. x \in 1..x
      BY <1>4
    <3> QED
      BY <1>7, <1>8, <1>13, <3>1
  <2>3. \A d \in Conn : sess'[d].st = "collect" => Below({sess'[d].id}, Asks(up'[d]))
    <3> SUFFICES ASSUME NEW d \in Conn, sess[d].st = "collect" PROVE Below({sess[d].id}, Asks(up'[d]))
      BY <1>2
    <3>1. Below({sess[d].id}, Asks(up[d])) /\ sess[d].id \in Waiting(d)
      BY <1>1 DEF InLine, Waiting
    <3>2. sess[d].id < x
      BY <1>7, <3>1 DEF Below
    <3> QED
      BY <1>8, <3>1, <3>2 DEF Below
  <2>4. \A d \in Conn : Below(Waiting(d)', Asks(tosend'))
    <3> SUFFICES ASSUME NEW d \in Conn PROVE Below(Waiting(d)', Asks(tosend'))
      OBVIOUS
    <3>1. CASE Waiting(d)' = Waiting(d)
      BY <1>1, <1>7, <1>8, <3>1 DEF InLine, Below
    <3>2. CASE Asks(tosend') = {}
      BY <3>2 DEF Below
    <3>3. d = conn \/ d = 1 - conn
      BY <1>1 DEF TypeOK, Conn
    <3> QED
      BY <1>2, <1>13, <3>1, <3>2, <3>3
  <2>5. \A d \in Conn : Waiting(d)' \cap Done = {}
    <3>1. x \notin Done
      BY <1>4, <1>7 DEF Below
    <3> QED
      BY <1>1, <1>13, <3>1 DEF InLine
  <2>6. Below(Waiting(1 - conn)', Waiting(conn)')
    <3>1. Below(Waiting(1 - conn), Waiting(conn)) /\ Below(Waiting(1 - conn), {x})
      BY <1>1, <1>3, <1>7 DEF InLine
    <3>2. Waiting(conn)' \subseteq Waiting(conn) \cup {x}
      BY <1>2, <1>3, <1>13
    <3> QED
      BY <1>13, <3>1, <3>2 DEF Below
  <2>7. Below(Done, Waiting(conn)') /\ Below(Done, Asks(tosend'))
    <3>1. Below(Done, Waiting(conn)) /\ Below(Done, {x}) /\ Below(Done, Asks(tosend))
      BY <1>1, <1>7 DEF InLine
    <3>2. Waiting(conn)' \subseteq Waiting(conn) \cup {x}
      BY <1>2, <1>3, <1>13
    <3> QED
      BY <1>8, <3>1, <3>2 DEF Below
  <2> QED
    BY <1>13, <2>1, <2>2, <2>3, <2>4, <2>5, <2>6, <2>7 DEF InLine
<1>15. Ended'
  <2>1. Done \subseteq 1..x /\ \A y \in Call : y > x => outcome[y] = "none"
    <3>1. Call \subseteq Nat
      BY <1>1, CallsMade
    <3>2. \A y \in Call : y > x => y > idcnt
      BY <1>4, <3>1
    <3> QED
      BY <1>1, <1>7, <3>2 DEF Ended
  <2>2. \A y \in Waiting(1 - conn)' : outcome[y] = "rejected"
    BY <1>1, <1>13 DEF Ended
  <2>3. ws = "closed" => \A y \in Waiting(conn)' : outcome[y] = "rejected"
    <3>1. ws = "closed" => ~alive[conn]
      BY <1>1, <1>3 DEF Links
    <3>2. ~alive[conn] => Waiting(conn)' = Waiting(conn)
      BY <1>2, <1>3, <1>13
    <3> QED
      BY <1>1, <3>1, <3>2 DEF Ended
  <2> QED
    BY <1>1, <1>2, <1>4, <1>13, <2>1, <2>2, <2>3 DEF Ended
<1>16. InOrder'
  BY <1>1, <1>2 DEF InOrder
<1> QED
  BY <1>9, <1>10, <1>11, <1>12, <1>14, <1>15, <1>16 DEF IInv

LEMMA ConnectedKeeps ==
  ASSUME IInv, Connected
  PROVE  IInv'
<1>1. TypeOK /\ Links /\ Requests /\ Answers /\ InLine /\ Ended /\ InOrder
  BY DEF IInv
<1>2. /\ conn' = conn /\ ws = "connecting" /\ ws' = "open" /\ idcnt' = idcnt /\ responseMap' = responseMap
      /\ cur' = cur /\ outcome' = outcome /\ serverUp' = serverUp /\ executed' = executed
  BY DEF Connected
<1>3. conn \in Conn /\ 1 - conn \in Conn /\ 1 - conn # conn
  BY <1>1 DEF TypeOK, Conn
<1>4. sess[conn].st = "none" /\ up[conn] = <<>> /\ \A d \in Conn : ~alive[d]
  BY <1>1, <1>2, <1>3 DEF Links
<1>5. PICK f \in Seq(Frame) : /\ f = <<Text(0, 0)>> /\ Len(f) = 1 /\ f # <<>> /\ f[1] = Text(0, 0)
                              /\ f[1].type = "text" /\ f[1].id = 0 /\ f[1].count = 0
  <2>1. 0 \in Call \cup {0} /\ 0 \in Nat
    OBVIOUS
  <2>2. Text(0, 0) \in Frame
    BY <2>1, FramesTyped
  <2>3. PICK f : f = <<Text(0, 0)>>
    OBVIOUS
  <2>4. f \in Seq(Frame) /\ Len(f) = 1 /\ f # <<>> /\ f[1] = Text(0, 0)
    BY <2>2, <2>3
  <2>5. Text(0, 0).type = "text" /\ Text(0, 0).id = 0 /\ Text(0, 0).count = 0
    BY DEF Text
  <2> QED
    BY <2>3, <2>4, <2>5
<1>6. /\ sess' \in [Conn -> Session] /\ sess'[conn] = Reading /\ \A d \in Conn \ {conn} : sess'[d] = sess[d]
      /\ alive' \in [Conn -> BOOLEAN] /\ alive'[conn] /\ \A d \in Conn \ {conn} : ~alive'[d]
      /\ down' \in [Conn -> Seq(Frame)] /\ down'[conn] = f /\ \A d \in Conn \ {conn} : down'[d] = down[d]
  BY <1>1, <1>3, <1>4, <1>5, SessionsTyped DEF TypeOK, Connected
<1>7. /\ tosend' = <<>> /\ up' \in [Conn -> Seq(Frame)] /\ up'[conn] = tosend
      /\ \A d \in Conn \ {conn} : up'[d] = up[d]
  <2>1. tosend \in Seq(Frame) /\ up \in [Conn -> Seq(Frame)]
    BY <1>1 DEF TypeOK
  <2>2. tosend' = <<>> /\ up' = [up EXCEPT ![conn] = up[conn] \o tosend]
    BY <1>2, <1>3, <1>6 DEF Connected, Flush
  <2>3. up[conn] \o tosend = tosend
    BY <1>4, <2>1, ConcatEmptySeq
  <2> QED
    BY <1>3, <2>1, <2>2, <2>3
<1>8. <<>> \in Seq(Frame) /\ Reading.st = "read" /\ Reading.out = <<>>
  BY SessionsTyped
<1>9. TypeOK'
  BY <1>1, <1>2, <1>6, <1>7, <1>8 DEF TypeOK
<1>10. Links'
  BY <1>1, <1>2, <1>3, <1>6, <1>7, <1>8 DEF Links
<1>11. Requests'
  <2>1. Flows(0, <<>>) /\ Leaves(0, <<>>) = 0
    BY FlowsEmpty
  <2>2. Due(conn)' = 0
    BY <1>2, <1>3, <1>6, <1>8 DEF Due
  <2>3. \A d \in Conn \ {conn} : Due(d)' = Due(d)
    BY <1>6 DEF Due
  <2>4. \A d \in Conn : Flows(Due(d)', up'[d]) /\ (alive'[d] => Leaves(Due(d)', up'[d]) = 0)
    <3> SUFFICES ASSUME NEW d \in Conn
                 PROVE  Flows(Due(d)', up'[d]) /\ (alive'[d] => Leaves(Due(d)', up'[d]) = 0)
      OBVIOUS
    <3>1. CASE d = conn
      <4>1. Due(d)' = 0
        BY <1>2, <2>2, <3>1
      <4> QED
        BY <1>1, <1>7, <3>1, <4>1 DEF Requests
    <3>2. CASE d # conn
      BY <1>1, <1>6, <1>7, <2>3, <3>2 DEF Requests
    <3> QED
      BY <3>1, <3>2
  <2> QED
    BY <1>7, <2>1, <2>4 DEF Requests
<1>12. Answers'
  <2>1. Owes(conn)' = 0 /\ sess'[conn].st # "reply"
    BY <1>2, <1>3, <1>6, <1>8 DEF Owes, MidMessage
  <2>2. \A d \in Conn \ {conn} : Owes(d)' = Owes(d) /\ sess'[d] = sess[d]
    BY <1>6 DEF Owes, MidMessage
  <2>3. Expected' = 0
    <3>1. cur.left > 0 => cur.stale
      BY <1>1, <1>2 DEF Answers
    <3>2. cur.left \in Nat
      BY <1>1 DEF TypeOK
    <3> QED
      BY <1>2, <3>1, <3>2 DEF Expected
  <2>4. Flows(0, f) /\ Leaves(0, f) = 0
    <3>1. Fits(f[1], 0) /\ \A i \in 1..Len(f) : i = 1
      BY <1>5 DEF Fits
    <3>2. Flows(0, f)
      BY <3>1 DEF Flows
    <3> QED
      BY <1>5, <3>2 DEF Leaves
  <2>5. \A d \in Conn : sess'[d].st = "reply" =>
          sess'[d].out # <<>> /\ Flows(Owes(d)', sess'[d].out) /\ Leaves(Owes(d)', sess'[d].out) = 0
    BY <1>1, <2>1, <2>2 DEF Answers
  <2> QED
    BY <1>1, <1>2, <1>3, <1>6, <2>1, <2>3, <2>4, <2>5 DEF Answers
<1>13. /\ Done' = Done /\ Waiting(conn)' = Asks(tosend) /\ Waiting(1 - conn)' = Waiting(1 - conn)
       /\ Asks(tosend') = {} /\ Rising(tosend')
  <2>1. Waiting(conn)' = Asks(tosend)
    BY <1>2, <1>3, <1>6, <1>7, <1>8 DEF Waiting
  <2>2. Waiting(1 - conn)' = Waiting(1 - conn)
    BY <1>2, <1>3, <1>6, <1>7 DEF Waiting
  <2> QED
    BY <1>2, <1>7, <2>1, <2>2, AsksEmpty DEF Done
<1>14. InLine'
  <2>1. \A d \in Conn : d = conn \/ d = 1 - conn
    BY <1>1 DEF TypeOK, Conn
  <2>2. /\ Waiting(conn)' \subseteq 1..idcnt /\ Waiting(1 - conn)' \subseteq 1..idcnt
        /\ Waiting(1 - conn)' \cap Done = {}
        /\ Below(Waiting(1 - conn)', Waiting(conn)') /\ Below(Done, Waiting(conn)')
    BY <1>1, <1>3, <1>13 DEF InLine
  <2>3. Waiting(conn)' \cap Done = {}
    <3>1. Asks(tosend) \subseteq Nat /\ Below(Done, Asks(tosend))
      BY <1>1 DEF InLine, TypeOK
    <3> QED
      BY <1>13, <3>1 DEF Below
  <2>4. \A d \in Conn : Waiting(d)' \subseteq 1..idcnt /\ Waiting(d)' \cap Done = {}
    BY <1>2, <2>1, <2>2, <2>3
  <2>5. \A d \in Conn : Below(Waiting(d)', Asks(tosend'))
    BY <1>13 DEF Below
  <2>6. \A d \in Conn : /\ Rising(up'[d])
                        /\ sess'[d].st = "collect" => Below({sess'[d].id}, Asks(up'[d]))
    BY <1>1, <1>6, <1>7, <1>8 DEF InLine
  <2>7. Below(Done, Asks(tosend'))
    BY <1>13 DEF Below
  <2> QED
    BY <1>2, <1>13, <2>2, <2>4, <2>5, <2>6, <2>7 DEF InLine
<1>15. Ended'
  <2>1. \A d \in Conn : \A i \in 1..Len(down'[d]) : down'[d][i].id \in Done \cup {0}
    <3>1. \A i \in 1..Len(f) : f[i].id = 0
      <4>1. \A i \in 1..Len(f) : i = 1
        BY <1>5
      <4> QED
        BY <1>5, <4>1
    <3> QED
      BY <1>1, <1>6, <3>1 DEF Ended
  <2>2. \A d \in Conn : \A i \in 1..Len(sess'[d].out) : sess'[d].out[i].id \in Done \cup {0}
    <3>1. \A i \in 1..Len(Reading.out) : FALSE
      BY <1>8
    <3> QED
      BY <1>1, <1>6, <3>1 DEF Ended
  <2>3. \A y \in Waiting(1 - conn)' : outcome[y] = "rejected"
    BY <1>1, <1>13 DEF Ended
  <2> QED
    BY <1>1, <1>2, <1>13, <2>1, <2>2, <2>3 DEF Ended
<1>16. InOrder'
  BY <1>1, <1>2 DEF InOrder
<1> QED
  BY <1>9, <1>10, <1>11, <1>12, <1>14, <1>15, <1>16 DEF IInv

LEMMA InitIInv == Init => IInv
<1> SUFFICES ASSUME Init PROVE IInv
  OBVIOUS
<1>1. /\ conn = 0 /\ ws = "connecting" /\ idcnt = 0 /\ tosend = <<>> /\ responseMap = {} /\ cur = NoMessage
      /\ \A c \in Call : outcome[c] = "none"
      /\ \A c \in Conn : up[c] = <<>> /\ down[c] = <<>> /\ ~alive[c] /\ sess[c] = NoSession
      /\ executed = <<>>
  BY DEF Init
<1>2. /\ NoMessage \in [id : Call \cup {0}, left : Nat, stale : BOOLEAN]
      /\ NoMessage.id = 0 /\ NoMessage.left = 0 /\ ~NoMessage.stale
  BY DEF NoMessage
<1>3. <<>> \in Seq(Frame) /\ <<>> \in Seq(Call) /\ 0 \in Conn /\ 1 - 0 \in Conn /\ 0 \in 0..MaxCalls
  BY BoundAssumption DEF Conn
<1>4. Done = {} /\ \A c \in Conn : Waiting(c) = {}
  BY <1>1, SessionsTyped, AsksEmpty DEF Done, Waiting
<1>5. TypeOK
  BY <1>1, <1>2, <1>3, SessionsTyped DEF TypeOK, Init
<1>6. Links
  BY <1>1, <1>3, SessionsTyped DEF Links
<1>7. Requests
  BY <1>1, SessionsTyped, FlowsEmpty DEF Requests, Due
<1>8. Answers
  BY <1>1, <1>2, SessionsTyped DEF Answers
<1>9. InLine
  BY <1>1, <1>3, <1>4, SessionsTyped, AsksEmpty DEF InLine, Below
<1>10. Ended
  <2>1. \A c \in Conn : \A i \in 1..Len(down[c]) : FALSE
    BY <1>1
  <2>2. \A c \in Conn : \A i \in 1..Len(sess[c].out) : FALSE
    BY <1>1, SessionsTyped
  <2> QED
    BY <1>1, <1>2, <1>3, <1>4, <2>1, <2>2 DEF Ended
<1>11. InOrder
  BY <1>1 DEF InOrder
<1> QED
  BY <1>5, <1>6, <1>7, <1>8, <1>9, <1>10, <1>11 DEF IInv

LEMMA IInvStep ==
  ASSUME IInv, [Next]_vars
  PROVE  IInv'
<1>1. ASSUME NEW n \in CallAtt, CallServer(n) PROVE IInv'
  BY <1>1, CallServerKeeps
<1>2. CASE ClientStep
  BY <1>2, ConnectedKeeps, OnCloseKeeps, ReconnectKeeps, ReceiveTextKeeps, ReceiveBinaryKeeps,
     ReceiveOutOfPlaceKeeps DEF ClientStep
<1>3. ASSUME NEW c \in Conn, ServerStep(c) \/ Notify(c) PROVE IInv'
  BY <1>3, ReadRequestKeeps, ReadAttachmentKeeps, ExecuteKeeps, SendFrameKeeps, EndSessionKeeps,
     NotifyKeeps DEF ServerStep
<1>4. CASE Break \/ ServerDies \/ ServerStarts
  BY <1>4, BreakKeeps, ServerDiesKeeps, ServerStartsKeeps
<1>5. CASE UNCHANGED vars
  <2>1. /\ conn' = conn /\ ws' = ws /\ idcnt' = idcnt /\ tosend' = tosend /\ responseMap' = responseMap
        /\ cur' = cur /\ outcome' = outcome /\ sess' = sess /\ serverUp' = serverUp /\ executed' = executed
        /\ up' = up /\ down' = down /\ alive' = alive
    BY <1>5 DEF vars, client, server
  <2>2. TypeOK /\ Links /\ Requests /\ Answers /\ InLine /\ Ended /\ InOrder
    BY DEF IInv
  <2>3. TypeOK' /\ Links' /\ InOrder'
    BY <2>1, <2>2 DEF TypeOK, Links, InOrder
  <2>4. Requests' /\ Answers'
    BY <2>1, <2>2 DEF Requests, Answers, Due, Owes, MidMessage, Expected
  <2>5. \A d \in Conn : Waiting(d)' = Waiting(d)
    BY <2>1 DEF Waiting
  <2>6. InLine'
    BY <2>1, <2>2, <2>5, LineShrinks DEF InLine
  <2>7. Ended'
    BY <2>1, <2>2, <2>5, EndedStays DEF Ended
  <2> QED
    BY <2>3, <2>4, <2>6, <2>7 DEF IInv
<1> QED
  BY <1>1, <1>2, <1>3, <1>4, <1>5 DEF Next

LEMMA Invariance == Spec => []IInv
  BY InitIInv, IInvStep, PTL DEF Spec

\* The client of WsRpcClient (wsrpc.ts) never meets a text frame in place of an
\* attachment, or the reverse, but for a message begun on a closed connection,
\* for any number of calls and attachments: the mutex of the session is enough.
THEOREM FramesInPlace == Spec => []InPlace
<1>1. IInv => InPlace
  <2> SUFFICES ASSUME IInv, ws = "open", down[conn] # <<>>,
                      (Head(down[conn]).type = "text") = (cur.left > 0), ~cur.stale
               PROVE  FALSE
    BY DEF InPlace
  <2>1. /\ down[conn] \in Seq(Frame) /\ cur.left \in Nat /\ Flows(cur.left, down[conn])
    BY DEF IInv, TypeOK, Answers, Expected
  <2>2. Fits(Head(down[conn]), cur.left)
    BY <2>1, FlowsTail
  <2>3. PICK h : h = Head(down[conn])
    OBVIOUS
  <2>4. CASE cur.left = 0
    BY <2>2, <2>3, <2>4 DEF Fits
  <2>5. CASE cur.left # 0
    BY <2>1, <2>2, <2>3, <2>5 DEF Fits
  <2> QED
    BY <2>4, <2>5
<1> QED
  BY <1>1, Invariance, PTL

\* The server (wsrpc.cpp) runs no call twice and runs calls in the order the
\* editor made them, unless the earlier one was reported as rejected.
THEOREM CallsInOrder == Spec => []InOrder
<1>1. IInv => InOrder
  BY DEF IInv
<1> QED
  BY <1>1, Invariance, PTL
=============================================================================
