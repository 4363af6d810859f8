---------------------------- MODULE DialogNodes ----------------------------
(***************************************************************************)
(* core/dialog_structs.ts: stories and nodes compiled to paragraphs, the   *)
(* file of paragraphs, and its translation.  A node is [action, branches,  *)
(* node_type, ...]; a branch [type, condition, invert, speaker, text,      *)
(* target, icon], where a condition is "", the name of one of the story's  *)
(* conditions or one of the built-in ones.                                 *)
(***************************************************************************)
EXTENDS DialogCode

NoCode == <<>>
Goto(target) == <<V(139), V(target)>>
GotoOrExit(target) == IF target = 0 THEN <<V(255)>> ELSE Goto(target)
Speaking(b) == IF b.speaker = 0 THEN b.text ELSE "%" \o ToString(b.speaker) \o "l" \o b.text
Select(b) == IF b.speaker = 0 THEN <<>> ELSE <<V(132), V(b.speaker)>>
Id(s) == [k |-> "id", s |-> s]
Op(op, args) == [k |-> op, args |-> args]

\* the code of a branch's condition, its result in iff
Condition(b, target, ctx) ==
  CASE b.condition = "" -> NoCode
    [] b.condition \in DOMAIN ctx.conditions -> pop_item(compile_ast(ctx.conditions[b.condition], ctx))
    [] b.condition = "first visited" -> <<V(166), V(ctx.self)>>
    [] b.condition = "is present" -> Select(b) \o <<V(41)>>
    [] b.condition = "can speak" ->
         Select(b) \o compile_ast(Op("&&", <<Id("is_present"), Id("is_alive")>>), ctx)[1]
    [] b.condition = "is dead" -> Select(b) \o compile_ast(Op("!", <<Id("is_alive")>>), ctx)[1]
    [] b.condition = "whole group" -> <<V(185)>>
    [] b.condition = "target not visited yet" -> <<V(145), V(target)>>
    [] b.condition = "no choices" -> <<V(51)>>
Inverted(b) == b.invert # (b.condition = "target not visited yet")

\* what a branch does once its condition holds
BranchCode(b, target) ==
  CASE b.type = "addstory" -> <<V(162), T(Speaking(b))>> \o GotoOrExit(target)
    [] b.type = "addtobook" -> <<V(211), T(Speaking(b))>> \o GotoOrExit(target)
    [] b.type = "choice" /\ b.icon -> <<V(207), V(target), V(b.speaker), T(Speaking(b))>>
    [] b.type = "choice" /\ ~b.icon -> <<V(142), V(target), T(Speaking(b))>>
    [] b.type = "jump_to_node" -> GotoOrExit(target)
    [] b.type = "animatedesc" ->
         <<V(209), T(Speaking(b))>> \o (IF target = 0 THEN <<V(164), V(255)>> ELSE Goto(target))
    [] b.type = "npctalk" -> <<V(148), T(Speaking(b)), V(164)>> \o GotoOrExit(target)
    [] b.type = "selchar" -> <<V(175), T(Speaking(b)), V(0), V(141), V(target)>>
    [] b.type = "seldead" -> <<V(189), V(175), T(Speaking(b)), V(0), V(141), V(target)>>
Ending == {"addstory", "addtobook", "jump_to_node", "animatedesc"}
\* a jump needs no jump over it
ConditionalGoto(b, target) == b.type = "jump_to_node" /\ target # 0
Guarded(b, target, cond, code) ==
  IF cond = NoCode THEN code
  ELSE IF ConditionalGoto(b, target) THEN cond \o <<V(IF Inverted(b) THEN 141 ELSE 140), V(target)>>
  ELSE cond \o <<V(IF Inverted(b) THEN 170 ELSE 169), V(SizeOf(code))>> \o code
CompiledBranch(b, ctx) ==
  LET target == node_id_from_target(ctx, b.target)
  IN Guarded(b, target, Condition(b, target, ctx), BranchCode(b, target))

\* TRUE behind a branch that is always taken and leads away: nothing may follow it
Unconditional(b) == b.type \in Ending /\ b.condition = ""
compile_node2(nd, ctx) ==
  LET action == IF nd.action = NoCode THEN NoCode ELSE pop_item(compile_ast(nd.action, ctx))
      branches == FlattenSeq([i \in 1..Len(nd.branches) |-> CompiledBranch(nd.branches[i], ctx)])
      uncond == \E b \in ToSet(nd.branches) : Unconditional(b)
      exit == IF uncond THEN <<>> ELSE <<V(255)>>
      tail == CASE nd.node_type = "shopping" -> <<V(168), V(nd.shop_id)>> \o exit
                [] nd.node_type = "battle" -> <<V(157)>> \o exit
                [] nd.node_type = "loadmap" ->
                     <<V(46), T(nd.map_name), V(nd.sector), V(nd.side)>> \o exit
                [] nd.node_type = "message" -> <<V(208), T(nd.message)>> \o exit
                [] nd.node_type = "openbook" -> <<V(210)>> \o exit
                [] nd.node_type = "standard" ->
                     IF \E b \in ToSet(nd.branches) : b.type = "choice" THEN <<V(144)>> ELSE exit
  IN action \o branches \o tail
\* compile_error: no branches in a node of another type, and none behind an unconditional one
Compiles(nd) ==
  /\ nd.node_type # "standard" => nd.branches = <<>>
  /\ \A i \in 1..Len(nd.branches) - 1 : ~Unconditional(nd.branches[i])

Head_(nd) == (IF nd.picture = "" THEN <<>> ELSE <<V(147), T(nd.picture)>>)
             \o (IF nd.description = "" THEN <<>> ELSE <<V(128), T(nd.description)>>)
compile_node(nd, ctx) == Head_(nd) \o compile_node2(nd, ctx)
SpeakerCode(sp, slot) ==
  CASE sp.type = "unset" -> <<>>
    [] sp.type = "attribute" -> Values(<<22, sp.attribute, IF sp.param = 0 THEN 99 ELSE sp.param, slot>>)
    [] sp.type = "random" -> Values(<<22, 0, 0, slot>>)
    [] sp.type = "xicht" -> Values(<<29, sp.param, slot>>)
    [] sp.type = "character" -> Values(<<53, sp.param, slot>>)
compile_story(st, ids) ==
  Head_(st) \o FlattenSeq([i \in 1..Len(st.speakers) |-> SpeakerCode(st.speakers[i], i)])
  \o (IF 0 \in DOMAIN st.nodes THEN Goto(ids[0]) ELSE <<>>)

\* compile: the paragraphs of all stories and nodes, and the way out
compile(dlg, compat, consts, slots) ==
  LET map == create_node_map(dlg, compat)
      ids(s) == [n \in DOMAIN dlg[s].nodes |-> map[<<s, n>>]]
      ctx(s, n) == [ids |-> ids(s), self |-> map[<<s, n>>], consts |-> consts, slots |-> slots,
                    conditions |-> dlg[s].conditions, compat |-> compat]
      code(k) == IF k[2] = -1 THEN compile_story(dlg[k[1]], ids(k[1]))
                 ELSE compile_node(dlg[k[1]].nodes[k[2]], ctx(k[1], k[2]))
  IN [id \in {map[k] : k \in DOMAIN map} |-> code(CHOOSE k \in DOMAIN map : map[k] = id)]
     @@ (0 :> <<V(255)>>)

-----------------------------------------------------------------------------
\* The file: generate_dat puts the paragraphs one behind the other; reading takes the
\* end of a paragraph from where the next one begins.

\* Offsets: where the items of a code begin, in bytes, and where it ends
Offsets(code) == FoldLeft(LAMBDA at, i : Append(at, Last(at) + instruction_size(i)), <<0>>, code)
generate_dat(paragraphs) ==
  LET ids == InOrder(DOMAIN paragraphs)
      position == FoldLeft(LAMBDA at, id : Append(at, Last(at) + SizeOf(paragraphs[id])), <<0>>, ids)
  IN [head |-> [i \in 1..Len(ids) |-> <<ids[i], position[i]>>],
      code |-> FlattenSeq([i \in 1..Len(ids) |-> paragraphs[ids[i]]])]
load_from_buffer(file) ==
  LET at == Offsets(file.code)
      ends == {h[2] : h \in ToSet(file.head)} \union {Last(at)}
      item(offset) == SelectInSeq(at, LAMBDA x : x >= offset)
      part(begin) == LET end == Min({e \in ends : e > begin})
                     IN SubSeq(file.code, item(begin), item(end) - 1)
  IN FoldLeft(LAMBDA read, h : read @@ (h[1] :> part(h[2])), <<>>, file.head)

\* parse_code: the instructions with their arguments, where they begin and end; a jump
\* (169 to 171) gets the number of the instruction it leads to
Instructions(code) ==
  LET at == Offsets(code)
      step(out, i) == IF i < (IF out = <<>> THEN 1 ELSE Last(out).next) THEN out
                      ELSE LET n == Arguments[code[i].value]
                           IN Append(out, [op |-> code[i].value, args |-> SubSeq(code, i + 1, i + n),
                                           next |-> i + n + 1, begin |-> at[i], end |-> at[i + n + 1]])
  IN FoldLeft(step, <<>>, [i \in 1..Len(code) |-> i])
IsJump(x) == x.op \in 169..171
parse_code(code) ==
  LET list == Instructions(code)
      target(x) == CHOOSE j \in 1..Len(list) : list[j].begin = x.end + x.args[1].value
  IN [i \in 1..Len(list) |-> IF IsJump(list[i]) THEN [list[i] EXCEPT !.args = <<V(target(list[i]))>>]
                             ELSE list[i]]

\* the size of what a jump passes over, after the translation
Remeasured(list, i) ==
  FoldLeft(LAMBDA n, j : n + 3 + SizeOf(list[j].args), 0,
           [k \in 1..list[i].args[1].value - 1 - i |-> i + k])
\* translate_original_dialogy_dat, for paragraphs without the instruction 167; tr is a function
translated(code, tr) ==
  LET parsed == parse_code(code)
      list == [i \in 1..Len(parsed) |->
                 [parsed[i] EXCEPT !.args = [a \in 1..Len(@) |-> IF "text" \in DOMAIN @[a]
                                                                  THEN T(tr[@[a].text]) ELSE @[a]]]]
  IN FlattenSeq([i \in 1..Len(list) |->
       <<V(list[i].op)>> \o (IF IsJump(list[i]) THEN <<V(Remeasured(list, i))>> ELSE list[i].args)])
=============================================================================
