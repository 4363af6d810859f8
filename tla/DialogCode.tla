----------------------------- MODULE DialogCode -----------------------------
(***************************************************************************)
(* core/dialog_structs.ts: dialogs compiled to the code of the game's      *)
(* dialog machine.  The machine has a stack of numbers and one flag, iff;  *)
(* some expressions leave their value on the stack and some in iff, and a  *)
(* condition jumps over a branch by its size in bytes.                     *)
(*                                                                         *)
(* An expression is [k |-> kind, ...]: "num" n, "id" s, "str" s, "call" fn *)
(* and args, or an operator and its args.  An item of code is a value, a   *)
(* text, a variable or a pop (Instruction); texts are strings of one byte  *)
(* a character.                                                            *)
(***************************************************************************)
EXTENDS Integers, Sequences, SequencesExt, FiniteSets, FiniteSetsExt, TLC

V(n) == [value |-> n]
T(s) == [text |-> s]
Variable(slot) == [variable |-> slot]
Pop == [pop |-> TRUE]
instruction_size(i) == IF "text" \in DOMAIN i THEN Len(i.text) + 2
                       ELSE IF "pop" \in DOMAIN i THEN 1 ELSE 3
\* slip: the jump is measured in items
SizeOf_Items(code) == Len(code)
SizeOf(code) == FoldLeft(LAMBDA n, i : n + instruction_size(i), 0, code)
Values(ns) == [i \in 1..Len(ns) |-> V(ns[i])]

\* instruction_table: how many arguments follow an instruction
Arguments ==
  [op \in {1, 2, 23, 24, 25, 30, 31, 32, 36, 37, 40, 55, 56, 59, 60, 128, 129, 130, 132, 133, 138, 139,
           140, 141, 145, 147, 148, 149, 150, 151, 152, 153, 154, 155, 156, 162, 163, 166, 167, 168, 169,
           170, 171, 172, 174, 178, 179, 180, 183, 184, 186, 188, 190, 195, 196, 199, 201, 202, 204, 208,
           209, 518, 519} |-> 1]
  @@ [op \in {29, 38, 45, 53, 54, 134, 135, 136, 137, 142, 146, 158, 160, 189, 175, 176, 182, 187, 191,
              192, 193, 197, 203} |-> 2]
  @@ [op \in {22, 33, 46, 143, 161, 177, 181, 194, 198, 205, 206, 207} |-> 3] @@ (39 :> 4)
  @@ [op \in {3, 4, 26, 27, 28, 34, 35, 41, 42, 43, 61, 131, 144, 157, 164, 165, 185, 200, 210, 211, 255}
             \union 5..21 \union 47..52 \union {57, 58} |-> 0]

\* the functions of expressions: the kinds of their arguments, and their instruction
N(k) == [i \in 1..k |-> "n"]
functionList ==
  [have_item |-> <<N(1), 152>>, have_money |-> <<N(1), 180>>, pay |-> <<N(1), 156>>,
   add_money |-> <<N(1), 155>>, set_flag |-> <<N(1), 518>>, is_flag |-> <<N(1), 163>>,
   reset_flag |-> <<N(1), 519>>, set_fact |-> <<N(1), 31>>, reset_fact |-> <<N(1), 32>>,
   is_fact |-> <<N(1), 30>>, get_lever |-> <<N(2), 45>>, send_action |-> <<N(2), 158>>,
   send_message |-> <<N(2), 158>>, teleport_group |-> <<N(2), 160>>,
   load_level |-> <<<<"s", "n", "n">>, 46>>, teleport_character |-> <<<<"s", "n", "n">>, 33>>,
   create_item |-> <<N(1), 153>>, destroy_item |-> <<N(1), 154>>, add_to_book |-> <<N(1), 149>>,
   select_speaker |-> <<N(1), 132>>, set_speaker |-> <<N(1), 130>>, join_character |-> <<N(1), 174>>,
   drop_character |-> <<N(1), 200>>, have_rune |-> <<N(1), 179>>, set_rune |-> <<N(1), 178>>,
   remove_rune |-> <<N(1), 202>>, sleep |-> <<N(1), 183>>, time_skip |-> <<N(2), 182>>,
   eat |-> <<N(1), 184>>, play_music |-> <<<<"s">>, 36>>, play_sound |-> <<<<"s">>, 190>>,
   replace_monster |-> <<N(1), 37>>, replace_monsters |-> <<N(2), 38>>,
   replace_monsters_radius |-> <<N(4), 39>>, cast_spell |-> <<N(1), 188>>, cast_to_enemy |-> <<N(1), 40>>,
   enable_global_map |-> <<N(1), 186>>, teleport_enemies |-> <<N(3), 205>>,
   teleport_current_enemy |-> <<N(2), 206>>, send_enemy |-> <<N(2), 203>>,
   send_current_enemy |-> <<N(1), 204>>, visited |-> <<<<"r">>, 145>>, goto_node |-> <<<<"r">>, 139>>,
   goto_story |-> <<<<"d">>, 139>>, kill_current_enemy |-> <<<<>>, 52>>, exit |-> <<<<>>, 255>>,
   has_spell_group |-> <<N(1), 55>>, end_spell_group |-> <<N(1), 56>>, autosave |-> <<<<>>, 58>>,
   play_music_playlist |-> <<<<"s">>, 59>>, delay |-> <<N(1), 60>>]

-----------------------------------------------------------------------------
\* Numbers of paragraphs: stories first (times 128 for old games), then their nodes
\* from 32767 down over the numbers not taken; 0 leaves the dialog.

CONSTANT Highest      \* 32767 in the code
InOrder(numbers) == SelectSeq([i \in 1..Max(numbers) + 1 |-> i - 1], LAMBDA n : n \in numbers)
create_node_map(dlg, compat) ==
  LET story(s) == s * (IF compat THEN 128 ELSE 1)
      nodes == FlattenSeq([i \in 1..Cardinality(DOMAIN dlg) |->
                 LET s == InOrder(DOMAIN dlg)[i]
                 IN [j \in 1..Cardinality(DOMAIN dlg[s].nodes) |->
                       <<s, InOrder(DOMAIN dlg[s].nodes)[j]>>]])
      step(map, n) == map @@ (n :> Max({id \in 1..Highest : \A k \in DOMAIN map : map[k] # id}))
  IN FoldLeft(step, [k \in {<<s, -1>> : s \in DOMAIN dlg} |-> story(k[1])], nodes)

\* The context of a compilation: the paragraph numbers of the story's nodes, the
\* number of the node itself, constants, conditions, and the variables' slots.
NoTarget == -1
node_id_from_target(ctx, target) == IF target = NoTarget THEN 0 ELSE ctx.ids[target]

\* reg_id: a name that is not known gets the lowest slot no known name has.  The slots
\* given out are not noted (used_slots), so that new names of one compilation share one.
reg_id(known, names) ==
  known @@ [s \in names \ DOMAIN known |->
              Min({n \in 0..Cardinality(DOMAIN known) : \A k \in DOMAIN known : known[k] # n})]

-----------------------------------------------------------------------------
\* Expressions.  A compiled one is <<code, TRUE when the value is on the stack>>.

pop_item(c) == IF c[2] THEN Append(c[1], V(3)) ELSE c[1]
push_iff(c) == IF c[2] THEN c[1] ELSE Append(c[1], V(20))

\* compile_building_ident and compile_identifier, but for the fields of characters
Builtin ==
  [face_id |-> <<<<34>>, TRUE>>, whole_group |-> <<<<185>>, FALSE>>, slot_count |-> <<<<27>>, TRUE>>,
   is_present |-> <<<<41>>, FALSE>>, is_alive |-> <<<<61>>, FALSE>>, money |-> <<<<42>>, TRUE>>,
   gender |-> <<<<26>>, TRUE>>, character_sector |-> <<<<35>>, TRUE>>, slot_present |-> <<<<28>>, TRUE>>,
   enemy |-> <<<<43>>, FALSE>>, north |-> <<<<1, 0>>, TRUE>>, east |-> <<<<1, 1>>, TRUE>>,
   south |-> <<<<1, 2>>, TRUE>>, west |-> <<<<1, 3>>, TRUE>>, true |-> <<<<138, 1>>, FALSE>>,
   false |-> <<<<138, 0>>, FALSE>>, random |-> <<<<49>>, TRUE>>, held_item |-> <<<<50>>, TRUE>>]
compile_identifier(s, ctx) ==
  IF s = "first_visited" THEN <<<<V(166), V(ctx.self)>>, FALSE>>
  ELSE IF s \in DOMAIN Builtin THEN <<Values(Builtin[s][1]), Builtin[s][2]>>
  ELSE IF s \in DOMAIN ctx.consts THEN <<<<V(1), V(ctx.consts[s])>>, TRUE>>
  ELSE <<<<V(1), Variable(ctx.slots[s])>>, TRUE>>

Tests == ("<" :> 14 @@ ">" :> 15 @@ "<=" :> 16 @@ ">=" :> 17 @@ "==" :> 12 @@ "!=" :> 13)
Sums == ("+" :> 6 @@ "-" :> 7 @@ "*" :> 8 @@ "/" :> 9 @@ "%" :> 5 @@ "--" :> 18)

\* a right side on the stack needs a left side on the stack as well
Else(r) == IF r THEN <<V(20)>> ELSE <<>>

RECURSIVE compile_ast(_, _)
\* a constant goes into the instruction, any other value before it, to be popped there
likely_constant(ast, ctx) ==
  LET code == push_iff(compile_ast(ast, ctx))
  IN IF Len(code) = 2 /\ code[1] = V(1) THEN [before |-> <<>>, arg |-> code[2]]
     ELSE [before |-> code, arg |-> Pop]
compile_string(ast, ctx) == IF ast.k = "str" THEN T(ast.s) ELSE likely_constant(ast.args[1], ctx).arg
CallArgument(kind, a, ctx) ==
  CASE kind = "n" -> likely_constant(a, ctx)
    [] kind = "s" -> [before |-> <<>>, arg |-> compile_string(a, ctx)]
    [] kind = "r" -> [before |-> <<>>, arg |-> V(node_id_from_target(ctx, a.n))]
    [] kind = "d" -> [before |-> <<>>, arg |-> V((IF ctx.compat THEN 128 ELSE 1) * a.n)]
CallCode(op, args) ==                                       \* what comes before: the last one first
  FlattenSeq([i \in 1..Len(args) |-> Reverse(args)[i].before]) \o <<V(op)>> \o [i \in 1..Len(args) |-> args[i].arg]
FunctionCode(f, ast, ctx) ==
  CallCode(f[2], [i \in 1..Len(f[1]) |-> CallArgument(f[1][i], ast.args[i], ctx)])
compile_call(ast, ctx) == FunctionCode(functionList[ast.fn], ast, ctx)
compile_printf(ast, ctx) ==
  FlattenSeq([k \in 1..Len(ast.args) - 1 |-> push_iff(compile_ast(ast.args[Len(ast.args) + 1 - k], ctx))])
  \o <<V(54), compile_string(ast.args[1], ctx), V(Len(ast.args) - 1)>>
compile_assignment(left, right, ctx) ==
  LET r == likely_constant(right, ctx)
      slot == V(ctx.slots[left.s])
  IN IF r.arg # Pop THEN <<V(192), slot, r.arg>> ELSE r.before \o <<V(2), slot>>
compile_logic(op, p, q) ==
  LET right == q[1] \o (IF q[2] THEN <<V(171), V(SizeOf(Else(q[2])))>> ELSE <<>>)
  IN <<p[1] \o (IF p[2] THEN <<V(21)>> ELSE <<>>) \o <<V(IF op = "||" THEN 170 ELSE 169), V(SizeOf(right))>>
         \o right \o Else(q[2]), q[2]>>
compile_ast(ast, ctx) ==
  CASE ast.k = "num" -> <<<<V(1), V(ast.n)>>, TRUE>>
    [] ast.k = "id" -> compile_identifier(ast.s, ctx)
    [] ast.k = "call" /\ ast.fn = "condition" -> compile_ast(ctx.conditions[ast.args[1].s], ctx)
    [] ast.k = "call" /\ ast.fn = "printf" -> <<compile_printf(ast, ctx), FALSE>>
    [] ast.k = "call" /\ ast.fn \notin {"condition", "printf"} -> <<compile_call(ast, ctx), FALSE>>
    [] ast.k = ";" ->
         IF ast.args = <<>> THEN <<<<>>, FALSE>>
         ELSE LET last == compile_ast(Last(ast.args), ctx)
              IN <<FlattenSeq([i \in 1..Len(ast.args) - 1 |-> pop_item(compile_ast(ast.args[i], ctx))])
                     \o last[1], last[2]>>
    [] ast.k = ":=" -> <<compile_assignment(ast.args[1], ast.args[2], ctx), FALSE>>
    [] ast.k = "!" -> LET c == compile_ast(ast.args[1], ctx)
                      IN <<Append(c[1], V(IF c[2] THEN 19 ELSE 131)), c[2]>>
    [] ast.k \in {"||", "&&"} ->
         compile_logic(ast.k, compile_ast(ast.args[1], ctx), compile_ast(ast.args[2], ctx))
    [] ast.k \in DOMAIN (Tests @@ Sums) ->
         <<Append(FlattenSeq([i \in 1..Len(ast.args) |-> push_iff(compile_ast(ast.args[i], ctx))]),
                  V((Tests @@ Sums)[ast.k])), ast.k \in DOMAIN Sums>>
=============================================================================
