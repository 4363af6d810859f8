--------------------------- MODULE DialogMachine ---------------------------
(***************************************************************************)
(* What a dialog means.  Run is the dialog machine of the game, which is   *)
(* not in this repository: it executes the code of a paragraph, as the     *)
(* names of DialogDef.instruction_table and the emitted code tell.         *)
(* Meaning is what the editor's node says: its action, then its branches   *)
(* in order.  Both yield the events of a visit, the last one the way out.  *)
(*                                                                         *)
(* env: is the speaker present and alive, money, items, paragraphs visited *)
(* before.  An absent result in iff counts 1 or 0 as a number, and any     *)
(* number but 0 is true.                                                   *)
(***************************************************************************)
EXTENDS DialogNodes

Truth(b) == IF b THEN 1 ELSE 0
Event(op, args) == [op |-> op, args |-> args]
Fresh(vars) == [stack |-> <<>>, iff |-> FALSE, vars |-> vars, speaker |-> 0, out |-> <<>>, over |-> FALSE]
Offered(out) == {i \in 1..Len(out) : out[i].op \in {142, 207}}
\* add_book_direct is emitted with a text, which the table lacks
MachineArguments == (211 :> 1) @@ Arguments
Arith(op, a, b) ==
  CASE op = 6 -> a + b [] op = 7 -> a - b [] op = 8 -> a * b
Test(op, a, b) ==
  CASE op = 12 -> a = b [] op = 13 -> a # b [] op = 14 -> a < b
    [] op = 15 -> a > b [] op = 16 -> a <= b [] op = 17 -> a >= b
Known(op, args, m, env) ==        \* instructions that answer in iff
  CASE op = 41 -> m.speaker \in env.present
    [] op = 61 -> m.speaker \in env.alive
    [] op = 145 -> args[1].value \in env.visited
    [] op = 166 -> args[1].value \notin env.visited
    [] op = 152 -> args[1].value \in env.items
    [] op = 185 -> env.present = env.alive
    [] op = 51 -> Offered(m.out) = {}
    [] op = 175 -> env.chosen
    [] op = 138 -> args[1].value # 0

Top(m) == Last(m.stack)
Popped(m, n) == SubSeq(m.stack, 1, Len(m.stack) - n)
Step(op, args, m, env) ==
  LET push(n) == [m EXCEPT !.stack = Append(@, n)]
      two == [a |-> m.stack[Len(m.stack) - 1], b |-> Top(m)]
      emit(x) == [m EXCEPT !.out = Append(@, Event(op, x))]
  IN CASE op = 1 -> push(args[1].value)
       [] op = 2 -> [m EXCEPT !.stack = Popped(m, 1), !.vars[args[1].value] = Top(m)]
       [] op = 192 -> [m EXCEPT !.vars[args[1].value] = args[2].value]
       [] op = 3 -> [m EXCEPT !.stack = Popped(m, 1)]
       [] op \in 6..8 -> [m EXCEPT !.stack = Append(Popped(m, 2), Arith(op, two.a, two.b))]
       [] op \in 12..17 -> [m EXCEPT !.stack = Popped(m, 2), !.iff = Test(op, two.a, two.b)]
       [] op = 19 -> [m EXCEPT !.stack = Append(Popped(m, 1), Truth(Top(m) = 0))]
       [] op = 131 -> [m EXCEPT !.iff = ~@]
       [] op = 20 -> push(Truth(m.iff))
       [] op = 21 -> [m EXCEPT !.stack = Popped(m, 1), !.iff = Top(m) # 0]
       [] op = 42 -> push(env.money)
       [] op = 132 -> [m EXCEPT !.speaker = args[1].value]
       [] op \in {41, 61, 145, 166, 152, 185, 51, 138} -> [m EXCEPT !.iff = Known(op, args, m, env)]
       [] op = 175 -> [emit(<<args[1]>>) EXCEPT !.iff = env.chosen]
       [] op \in {140, 141} -> IF m.iff = (op = 140)
                               THEN [m EXCEPT !.out = Append(@, Event(139, args)), !.over = TRUE] ELSE m
       [] op \in {139, 144, 255} -> [emit(args) EXCEPT !.over = TRUE]
       [] op \in {22, 29, 36, 46, 53, 54, 128, 142, 147, 148, 157, 158, 162, 164, 168, 207, 208, 209,
                  210, 211} -> emit(args)

\* the arguments, each pop taking one number, and the machine behind them
Taken(args, m) ==
  FoldLeft(LAMBDA st, a :
             IF "pop" \in DOMAIN a
             THEN [args |-> Append(st.args, V(Top(st.m))), m |-> [st.m EXCEPT !.stack = Popped(st.m, 1)]]
             ELSE IF "variable" \in DOMAIN a
             THEN [st EXCEPT !.args = Append(@, V(m.vars[a.variable]))]
             ELSE [st EXCEPT !.args = Append(@, a)],
           [args |-> <<>>, m |-> m], args)
RECURSIVE Execute(_, _, _, _, _)
Execute(code, at, i, m, env) ==
  IF m.over \/ i > Len(code) THEN m
  ELSE LET op == code[i].value
           next == i + MachineArguments[op] + 1
           t == Taken(SubSeq(code, i + 1, next - 1), m)
           jumps == op = 171 \/ (op = 170 /\ m.iff) \/ (op = 169 /\ ~m.iff)
           there == SelectInSeq(at, LAMBDA x : x = at[next] + t.args[1].value)
       IN IF op \in 169..171 THEN Execute(code, at, IF jumps THEN there ELSE next, m, env)
          ELSE Execute(code, at, next, Step(op, t.args, t.m, env), env)
Run(code, vars, env) == Execute(code, Offsets(code), 1, Fresh(vars), env)

-----------------------------------------------------------------------------
\* The meaning: s = [v: the value of the last expression, m: as above]

Value(m, v) == [v |-> v, m |-> m]
RECURSIVE Eval(_, _, _, _)
EvalBoth(args, m, ctx, env) ==
  LET a == Eval(args[1], m, ctx, env)  b == Eval(args[2], a.m, ctx, env)
  IN [a |-> a.v, b |-> b.v, m |-> b.m]
EvalId(s, m, ctx, env) ==
  CASE s = "is_present" -> Truth(m.speaker \in env.present)
    [] s = "is_alive" -> Truth(m.speaker \in env.alive)
    [] s = "first_visited" -> Truth(ctx.self \notin env.visited)
    [] s = "money" -> env.money
    [] s \in DOMAIN ctx.consts -> ctx.consts[s]
    [] s \in DOMAIN ctx.slots -> m.vars[ctx.slots[s]]
EvalCall(ast, m, ctx, env) ==
  LET args == [i \in 1..Len(ast.args) |-> Eval(ast.args[i], m, ctx, env).v]
  IN CASE ast.fn = "condition" -> Eval(ctx.conditions[ast.args[1].s], m, ctx, env)
       [] ast.fn = "have_item" -> Value(m, Truth(args[1] \in env.items))
       [] ast.fn = "visited" -> Value(m, Truth(node_id_from_target(ctx, ast.args[1].n) \in env.visited))
       [] ast.fn = "send_action" -> Value([m EXCEPT !.out = Append(@, Event(158, Values(args)))], 0)
       [] ast.fn = "play_music" -> Value([m EXCEPT !.out = Append(@, Event(36, <<T(ast.args[1].s)>>))], 0)
Eval(ast, m, ctx, env) ==
  CASE ast.k = "str" -> Value(m, 0)
    [] ast.k = "num" -> Value(m, ast.n)
    [] ast.k = "id" -> Value(m, EvalId(ast.s, m, ctx, env))
    [] ast.k = "call" -> EvalCall(ast, m, ctx, env)
    [] ast.k = ";" -> FoldLeft(LAMBDA s, a : Eval(a, s.m, ctx, env), Value(m, 0), ast.args)
    [] ast.k = ":=" -> LET r == Eval(ast.args[2], m, ctx, env)
                       IN Value([r.m EXCEPT !.vars[ctx.slots[ast.args[1].s]] = r.v], 0)
    [] ast.k = "!" -> LET r == Eval(ast.args[1], m, ctx, env) IN Value(r.m, Truth(r.v = 0))
    [] ast.k = "&&" -> LET l == Eval(ast.args[1], m, ctx, env)
                       IN IF l.v = 0 THEN Value(l.m, 0) ELSE Eval(ast.args[2], l.m, ctx, env)
    [] ast.k = "||" -> LET l == Eval(ast.args[1], m, ctx, env)
                       IN IF l.v # 0 THEN Value(l.m, 1) ELSE Eval(ast.args[2], l.m, ctx, env)
    [] ast.k \in DOMAIN Tests -> LET r == EvalBoth(ast.args, m, ctx, env)
                                 IN Value(r.m, Truth(Test(Tests[ast.k], r.a, r.b)))
    [] ast.k \in DOMAIN Sums -> LET r == EvalBoth(ast.args, m, ctx, env)
                                IN Value(r.m, Arith(Sums[ast.k], r.a, r.b))

\* does the condition hold?  a speaker named by the branch is the one that is asked about
Holds(b, m, ctx, env) ==
  LET asked == IF b.speaker # 0 THEN b.speaker ELSE m.speaker
      value == CASE b.condition = "" -> TRUE
                 [] b.condition \in DOMAIN ctx.conditions ->
                      Eval(ctx.conditions[b.condition], m, ctx, env).v # 0
                 [] b.condition = "first visited" -> ctx.self \notin env.visited
                 [] b.condition = "is present" -> asked \in env.present
                 [] b.condition = "can speak" -> asked \in env.present /\ asked \in env.alive
                 [] b.condition = "is dead" -> asked \notin env.alive
                 [] b.condition = "whole group" -> env.present = env.alive
                 [] b.condition = "target not visited yet" ->
                      node_id_from_target(ctx, b.target) \notin env.visited
                 [] b.condition = "no choices" -> Offered(m.out) = {}
  IN b.condition = "" \/ value # b.invert
Says(m, events) == [m EXCEPT !.out = @ \o events]
Leaves(m, target) == [Says(m, <<IF target = 0 THEN Event(255, <<>>) ELSE Event(139, <<V(target)>>)>>)
                        EXCEPT !.over = TRUE]
Takes(b, m, ctx, env) ==
  LET target == node_id_from_target(ctx, b.target)
      text == T(Speaking(b))
  IN CASE b.type = "choice" ->
            Says(m, <<IF b.icon THEN Event(207, <<V(target), V(b.speaker), text>>)
                      ELSE Event(142, <<V(target), text>>)>>)
       [] b.type = "jump_to_node" -> Leaves(m, target)
       [] b.type = "npctalk" -> Leaves(Says(m, <<Event(148, <<text>>), Event(164, <<>>)>>), target)
       [] b.type = "addstory" -> Leaves(Says(m, <<Event(162, <<text>>)>>), target)
       [] b.type = "addtobook" -> Leaves(Says(m, <<Event(211, <<text>>)>>), target)
       [] b.type = "animatedesc" ->
            Leaves(Says(m, <<Event(209, <<text>>)>>
                           \o IF target = 0 THEN <<Event(164, <<>>)>> ELSE <<>>), target)
       [] b.type = "selchar" ->
            LET asked == Says(m, <<Event(175, <<text>>)>>)
            IN IF env.chosen THEN asked
               ELSE [Says(asked, <<Event(139, <<V(target)>>)>>) EXCEPT !.over = TRUE]
\* a condition about a speaker leaves that speaker selected
AsksAbout == {"is present", "can speak", "is dead"}
Visit(b, m, ctx, env) ==
  LET asked == IF b.condition \in AsksAbout /\ b.speaker # 0 THEN [m EXCEPT !.speaker = b.speaker] ELSE m
  IN IF m.over THEN m ELSE IF Holds(b, m, ctx, env) THEN Takes(b, asked, ctx, env) ELSE asked
Meaning(nd, vars, ctx, env) ==
  LET start == IF nd.action = NoCode THEN Fresh(vars) ELSE Eval(nd.action, Fresh(vars), ctx, env).m
      end == FoldLeft(LAMBDA m, b : Visit(b, m, ctx, env), start, nd.branches)
      offers == \E b \in ToSet(nd.branches) : b.type = "choice"
      extra == CASE nd.node_type = "shopping" -> <<Event(168, <<V(nd.shop_id)>>)>>
                 [] nd.node_type = "battle" -> <<Event(157, <<>>)>>
                 [] nd.node_type = "loadmap" -> <<Event(46, <<T(nd.map_name), V(nd.sector), V(nd.side)>>)>>
                 [] nd.node_type = "message" -> <<Event(208, <<T(nd.message)>>)>>
                 [] nd.node_type = "openbook" -> <<Event(210, <<>>)>>
                 [] nd.node_type = "standard" -> <<>>
  IN IF end.over THEN end
     ELSE [Says(end, extra \o <<Event(IF offers THEN 144 ELSE 255, <<>>)>>) EXCEPT !.over = TRUE]
=============================================================================
