---------------------------- MODULE DialogsEditor ----------------------------
(***************************************************************************)
(* views/DialogsEditor.vue over DialogManager: stories of nodes with       *)
(* branches, the diagram of the story that is shown, saving and compiling, *)
(* and reloading when another tab saves.                                   *)
(***************************************************************************)
EXTENDS Hive

CONSTANTS MaxDialogEdits, Variables

VARIABLES
  dialogs,        \* _dlg and _identifiers of the DialogManager
  current_index,  \* the story that is shown; None
  edit_focus,     \* what the panel edits
  confirm,        \* messageBoxConfirm: what is deleted on yes
  tasks,          \* a load under way, a save under way, ignore_modified; edits and others
                  \* (saves of another tab) count for the bounds: no edit or question begins
                  \* after the other's save, which may come after it; unended has the nodes
                  \* deleted without ending branches
  project         \* DIALOGY.JSON, the slots of the variables in DIALOGY.DAT, and the
                  \* messages about the first

dialog_vars == <<dialogs, current_index, edit_focus, confirm, tasks, project>>

Code == INSTANCE DialogCode WITH Highest <- 10
Conditions == {"c"}

\* A node: its branches, whether it is DlgNodeType.standard, the height of its picture
\* and description, and the variables its code assigns.
new_node == [branches |-> <<>>, standard |-> TRUE, extra |-> 0, assigns |-> {}]
new_branch == [target |-> None, condition |-> ""]
new_story == [nodes |-> 0 :> new_node, conditions |-> {}]
Lowest(from, taken) == Min({i \in from..from + Cardinality(taken) : i \notin taken})
stories == dialogs.stories
Nodes(s) == stories[s].nodes

NoFocus == [dlg |-> None, node |-> None, branch |-> None, listed |-> FALSE]
cur_story == current_index \in DOMAIN stories
selected_node == cur_story /\ edit_focus.node # None /\ edit_focus.node \in DOMAIN Nodes(edit_focus.dlg)
Branches == Nodes(edit_focus.dlg)[edit_focus.node].branches
selected_branch == selected_node /\ edit_focus.branch \in DOMAIN Branches

\* A branch leads nowhere or to a node of its story, and its condition is one of the
\* story's.  The compiler takes no others, nor branches of other kinds of nodes.
BranchesOf(story) == UNION {ToSet(story.nodes[n].branches) : n \in DOMAIN story.nodes}
TargetsIn(story) == \A b \in BranchesOf(story) : b.target \in {None} \union DOMAIN story.nodes
ConditionsIn(story) == \A b \in BranchesOf(story) : b.condition \in {""} \union story.conditions
Compiles(d) ==
  \A s \in DOMAIN d.stories :
    /\ TargetsIn(d.stories[s]) /\ ConditionsIn(d.stories[s])
    /\ \A n \in DOMAIN d.stories[s].nodes : d.stories[s].nodes[n].standard \/ d.stories[s].nodes[n].branches = <<>>
Assigned(d) == UNION {UNION {d.stories[s].nodes[n].assigns : n \in DOMAIN d.stories[s].nodes} : s \in DOMAIN d.stories}

-----------------------------------------------------------------------------
\* The diagram: create_layout.  Heights and offsets are in halves of a line, positions
\* of the second pass rounded down.

RECURSIVE tree_to_LevelMap(_, _, _)
tree_to_LevelMap(nodes, levels, path) ==      \* with DAG_to_tree: no node twice on a path
  LET targets == SelectSeq(nodes[Last(path)].branches, LAMBDA b : b.target # None /\ b.target \notin ToSet(path))
      visit(m, b) == IF m[b.target] < Len(path) THEN tree_to_LevelMap(nodes, m, Append(path, b.target)) ELSE m
  IN FoldLeft(visit, [levels EXCEPT ![Last(path)] = Len(path) - 1], targets)
LevelMap(nodes) == tree_to_LevelMap(nodes, [n \in DOMAIN nodes |-> None], <<0>>)

node_base_height == 2
node_initial_offset == 14
node_height(node) == node_base_height + 2 * Len(node.branches) + node.extra

\* slip: the room the node takes is not noted
add_node_Roomless(d, nodes, n, level, pos, positions) ==
  LET k == Len(d.placed) + 1
      offset == Max({d.alloc[level], pos} \union (IF k \in DOMAIN positions THEN {positions[k]} ELSE {}))
      box == [node |-> n, level |-> level, offset |-> offset, height |-> node_height(nodes[n])]
  IN [d EXCEPT !.placed = Append(@, box), !.queue = Append(@, box)]
add_node(d, nodes, n, level, pos, positions) ==
  LET k == Len(d.placed) + 1
      offset == Max({d.alloc[level], pos} \union (IF k \in DOMAIN positions THEN {positions[k]} ELSE {}))
      box == [node |-> n, level |-> level, offset |-> offset, height |-> node_height(nodes[n])]
  IN [alloc |-> [d.alloc EXCEPT ![level] = offset + box.height + 2],
      placed |-> Append(d.placed, box), queue |-> Append(d.queue, box)]
add_via(d, level, target, pos) ==
  LET offset == Max({d.alloc[level], pos})
  IN [d EXCEPT !.alloc[level] = offset + 2,
               !.queue = Append(@, [via |-> target, level |-> level, offset |-> offset])]
add_route(d, nodes, levels, positions, level, target, offset, extra, from_via) ==
  LET to == levels[target]
      placed == \E i \in DOMAIN d.placed : d.placed[i].node = target
      toffset == IF from_via THEN offset ELSE offset - 4 - extra
  IN IF to = level + 1 THEN IF placed THEN d ELSE add_node(d, nodes, target, to, toffset, positions)
     ELSE IF to > level THEN add_via(d, level + 1, target, offset)
     ELSE IF ~placed \/ (to = level /\ from_via) THEN d
     ELSE IF from_via THEN add_via(d, level - 1, target, offset)
     ELSE add_via(d, level, target, toffset)

RECURSIVE Placed(_, _, _, _)
Placed(d, nodes, levels, positions) ==
  IF d.queue = <<>> THEN d.placed
  ELSE
    LET cur == Head(d.queue)
        rest == [d EXCEPT !.queue = Tail(@)]
        node == nodes[cur.node]
        route(e, i) ==
          IF node.branches[i].target = None THEN e
          ELSE add_route(e, nodes, levels, positions, cur.level, node.branches[i].target,
                         cur.offset + node_base_height + 2 * (i - 1) + node.extra, node.extra, FALSE)
        next == IF "via" \in DOMAIN cur
                THEN add_route(rest, nodes, levels, positions, cur.level, cur.via, cur.offset, 0, TRUE)
                ELSE IF node.standard THEN FoldLeft(route, rest, [i \in DOMAIN node.branches |-> i]) ELSE rest
    IN Placed(next, nodes, levels, positions)
create_layout2(nodes, positions) ==
  LET levels == LevelMap(nodes)
      empty == [alloc |-> [l \in 0..Cardinality(DOMAIN nodes) |-> 0], placed |-> <<>>, queue |-> <<>>]
  IN Placed(add_node(empty, nodes, 0, levels[0], 0, positions), nodes, levels, positions)
Centered(first) ==
  LET below(l) == Max({0} \union {x.offset + x.height : x \in {x \in ToSet(first) : x.level = l}})
      global_max == Max({below(x.level) : x \in ToSet(first)})
      place(x) == IF x.level < 2 THEN node_initial_offset
                  ELSE ((2 * x.offset + x.height) * global_max) \div (2 * below(x.level)) - x.height
  IN [i \in DOMAIN first |-> place(first[i])]
create_layout(nodes) == create_layout2(nodes, Centered(create_layout2(nodes, <<>>)))
\* a branch to a node that is not there, or no node 0, is an error, and the old diagram stays
Drawable(story) == 0 \in DOMAIN story.nodes /\ TargetsIn(story)
Diagram == IF cur_story /\ Drawable(stories[current_index]) THEN create_layout(Nodes(current_index)) ELSE <<>>

-----------------------------------------------------------------------------
\* What the user does.  Nothing else can be clicked while a question is open.

NoQuestion == [what |-> "none"]
Free == confirm = NoQuestion
\* the bound: nodes are clicked as long as an edit or a question may follow
MayEdit == Free /\ tasks.edits + tasks.others < MaxDialogEdits
Focused(n, b) == [dlg |-> current_index, node |-> n, branch |-> b, listed |-> FALSE]
Show(s, focus) ==        \* another story takes the focus away
  current_index' = s /\ edit_focus' = IF s = current_index THEN focus ELSE NoFocus
Looked == UNCHANGED <<dialogs, confirm, tasks, project>>

Story_click == Free /\ (\E s \in DOMAIN stories : Show(s, edit_focus)) /\ Looked
Node_click ==            \* in the diagram
  /\ MayEdit /\ \E n \in {x.node : x \in ToSet(Diagram)} :
       \E b \in {None} \union DOMAIN Nodes(current_index)[n].branches : edit_focus' = Focused(n, b)
  /\ UNCHANGED current_index /\ Looked
Node_list ==             \* the list's values are texts: the node is "1"
  /\ MayEdit /\ cur_story
  /\ \E n \in DOMAIN Nodes(current_index) : edit_focus' = [Focused(n, None) EXCEPT !.listed = TRUE]
  /\ UNCHANGED current_index /\ Looked

Changed(new) == dialogs' = [dialogs EXCEPT !.stories = new] /\ UNCHANGED tasks
Edit(new) ==
  /\ MayEdit
  /\ dialogs' = [dialogs EXCEPT !.stories = new] /\ tasks' = [tasks EXCEPT !.edits = @ + 1]
  /\ UNCHANGED <<confirm, project>>
\* the focus goes to the new story, which has the speakers of the one before; without
\* that (deleted) the story is made all the same
create_story ==
  LET n == Lowest(1, DOMAIN stories)
  IN /\ Edit(stories @@ (n :> new_story))
     /\ IF current_index \in {None, n} \union DOMAIN stories
        THEN current_index' = n /\ edit_focus' = NoFocus
        ELSE UNCHANGED <<current_index, edit_focus>>
WithNode(s, n, x) == [stories EXCEPT ![s].nodes = (n :> x) @@ @]
SetBranches(bs) == WithNode(edit_focus.dlg, edit_focus.node, [Nodes(edit_focus.dlg)[edit_focus.node] EXCEPT !.branches = bs])
SetBranch(x) == Edit(SetBranches([Branches EXCEPT ![edit_focus.branch] = x])) /\ UNCHANGED <<current_index, edit_focus>>
branch == Branches[edit_focus.branch]

add_branch ==
  /\ selected_node /\ (selected_branch \/ Nodes(edit_focus.dlg)[edit_focus.node].standard)
  /\ Edit(SetBranches(Append(Branches, new_branch)))
  /\ edit_focus' = [edit_focus EXCEPT !.branch = Len(Branches) + 1] /\ UNCHANGED current_index
branch_move(by) ==
  LET b == edit_focus.branch
  IN /\ selected_branch /\ b + by \in DOMAIN Branches
     /\ Edit(SetBranches([Branches EXCEPT ![b] = Branches[b + by], ![b + by] = Branches[b]]))
     /\ edit_focus' = [edit_focus EXCEPT !.branch = b + by] /\ UNCHANGED current_index
\* create_node, and for a reaction a branch of the new node, in focus
add_node_branch(x, focus) ==
  LET n == Lowest(0, DOMAIN Nodes(edit_focus.dlg))
      led == SetBranches([Branches EXCEPT ![edit_focus.branch].target = n])
  IN /\ selected_branch /\ branch.target = None
     /\ Edit([led EXCEPT ![edit_focus.dlg].nodes = (n :> x) @@ @])
     /\ edit_focus' = [edit_focus EXCEPT !.node = n, !.branch = focus, !.listed = FALSE] /\ UNCHANGED current_index
Branch_edit ==
  /\ selected_branch
  /\ \/ \E t \in {None} \union DOMAIN Nodes(edit_focus.dlg) : SetBranch([branch EXCEPT !.target = t])
     \/ \E c \in {""} \union stories[edit_focus.dlg].conditions : SetBranch([branch EXCEPT !.condition = c])
Node_edit ==
  LET node == Nodes(edit_focus.dlg)[edit_focus.node]
      node_is(x) == Edit(WithNode(edit_focus.dlg, edit_focus.node, x)) /\ UNCHANGED <<current_index, edit_focus>>
  IN /\ selected_node /\ edit_focus.branch = None
     /\ \/ node_is([node EXCEPT !.standard = ~@])
        \/ node_is([node EXCEPT !.extra = IF @ = 0 THEN 3 ELSE 0])
        \/ \E v \in SUBSET Variables : node_is([node EXCEPT !.assigns = v])
save_condition ==        \* a new one or an edited one, for the branch in focus
  /\ selected_branch
  /\ \E c \in Conditions :
       /\ Edit([SetBranches([Branches EXCEPT ![edit_focus.branch].condition = c])
                  EXCEPT ![edit_focus.dlg].conditions = @ \union {c}])
       /\ UNCHANGED <<current_index, edit_focus>>

\* Questions.  What they are about is noted before, the stories are taken as they are after.
Ask(q) == /\ MayEdit /\ confirm' = q
          /\ tasks' = [tasks EXCEPT !.edits = @ + 1]
          /\ UNCHANGED <<dialogs, current_index, edit_focus, project>>
Delete_ask ==
  \/ current_index # None /\ cur_story /\ Ask([what |-> "story", focus |-> NoFocus, number |-> current_index])
  \/ selected_node /\ edit_focus.branch = None /\ Ask([what |-> "node", focus |-> edit_focus, number |-> 0])
  \/ selected_branch /\ Ask([what |-> "branch", focus |-> edit_focus, number |-> 0])
Condition_ask ==         \* can_delete_condition: no other branch has it
  /\ selected_branch
  /\ \E c \in stories[edit_focus.dlg].conditions :
       /\ \A n \in DOMAIN Nodes(edit_focus.dlg) : \A i \in DOMAIN Nodes(edit_focus.dlg)[n].branches :
            Nodes(edit_focus.dlg)[n].branches[i].condition = c => <<n, i>> = <<edit_focus.node, edit_focus.branch>>
       /\ Ask([what |-> "condition", focus |-> edit_focus, number |-> 0, condition |-> c])
Answered == /\ confirm' = NoQuestion /\ UNCHANGED <<current_index, project>>
No == ~Free /\ Answered /\ UNCHANGED <<dialogs, edit_focus, tasks>>

delete_story ==
  /\ confirm.what = "story" /\ Answered
  /\ Changed([s \in DOMAIN stories \ {confirm.number} |-> stories[s]]) /\ UNCHANGED edit_focus
\* branches with the number of the node as their target are ended; a node of the list
\* has a text for its number, which no target equals
\* slip: no branch is ended
NodeDeleted_Dangling(f) == [n \in DOMAIN Nodes(f.dlg) \ {f.node} |-> Nodes(f.dlg)[n]]
NodeDeleted(f) ==
  LET ended(b) == IF b.target = f.node /\ ~f.listed THEN [b EXCEPT !.target = None] ELSE b
      left == [n \in DOMAIN Nodes(f.dlg) \ {f.node} |-> Nodes(f.dlg)[n]]
  IN [n \in DOMAIN left |-> [left[n] EXCEPT !.branches = [i \in DOMAIN @ |-> ended(@[i])]]]
delete_node ==
  LET f == confirm.focus
  IN /\ confirm.what = "node" /\ Answered /\ UNCHANGED edit_focus
     /\ IF f.dlg \in DOMAIN stories
        THEN /\ dialogs' = [dialogs EXCEPT !.stories[f.dlg].nodes = NodeDeleted(f)]
             /\ tasks' = [tasks EXCEPT !.unended = @ \union (IF f.listed THEN {<<f.dlg, f.node>>} ELSE {})]
        ELSE UNCHANGED <<dialogs, tasks>>
delete_branch ==
  LET f == confirm.focus
  IN /\ confirm.what = "branch" /\ Answered
     /\ IF f.dlg \in DOMAIN stories /\ f.node \in DOMAIN Nodes(f.dlg)
        THEN /\ Changed([stories EXCEPT ![f.dlg].nodes[f.node].branches =
                            IF f.branch \in DOMAIN @ THEN RemoveAt(@, f.branch) ELSE @])
             /\ edit_focus' = IF edit_focus = f THEN [f EXCEPT !.branch = None] ELSE edit_focus
        ELSE UNCHANGED <<dialogs, tasks, edit_focus>>
delete_condition ==      \* from the story of the question, which may be gone by now
  LET f == confirm.focus
  IN /\ confirm.what = "condition" /\ Answered /\ UNCHANGED edit_focus
     /\ IF edit_focus = f
        THEN Changed([stories EXCEPT ![f.dlg].conditions = @ \ {confirm.condition},
                                     ![f.dlg].nodes[f.node].branches[f.branch].condition = ""])
        ELSE UNCHANGED <<dialogs, tasks>>

-----------------------------------------------------------------------------
\* Loading, compiling, saving

load_dialogy == tasks' = [tasks EXCEPT !.loading = TRUE]
Revert == /\ Free /\ ~tasks.loading /\ load_dialogy
          /\ UNCHANGED <<dialogs, current_index, edit_focus, confirm, project>>
Arrives ==
  /\ tasks.loading /\ dialogs' = project.json /\ Show(None, edit_focus)
  /\ tasks' = [tasks EXCEPT !.loading = FALSE]
  /\ UNCHANGED <<confirm, project>>
\* another tab adds or deletes a story, and saves
Other_saves ==
  /\ tasks.others < MaxDialogEdits /\ tasks' = [tasks EXCEPT !.others = @ + 1]
  /\ \E s \in DOMAIN project.json.stories \union {Lowest(1, DOMAIN project.json.stories)} :
       project' = [project EXCEPT !.news = Append(@, "other"),
                     !.json.stories = IF s \in DOMAIN @ THEN [t \in DOMAIN @ \ {s} |-> @[t]] ELSE @ @@ (s :> new_story)]
  /\ UNCHANGED <<dialogs, current_index, edit_focus, confirm>>
\* the message that DIALOGY.JSON was written, one's own writing included
Modified ==
  /\ project.news # <<>> /\ project' = [project EXCEPT !.news = Tail(@)]
  /\ IF tasks.ignore_modified THEN tasks' = [tasks EXCEPT !.ignore_modified = FALSE] ELSE load_dialogy
  /\ UNCHANGED <<dialogs, current_index, edit_focus, confirm>>

\* compile: the new variables of the code get slots, some of them also when it fails
Registered(d) == [d EXCEPT !.identifiers = Code!reg_id(@, Assigned(d))]
Compiled(d) == IF Compiles(d) THEN {Registered(d)} ELSE {d, Registered(d)}
\* delay_compile: a second after each change; again without one changes nothing
Compile_late ==
  /\ dialogs' \in Compiled(dialogs)
  /\ UNCHANGED <<current_index, edit_focus, confirm, tasks, project>>
\* save_all: the stories first; when they are written, the code of the stories of then
\* (cleanup: without the variables no code assigns)
Save ==
  /\ Free /\ ~tasks.saving
  /\ project' = [project EXCEPT !.json = dialogs, !.news = Append(@, "own")]
  /\ tasks' = [tasks EXCEPT !.saving = TRUE, !.ignore_modified = TRUE]
  /\ UNCHANGED <<dialogs, current_index, edit_focus, confirm>>
Save_code ==
  /\ tasks.saving /\ "own" \notin ToSet(project.news)     \* the message comes before the answer
  /\ tasks' = [tasks EXCEPT !.saving = FALSE]
  /\ \E d \in Compiled(dialogs) :
       IF Compiles(d)
       THEN LET used == Assigned(d)
                clean == [d EXCEPT !.identifiers = [v \in used |-> d.identifiers[v]]]
            IN dialogs' = clean /\ project' = [project EXCEPT !.dat = clean.identifiers]
       ELSE dialogs' = d /\ UNCHANGED project
  /\ UNCHANGED <<current_index, edit_focus, confirm>>

DialogsNext ==
  \/ Story_click \/ Node_click \/ Node_list \/ create_story \/ add_branch \/ (\E by \in {-1, 1} : branch_move(by))
  \/ add_node_branch(new_node, None)
  \/ add_node_branch([new_node EXCEPT !.branches = <<new_branch>>], 1)     \* add_reaction_node
  \/ Branch_edit \/ Node_edit \/ save_condition \/ Delete_ask \/ Condition_ask \/ No
  \/ delete_story \/ delete_node \/ delete_branch \/ delete_condition
  \/ Revert \/ Arrives \/ Other_saves \/ Modified \/ Compile_late \/ Save \/ Save_code
=============================================================================
