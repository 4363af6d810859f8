---------------------------- MODULE SpellScript ----------------------------
(***************************************************************************)
(* core/spell_structs.ts: KOUZLA.DAT, a table of spells followed by their  *)
(* scripts.  The editor's script is a sequence of commands; the file's is  *)
(* a sequence of instructions of one argument each, of which a command     *)
(* takes several, and reading guesses the commands back.                   *)
(***************************************************************************)
EXTENDS GameRecords

\* the instructions, with what their argument is: below 16 a number, above a text
Number2 == {"None", "Number", "Percent"}     \* written as a signed word
Text == {"SoundFile", "AnimationFile", "MapName"}
spell_end == 255
special == 146
SpellArguments ==
  (131 :> "Element" @@ 135 :> "Number" @@ 136 :> "Number" @@ 137 :> "Number" @@ 138 :> "Number"
   @@ 139 :> "Stat" @@ 140 :> "Number" @@ 141 :> "Number" @@ 142 :> "Item" @@ 143 :> "Item"
   @@ 146 :> "Special" @@ 147 :> "Percent" @@ 148 :> "AnimationFile" @@ 149 :> "SoundFile"
   @@ 150 :> "Number" @@ 151 :> "EffectBit" @@ 152 :> "EffectBit" @@ 153 :> "Number"
   @@ 154 :> "Number" @@ 156 :> "Number" @@ 157 :> "Number" @@ 158 :> "Item" @@ 159 :> "Number"
   @@ 160 :> "Number" @@ 161 :> "Number" @@ 162 :> "Number" @@ 163 :> "Number" @@ 164 :> "MapName"
   @@ 165 :> "Number" @@ 166 :> "Number" @@ 167 :> "Number")

\* the commands: name, instructions, and the special action (0: none)
SpellCommands ==
  << <<"setElement", <<131>>, 0>>, <<"physicalAttack", <<135, 136>>, 0>>,
     <<"elementAttack", <<137, 138>>, 0>>, <<"drainLive", <<153, 154>>, 0>>,
     <<"alterStat", <<139, 140>>, 0>>, <<"alterStatPct", <<139, 147>>, 0>>,
     <<"playSound", <<149>>, 0>>, <<"playAnimation", <<148>>, 0>>, <<"waitRounds", <<141>>, 0>>,
     <<"waitFrames", <<150>>, 0>>, <<"throwItem", <<142>>, 0>>, <<"createItem", <<143>>, 0>>,
     <<"setEffect", <<151>>, 0>>, <<"resetEffect", <<152>>, 0>>, <<"alterVitality", <<156>>, 0>>,
     <<"alterManaNoClip", <<157>>, 0>>, <<"alterMana", <<159>>, 0>>, <<"stealMana", <<160>>, 0>>,
     <<"createWeapon", <<158>>, 0>>,
     <<"automap4", <<>>, 1>>, <<"automap8", <<>>, 2>>, <<"automap15", <<>>, 3>>,
     <<"gather1", <<>>, 4>>, <<"gather3", <<>>, 5>>, <<"gatherAll", <<>>, 6>>,
     <<"earthquake", <<>>, 7>>, <<"portraitSpellEffect", <<>>, 8>>, <<"TrueSeeing", <<>>, 9>>,
     <<"ShowHP", <<>>, 10>>, <<"Halucinacion", <<>>, 11>>, <<"teleport", <<>>, 12>>,
     <<"summon", <<>>, 13>>, <<"abyss", <<>>, 14>>, <<"abyss2", <<>>, 15>>, <<"manabattery", <<>>, 16>>,
     <<"scalesOfFate", <<>>, 17>>, <<"adjustSpeed", <<>>, 18>>, <<"whirlpool", <<>>, 19>>,
     <<"summonDemon1", <<>>, 20>>, <<"summonDemon2", <<>>, 21>>, <<"summonDemon3", <<>>, 22>>,
     <<"radiation", <<>>, 29>>, <<"incineration1", <<161, 162>>, 23>>,
     <<"incineration2", <<161, 162>>, 24>>, <<"incineration3", <<161, 162>>, 25>>,
     <<"phasedoor", <<>>, 26>>, <<"dispelMagic", <<>>, 30>> >>
Commands == ToSet(SpellCommands)
Named(command) == CHOOSE c \in Commands : c[1] = command
Command(name, args) == [command |-> name, args |-> args]

Stringz(text) == Append(text, 0)
WriteArgument(instr, arg) ==
  IF SpellArguments[instr] \in Text THEN Stringz(arg)
  ELSE Write(IF SpellArguments[instr] \in Number2 THEN int16 ELSE uint16, arg)

\* buildScript: a command with a wrong number of arguments is left out
buildScript(script) ==
  FlattenSeq([k \in 1..Len(script) |->
    LET frag == Named(script[k].command)  args == script[k].args
    IN IF Len(frag[2]) # Len(args) THEN <<>>
       ELSE FlattenSeq([i \in 1..Len(args) |-> <<frag[2][i]>> \o WriteArgument(frag[2][i], args[i])])
            \o (IF frag[3] # 0 THEN <<special>> \o Write(uint16, frag[3]) ELSE <<>>)])
  \o <<spell_end>>

\* parseSpellCmdList, to the end of the script that begins at pos
RECURSIVE parseSpellCmdList(_, _)
parseSpellCmdList(bytes, pos) ==
  IF bytes[pos] = spell_end THEN <<>>
  ELSE LET instr == bytes[pos]
           type == SpellArguments[instr]
           text == ToNul(SubSeq(bytes, pos + 1, Len(bytes)))
           r == IF type \in Text THEN Got(text, pos + Len(text) + 2)
                ELSE Parse(IF type \in Number2 THEN int16 ELSE uint16, bytes, pos + 1)
       IN <<[instr |-> instr, arg |-> r.v]>> \o parseSpellCmdList(bytes, r.pos)

\* cmd_map, action_map: the last command that begins, or goes on, with the instruction
LastWith(test(_)) ==
  LET those == {i \in 1..Len(SpellCommands) : test(SpellCommands[i])}
  IN IF those = {} THEN <<>> ELSE SpellCommands[Max(those)]
ByInstruction(instr) == LastWith(LAMBDA c : c[3] = 0 /\ instr \in ToSet(c[2]))
ByAction(action) == LastWith(LAMBDA c : c[3] # 0 /\ c[3] = action)

\* the arguments a command has taken are gone
Spent(cache, instrs) == [i \in DOMAIN cache \ instrs |-> cache[i]]

createScriptFromCmdList(list) ==
  LET step(st, cmd) ==
        LET cache == (cmd.instr :> cmd.arg) @@ st.cache
            def == IF cmd.instr = special /\ ByAction(cmd.arg) # <<>> THEN ByAction(cmd.arg)
                   ELSE ByInstruction(cmd.instr)
        IN IF def = <<>> \/ ~(ToSet(def[2]) \subseteq DOMAIN cache)
           THEN [st EXCEPT !.cache = cache]
           ELSE [cache |-> Spent(cache, ToSet(def[2])),
                 out |-> Append(st.out, Command(def[1], [i \in 1..Len(def[2]) |-> cache[def[2][i]]]))]
  IN FoldLeft(step, [cache |-> <<>>, out |-> <<>>], list).out

\* spellsToArrayBuffer: the spells as <<record, script>>; a hole is a new spell, which
\* has no script, and no script is a start of 0
NoScript == <<Command("none", <<>>)>>
Hole == <<TKouzlo.new, NoScript>>
spellsToArrayBuffer(spells) ==
  LET code(i) == IF spells[i][2] = NoScript THEN <<>> ELSE buildScript(spells[i][2])
      before(i) == FlattenSeq([j \in 1..i - 1 |-> code(j)])
      start(i) == IF spells[i][2] = NoScript THEN 0
                  ELSE Len(spells) * Size(TKouzlo) + Len(before(i))
      record(i) == Write(TKouzlo.schema, [spells[i][1] EXCEPT !.start = start(i)])
  IN FlattenSeq([i \in 1..Len(spells) |-> record(i)]) \o before(Len(spells) + 1)

\* spellsFromArrayBuffer: the table ends where the script of its first spell begins
spellsFromArrayBuffer(bytes) ==
  LET table == SubSeq(bytes, 1, Parse(TKouzlo.schema, bytes, 1).v.start)
      records == DeserializeAll(TKouzlo, table)
  IN [i \in 1..Len(records) |->
        IF records[i].start = 0 THEN Hole
        ELSE <<records[i], createScriptFromCmdList(parseSpellCmdList(bytes, records[i].start + 1))>>]

-----------------------------------------------------------------------------
\* Scripts as the editor makes them (validateCommand): every argument of a new
\* command is 0 or empty, and then what the user types.
Args(instr) == IF SpellArguments[instr] \in Text THEN {<<>>, <<65>>}
               ELSE IF SpellArguments[instr] \in Number2 THEN {0, -1} ELSE {0, 65535}
CommandsOf(name) ==
  LET instrs == Named(name)[2]
      args == CASE Len(instrs) = 0 -> {<<>>}
                [] Len(instrs) = 1 -> {<<a>> : a \in Args(instrs[1])}
                [] Len(instrs) = 2 -> Args(instrs[1]) \X Args(instrs[2])
  IN {Command(name, a) : a \in args}
=============================================================================
