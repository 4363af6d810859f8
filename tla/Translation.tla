----------------------------- MODULE Translation -----------------------------
(***************************************************************************)
(* views/TranslationTools.vue: a table of all texts of the project is      *)
(* generated (core/translate.ts, core/string_table.ts), filled in, and     *)
(* applied to a copy of the project (lang.copyddl of the server, which     *)
(* copies what has changed since the last time).                           *)
(* Texts are sequences of characters, and "a" to "z" stand for words.      *)
(***************************************************************************)
EXTENDS Integers, Sequences, SequencesExt, FiniteSets, FiniteSetsExt, Functions, TLC

CONSTANTS MaxChanges    \* bounds the user's edits, tables and updates

VARIABLES
  source,     \* the project's files
  target,     \* the copy's files, and .MANIFEST: what the files were when they were copied
  csv,        \* the table as it came from the translator, imported; and what he wrote in it
  applied     \* the last update: whether it ended, what it took; ghost: all that was ever written

translation_vars == <<source, target, csv, applied>>

-----------------------------------------------------------------------------
\* core/translate.ts

Quote == "\""
\* slip: quotes are not doubled
csv_field_Single(s) ==
  <<Quote>> \o FlattenSeq([i \in DOMAIN s |-> IF s[i] = "\n" THEN <<"\r", "\n">> ELSE <<s[i]>>]) \o <<Quote>>
csv_field(s) ==
  <<Quote>> \o FlattenSeq([i \in DOMAIN s |-> IF s[i] = Quote THEN <<Quote, Quote>>
                                              ELSE IF s[i] = "\n" THEN <<"\r", "\n">> ELSE <<s[i]>>]) \o <<Quote>>
Between(s, at) == [k \in 1..Len(at) - 1 |-> SubSeq(s, at[k] + 1, at[k + 1] - 1)]
Pieces(s, cuts) == Between(s, <<0>> \o SelectSeq([i \in DOMAIN s |-> i], LAMBDA i : i \in cuts) \o <<Len(s) + 1>>)
Split(s, c) == Pieces(s, {i \in DOMAIN s : s[i] = c})
Quoted(s, i) == Cardinality({k \in 1..i : s[k] = Quote}) % 2 = 1
split_ignore_in_quotes(s, c) == Pieces(s, {i \in DOMAIN s : s[i] = c /\ ~Quoted(s, i)})
trim(s) ==
  LET ink == SelectSeq([i \in DOMAIN s |-> i], LAMBDA i : s[i] \notin {" ", "\n", "\r"})
  IN IF ink = <<>> THEN <<>> ELSE SubSeq(s, Head(ink), Last(ink))
unquote(s) ==            \* of two quotes one stays
  LET in == SubSeq(s, 2, Len(s) - 1)
      second[i \in 0..Len(in)] == i > 1 /\ in[i] = Quote /\ in[i - 1] = Quote /\ ~second[i - 1]
      kept == SelectSeq([i \in DOMAIN in |-> i], LAMBDA i : ~second[i])
  IN [i \in DOMAIN kept |-> in[kept[i]]]
field(s) == LET y == trim(s) IN IF y # <<>> /\ Head(y) = Quote /\ Last(y) = Quote THEN unquote(y) ELSE y

\* rows of file, node, original, translated; the spreadsheet quotes as export_csv does
Joined(parts, sep) == FlattenSeq([i \in DOMAIN parts |-> (IF i = 1 THEN <<>> ELSE sep) \o parts[i]])
Line(row) == Joined([i \in DOMAIN row |-> csv_field(row[i])], <<",">>)
export_csv(rows) == Joined(<< <<"File", ",", "Node", ",", "Original", ",", "Translated">> >> \o [i \in DOMAIN rows |-> Line(rows[i])],
                           <<"\r", "\n">>)
Fields(pieces) == [i \in DOMAIN pieces |-> field(pieces[i])]
Table(rows) ==
  LET key(r) == <<r[1], r[2]>>
  IN [k \in {key(r) : r \in ToSet(rows)} |-> rows[Max({i \in DOMAIN rows : key(rows[i]) = k})][4]]
Rows(lines) ==           \* with a file, a node and a translation
  SelectSeq([i \in 1..Len(lines) - 1 |-> Fields(split_ignore_in_quotes(lines[i + 1], ","))],
            LAMBDA r : Len(r) >= 4 /\ r[1] # <<>> /\ r[2] # <<>> /\ r[4] # <<>>)
import_csv(text) ==
  Table(Rows(split_ignore_in_quotes(SelectSeq(text, LAMBDA x : x # "\r"), "\n")))

-----------------------------------------------------------------------------
\* core/string_table.ts: a text file with a line for each number

Replaced(s, from, to) == [i \in DOMAIN s |-> IF s[i] = from THEN to ELSE s[i]]
serialize_stringtable(ss) ==
  LET numbers == SetToSortSeq(DOMAIN ss, LAMBDA m, n : m < n)
      line(n) == <<ToString(n), " ">> \o SelectSeq(Replaced(ss[n], "\n", "|"), LAMBDA x : x # "\r")
  IN Joined([i \in DOMAIN numbers |-> line(numbers[i])] \o << <<"-1">> >>, <<"\n">>) \o <<"\n">>
Trimmed(lines) == [i \in DOMAIN lines |-> trim(lines[i])]
NumberedLines(txt) == SelectSeq(Trimmed(Split(txt, "\n")), LAMBDA x : Len(x) > 2 /\ x[2] = " ")
Digit(c) == CHOOSE n \in 0..9 : ToString(n) = c
parse_stringtable(txt) ==
  FoldLeft(LAMBDA ss, x : (Digit(x[1]) :> Replaced(trim(SubSeq(x, 3, Len(x))), "|", "\n")) @@ ss, <<>>, NumberedLines(txt))

-----------------------------------------------------------------------------
\* The project: in every file the texts of its nodes.  The two text files are kept as
\* they are on the disk.

StringFiles == {"M.TXT", "POPISY.TXT"}
Files == {"ITEMS.DAT", "ENEMY.DAT", "DIALOGY.JSON", "DIALOGY.DAT", "SHOPS.DAT", "KOUZLA.DAT", "POSTAVY.DAT", "M.MAP"}
         \union StringFiles
FileRef == "ITEMS.DAT" :> "item" @@ "ENEMY.DAT" :> "enemy" @@ "DIALOGY.JSON" :> "dialog" @@ "SHOPS.DAT" :> "shop"
           @@ "KOUZLA.DAT" :> "spell" @@ "POSTAVY.DAT" :> "char" @@ "M.MAP" :> "mapname"
           @@ "M.TXT" :> "M.MAP" @@ "POPISY.TXT" :> "POPISY.TXT"
Noded(ss) == [node \in {<<ToString(n)>> : n \in DOMAIN ss} |-> ss[Digit(node[1])]]
Texts(file, content) == IF file \in StringFiles THEN Noded(parse_stringtable(content)) ELSE content
WithTexts(file, texts) ==
  IF file \in StringFiles
  THEN serialize_stringtable([k \in {Digit(node[1]) : node \in DOMAIN texts} |-> texts[<<ToString(k)>>]])
  ELSE texts
Key(file, node) == << <<FileRef[file]>>, node>>

\* what a table is generated from: names of characters and enemies, playlists and the
\* texts 0 only when asked for, spells by their first level, no empty texts of dialogs
Playlist(text) == text # <<>> /\ Head(text) \in {"FORWARD", "RANDOM", "FIRST"}     \* not one without such a word
Generated(file, config) ==
  LET t == Texts(file, source[file])
      runes(node) == node \in {<<ToString(3 * n)>> : n \in 0..34}
      kept(node) ==
        CASE file = "ENEMY.DAT" -> config.enemies
          [] file = "POSTAVY.DAT" -> config.char
          [] file = "DIALOGY.DAT" -> FALSE
          [] file = "KOUZLA.DAT" -> runes(node)
          [] file \in {"DIALOGY.JSON", "M.MAP"} -> t[node] # <<>>
          [] file = "M.TXT" -> (node = <<"0">> => config.index0) /\ (Playlist(t[node]) => config.playlist)
          [] file = "POPISY.TXT" -> Playlist(t[node]) => config.playlist
          [] OTHER -> TRUE
  IN [node \in {node \in DOMAIN t : kept(node)} |-> t[node]]

\* lang.copyddl: what the target has not, and what has changed and is not protected
Copied(ignore) ==
  {f \in Files : f \notin DOMAIN target.manifest \/ (target.manifest[f] # source[f] /\ f \notin ignore)}
lang_copyddl(ignore) ==
  LET c == Copied(ignore)
  IN [files |-> [f \in c |-> source[f]] @@ target.files, manifest |-> [f \in c |-> source[f]] @@ target.manifest]

Translated(file, content, table) ==
  LET t == Texts(file, content)
  IN IF t = <<>> THEN content
     ELSE WithTexts(file, [node \in DOMAIN t |-> IF Key(file, node) \in DOMAIN table THEN table[Key(file, node)] ELSE t[node]])
\* do_apply_stringtable: the files one after another.  Enemies of the old format are left
\* out, and the dialogs are compiled when they can be.
Order == <<"ITEMS.DAT", "ENEMY.DAT", "DIALOGY.JSON", "SHOPS.DAT", "KOUZLA.DAT", "POSTAVY.DAT", "M.TXT", "M.MAP", "POPISY.TXT">>
do_apply_stringtable(files, table, upto) ==
  LET step(fs, file) ==
        IF file = "ENEMY.DAT" /\ <<"old">> \in DOMAIN fs[file] THEN fs
        ELSE LET x == Translated(file, fs[file], table)
             IN IF file = "DIALOGY.JSON" /\ <<"broken">> \notin DOMAIN x
                THEN [fs EXCEPT ![file] = x, !["DIALOGY.DAT"] = x] ELSE [fs EXCEPT ![file] = x]
  IN FoldLeft(step, files, SubSeq(Order, 1, upto))

-----------------------------------------------------------------------------
Change(text) ==           \* a text is edited, or an entry deleted and its number given to another
  /\ applied.changes < MaxChanges
  /\ \E file \in {"ITEMS.DAT", "M.TXT", "DIALOGY.JSON"} : \E node \in DOMAIN Texts(file, source[file]) :
       source' = [source EXCEPT ![file] = WithTexts(file, [Texts(file, source[file]) EXCEPT ![node] = text])]
  /\ applied' = [applied EXCEPT !.ended = FALSE, !.changes = @ + 1]
  /\ UNCHANGED <<target, csv>>

\* The translator leaves out the rows of one file, or none.
Fill(original) == <<"T">> \o original
RowsOf(file, t, filled, nodes) ==
  [i \in DOMAIN nodes |-> << <<FileRef[file]>>, nodes[i], t[nodes[i]],
                             IF nodes[i] \in DOMAIN filled THEN Fill(t[nodes[i]]) ELSE <<>> >>]
generate_stringtable(config, without) ==
  LET of(file) == IF FileRef[file] = without THEN <<>> ELSE Generated(file, config)
      written(file, t) == {<<Key(file, node), Fill(t[node])>> : node \in DOMAIN t}
  IN /\ applied.changes < MaxChanges /\ applied' = [applied EXCEPT !.changes = @ + 1]
     /\ csv' = [table |-> import_csv(export_csv(FlattenSeq([i \in DOMAIN Order |->
                   LET t == Generated(Order[i], config) IN RowsOf(Order[i], t, of(Order[i]), SetToSeq(DOMAIN t))]))),
                 written |-> UNION {written(file, of(file)) : file \in DOMAIN FileRef}]
     /\ UNCHANGED <<source, target>>
\* an update may break off between two files
update_target_csv(ignore, upto) ==
  /\ csv.table # <<>> /\ applied.changes < MaxChanges
  /\ LET copy == lang_copyddl(ignore)
     IN target' = [copy EXCEPT !.files = do_apply_stringtable(@, csv.table, upto)]
  /\ applied' = [ended |-> upto = Len(Order), changes |-> applied.changes + 1, ignore |-> ignore,
                 written |-> csv.written, ever |-> applied.ever \union csv.written]
  /\ UNCHANGED <<source, csv>>

TranslationNext ==
  \/ Change(<<"n", Quote, ",", "\n", "m">>)
  \/ \E all \in BOOLEAN, without \in {"item", ""} :
       generate_stringtable([enemies |-> all, char |-> all, index0 |-> all, playlist |-> all], without)
  \/ \E ignore \in {{}, {"M.TXT"}}, upto \in {3, Len(Order)} : update_target_csv(ignore, upto)
=============================================================================
