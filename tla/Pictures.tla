------------------------------ MODULE Pictures ------------------------------
(***************************************************************************)
(* Pictures of 256 colours in run-length files (core/pcx.ts), the list of  *)
(* an enemy's animations (seqfile.ts, with the sections of binary.ts), and *)
(* the change of an enemy's colours in all its pictures and palettes       *)
(* (AssetsToolCol.vue).  A palette gives each index a colour, whatever a   *)
(* colour is; texts are sequences of character codes.  The header of a     *)
(* picture is a record.  Reducing true colours is left out.                *)
(***************************************************************************)
EXTENDS GameRecords

Index == 0..255
PCX(width, height, pixels, palette) ==
  [width |-> width, height |-> height, pixels |-> pixels, palette |-> palette]

\* one line: runs of up to 63 equal bytes, a single byte as it is below 0xC0
RunAt(line, x) == Max({c \in 1..63 : /\ x + c - 1 <= Len(line)
                                     /\ \A i \in x..x + c - 1 : line[i] = line[x]})
EncodeLine(line) ==
  LET from[x \in 1..Len(line) + 1] ==
        IF x > Len(line) THEN <<>>
        ELSE LET count == RunAt(line, x)
             IN (IF count > 1 \/ line[x] >= 192 THEN <<192 + (count % 64), line[x]>> ELSE <<line[x]>>)
                \o from[x + count]
  IN from[1]
\* bytesPerLine, always even
EvenWidth(width) == width + (width % 2)
LineOf(pcx, y) ==
  [x \in 1..EvenWidth(pcx.width) |-> IF x <= pcx.width THEN pcx.pixels[y * pcx.width + x] ELSE 0]
toArrayBuffer(pcx) ==
  [xmax |-> pcx.width - 1, ymax |-> pcx.height - 1, bytesPerLine |-> EvenWidth(pcx.width),
   data |-> FlattenSeq([y \in 1..pcx.height |-> EncodeLine(LineOf(pcx, y - 1))]), palette |-> pcx.palette]

\* a line read from src on, and where the next one begins; a run ends with its line
RECURSIVE DecodeLine(_, _, _, _)
DecodeLine(data, src, n, line) ==
  IF Len(line) >= n \/ src > Len(data) THEN <<line, src>>
  ELSE LET run == data[src] >= 192
           value == IF ~run THEN data[src] ELSE IF src < Len(data) THEN data[src + 1] ELSE 0
           count == IF run THEN data[src] % 64 ELSE 1
       IN DecodeLine(data, IF run THEN src + 2 ELSE src + 1, n,
                     line \o [i \in 1..Min({count, n - Len(line)}) |-> value])
fromArrayBuffer(file) ==
  LET width == file.xmax + 1
      height == file.ymax + 1
      lines == FoldLeft(LAMBDA r, y : LET l == DecodeLine(file.data, r[2], file.bytesPerLine, <<>>)
                                      IN <<r[1] \o SubSeq(l[1], 1, width), l[2]>>,
                        << <<>>, 1>>, [y \in 1..height |-> y])[1]
  IN PCX(width, height, [i \in 1..width * height |-> IF i <= Len(lines) THEN lines[i] ELSE 0], file.palette)

-----------------------------------------------------------------------------
\* Colours of an enemy.  From 128 on they are half transparent, 0 is wholly so.
Black == "black"
Opacity(i) == IF i = 0 THEN "none" ELSE IF i >= 128 THEN "half" ELSE "solid"

\* a short list of indices goes on with its own numbers; the last one that moves to
\* an index gives it its colour
remap_colors(pcx, remap) ==
  LET to == [i \in Index |-> IF i \in DOMAIN remap THEN remap[i] ELSE i]
      from(i) == {j \in Index : to[j] = i}
  IN [pcx EXCEPT !.pixels = [p \in DOMAIN @ |-> to[@[p]]],
                 !.palette = [i \in Index |-> IF from(i) = {} THEN Black ELSE @[Max(from(i))]]]
\* colors: the selected indices, in increasing order
rebuild_op_delete_color(colors) == [i \in Index |-> IF i \in ToSet(colors) THEN 0 ELSE i]
rebuild_op_make_transp(colors) ==
  LET n == Len(colors)
      to == [i \in 0..254 |-> IF i < 128 THEN i ELSE i + n]
  IN FoldLeft(LAMBDA f, i : (256 - n + i - 1 :> colors[i]) @@ (colors[i] :> i - 1 + 128) @@ f,
              to, [i \in 1..n |-> i])
rebuild_op_make_solid(colors) ==
  LET n == Len(colors)
      to == [i \in 0..254 |-> IF i \in 1..127 THEN i + n ELSE i]
  IN FoldLeft(LAMBDA f, i : (128 - n + i - 1 :> colors[i]) @@ (colors[i] :> i) @@ f,
              to, [i \in 1..n |-> i])
\* rebuild_run: every picture, and every palette of the .COL file as if it were one's
rebuild_run(pictures, palettes, remap) ==
  <<[k \in DOMAIN pictures |-> remap_colors(pictures[k], remap)],
    [k \in DOMAIN palettes |-> remap_colors(PCX(2, 2, <<0, 0, 0, 0>>, palettes[k]), remap).palette]>>

-----------------------------------------------------------------------------
\* Sections: <BLOCK>, type, size, offset, data; the last one of a type counts
BLOCK == <<60, 66, 76, 79, 67, 75, 62>>
writeSection(type, data) ==
  Write(section_header.schema, [block |-> BLOCK, type |-> type, size |-> Len(data), offs |-> 0]) \o data
RECURSIVE Sections(_, _)
Sections(bytes, pos) ==
  LET hdr == Parse(section_header.schema, bytes, pos)
      end == hdr.pos + hdr.v.size
  IN IF hdr.v.type = 0 THEN <<>>
     ELSE Sections(bytes, end) @@ (hdr.v.type :> SubSeq(bytes, hdr.pos, end - 1))

joinUint8Arrays(arrays, separator) ==
  FlattenSeq([i \in 1..Len(arrays) |-> IF i < Len(arrays) THEN Append(arrays[i], separator) ELSE arrays[i]])
splitArrayBuffer(bytes, separator) ==
  LET ends == SelectSeq([i \in 1..Len(bytes) + 1 |-> i],
                        LAMBDA i : i = Len(bytes) + 1 \/ bytes[i] = separator)
  IN [k \in 1..Len(ends) |-> SubSeq(bytes, IF k = 1 THEN 1 ELSE ends[k - 1] + 1, ends[k] - 1)]

-----------------------------------------------------------------------------
\* .SEQ files: animation[row] is a sequence of frames; a row that was never set is
\* not in the domain
Frame(name, x, y) == [name |-> name, offset_x |-> x, offset_y |-> y]
SeqFile(animation, big, hit_pos) == [animation |-> animation, big |-> big, hit_pos |-> hit_pos]
Rows(film) == SelectSeq(<<0, 1, 2, 3, 4, 5, 6, 7, 8, 9>>, LAMBDA r : r \in DOMAIN film.animation)
\* the names in order of their first use
strtable(film) ==
  LET rows == Rows(film)
  IN FoldLeft(LAMBDA t, f : IF f.name \in ToSet(t) THEN t ELSE Append(t, f.name), <<>>,
              FlattenSeq([i \in 1..Len(rows) |-> film.animation[rows[i]]]))
seqToArrayBuffer(film) ==
  LET names == strtable(film)
      file(f) == (CHOOSE i \in DOMAIN names : names[i] = f.name) - 1
      item(f) == Write(NewItem.schema, [file |-> file(f), offsetx |-> f.offset_x, offsety |-> f.offset_y])
      row(r) == LET x == film.animation[r]
                IN Write(NewHeader.schema, [row |-> r, count |-> Len(x)])
                   \o FlattenSeq([i \in 1..Len(x) |-> item(x[i])])
      rows == Rows(film)
      config == Write(Config.schema, [big |-> IF film.big THEN 1 ELSE 0, hitpos |-> film.hit_pos])
  IN writeSection(1, FlattenSeq([i \in 1..Len(rows) |-> row(rows[i])]))
     \o writeSection(2, joinUint8Arrays(Append(names, <<>>), 0)) \o writeSection(3, config)
     \o writeSection(0, <<>>)

RECURSIVE ReadFrames(_, _, _, _), ReadRows(_, _, _)
ReadFrames(data, pos, count, names) ==
  IF count = 0 THEN <<>>
  ELSE LET itm == Parse(NewItem.schema, data, pos)
       IN <<Frame(names[itm.v.file + 1], itm.v.offsetx, itm.v.offsety)>>
          \o ReadFrames(data, itm.pos, count - 1, names)
ReadRows(data, pos, names) ==
  IF pos > Len(data) THEN <<>>
  ELSE LET h == Parse(NewHeader.schema, data, pos)
       IN ReadRows(data, h.pos + h.v.count * Size(NewItem), names)
          @@ (h.v.row :> ReadFrames(data, h.pos, h.v.count, names))
seqFromArrayBuffer(bytes) ==
  LET s == Sections(bytes, 1)
      cfg == Parse(Config.schema, s[3], 1).v
  IN SeqFile(ReadRows(s[1], 1, splitArrayBuffer(s[2], 0)), cfg.big # 0, cfg.hitpos)

\* the old form: six lines, a letter for each frame; standing still is the first frame
\* of each walk, which the walk loses
AnimationTypeLetter == <<70, 76, 66, 76, 67, 72>>
Upper(c) == IF c \in 97..122 THEN c - 32 ELSE c
PCX_EXT == <<46, 80, 67, 88>>
seqFromText(lines, baseName) ==
  LET a == [ph \in 0..5 |-> [fr \in 1..Len(lines[ph + 1]) |->
             Frame(baseName \o <<AnimationTypeLetter[ph + 1], Upper(lines[ph + 1][fr])>> \o PCX_EXT, -1000, 0)]]
  IN SeqFile([i \in 0..9 |-> IF i < 4 THEN Tail(a[i]) ELSE IF i < 6 THEN a[i] ELSE <<a[i - 6][1]>>], FALSE, 0)
=============================================================================
