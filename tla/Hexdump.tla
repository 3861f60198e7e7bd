------------------------------ MODULE Hexdump ------------------------------
(***************************************************************************)
(* hexdump::format(), which puts together one line after the other in one  *)
(* buffer that it never clears.  A cell of the buffer says what is shown   *)
(* in it: a half of a byte or the byte in plain, a digit of an offset,     *)
(* padding or the frame.                                                   *)
(***************************************************************************)
EXTENDS Integers, SequencesExt

CONSTANTS
  OffsetSize,     (* The bytes of an offset.                                *)
  BytesPerLine,   (* The bytes shown in a line,                             *)
  BytesPerColumn, (* in columns of so many bytes,                           *)
  Groups,         (* in so many groups of columns.                          *)
  ColumnPad,      (* The cells between two columns,                         *)
  GroupPad,       (* and behind the offset and each group.                  *)
  Frame,          (* Whether there is a frame.                              *)
  Sizes,          (* The sizes of inputs.                                   *)
  Bases           (* What the displayed offset starts from.                 *)

HexdumpAssumption ==
  /\ {OffsetSize, BytesPerColumn, Groups} \subseteq Nat \ {0}
  /\ {ColumnPad, GroupPad} \subseteq Nat
  /\ BytesPerLine \in {BytesPerColumn * Groups * n : n \in 1 .. BytesPerLine}
  /\ Frame \in BOOLEAN
  /\ Sizes \subseteq Nat /\ Bases \subseteq Nat

ColumnsPerGroup == (BytesPerLine \div BytesPerColumn) \div Groups
BytesPerGroup   == ColumnsPerGroup * BytesPerColumn

OffsetWidth == 2 * OffsetSize + GroupPad
ColumnWidth == 2 * BytesPerColumn + ColumnPad
GroupWidth  == (ColumnsPerGroup - 1) * ColumnWidth + 2 * BytesPerColumn + GroupPad
PlainWidth  == IF Frame THEN 2 + BytesPerLine ELSE BytesPerLine
LineWidth   == OffsetWidth + Groups * GroupWidth + PlainWidth

VARIABLES
  size,    (* The size of the input.                                        *)
  base,    (* The offset its first byte is displayed with.                  *)
  pc,      (* Which part of the output comes next.                          *)
  shown,   (* The bytes that are in lines already.                          *)
  linebuf, (* The line buffer; what it holds at first is not defined.       *)
  result   (* The lines of the output.                                      *)

vars == <<size, base, pc, shown, linebuf, result>>

Undefined     == <<"undefined">>
Blank         == <<"blank">>
Bar           == <<"frame">>
Half(i, k)    == <<"half", i, k>>
Plain(i)      == <<"plain", i>>
Digit(d)      == <<"digit", d>>

-----------------------------------------------------------------------------
(* A line is built in the buffer from a position on.                       *)
Put(line, cells) ==
  [buf |-> [i \in DOMAIN line.buf |->
              IF i \in line.pos + 1 .. line.pos + Len(cells)
              THEN cells[i - line.pos] ELSE line.buf[i]],
   pos |-> line.pos + Len(cells)]

AddPad(line, amount) == Put(line, [i \in 1 .. amount |-> Blank])

(* The last digits of an offset.                                           *)
OffsetDigits(offset) ==
  [k \in 1 .. 2 * OffsetSize |-> Digit((offset \div 16 ^ (2 * OffsetSize - k)) % 16)]

AddOffset(line, offset) == Put(line, OffsetDigits(offset))

(* A fault: the position is advanced, but nothing is put there.            *)
AddColumnSkipping(line, from, count) ==
  LET halves == [k \in 1 .. 2 * count |-> Half(from + (k - 1) \div 2, (k - 1) % 2)]
  IN  [Put(line, halves) EXCEPT !.pos = line.pos + 2 * BytesPerColumn]

(* A column of the count bytes from the given one on.  The padding for     *)
(* those it has not is put where the column starts, and only then is the   *)
(* position advanced by the halves that were put there.                    *)
AddColumn(line, from, count) ==
  LET halves == [k \in 1 .. 2 * count |-> Half(from + (k - 1) \div 2, (k - 1) % 2)]
      padded == AddPad([Put(line, halves) EXCEPT !.pos = line.pos],
                       2 * (BytesPerColumn - count))
  IN  [padded EXCEPT !.pos = @ + Len(halves)]

(* The bytes left of count ones after the first i parts of n bytes each.   *)
Part(i, n, count) ==
  LET taken == Min({i * n, count})
  IN  [from |-> taken, count |-> Min({n, count - taken})]

Indices(n) == [i \in 1 .. n |-> i - 1]

(* A group pads between its columns, and not behind the last one.          *)
AddGroup(line, from, count) ==
  FoldLeft(LAMBDA l, i :
             LET part   == Part(i, BytesPerColumn, count)
                 column == AddColumn(l, from + part.from, part.count)
             IN  IF i = ColumnsPerGroup - 1 THEN column ELSE AddPad(column, ColumnPad),
           line, Indices(ColumnsPerGroup))

AddGroups(line, from, count) ==
  FoldLeft(LAMBDA l, i :
             LET part == Part(i, BytesPerGroup, count)
             IN  AddPad(AddGroup(l, from + part.from, part.count), GroupPad),
           line, Indices(Groups))

AddPlaintext(line, from, count) ==
  LET bar == IF Frame THEN <<Bar>> ELSE <<>>
  IN  Put(line, bar \o [i \in 1 .. count |-> Plain(from + i - 1)] \o bar)

(* The line of count bytes.                                                *)
Line(count) ==
  LET start == [buf |-> linebuf, pos |-> 0]
      bytes == AddGroups(AddPad(AddOffset(start, base + shown), GroupPad), shown, count)
  IN  AddPlaintext(bytes, shown, count)

Emit(line) ==
  /\ linebuf' = line.buf
  /\ result' = Append(result, SubSeq(line.buf, 1, line.pos))

-----------------------------------------------------------------------------
Init ==
  /\ size \in Sizes /\ base \in Bases
  /\ pc = "line" /\ shown = 0 /\ result = <<>>
  /\ linebuf = [i \in 1 .. LineWidth + 1 |-> Undefined]

(* Nothing is shown of nothing.                                            *)
ShowNothing ==
  /\ pc = "line" /\ size = 0
  /\ pc' = "done"
  /\ UNCHANGED <<size, base, shown, linebuf, result>>

(* All lines but the last are full.                                        *)
FullLine ==
  /\ pc = "line" /\ size > 0
  /\ size - shown >= BytesPerLine
  /\ Emit(Line(BytesPerLine))
  /\ shown' = shown + BytesPerLine
  /\ UNCHANGED <<size, base, pc>>

(* The last line has what remains, which may be nothing.                   *)
LastLine ==
  /\ pc = "line" /\ size > 0
  /\ size - shown < BytesPerLine
  /\ Emit(Line(size - shown))
  /\ shown' = size
  /\ pc' = "offset"
  /\ UNCHANGED <<size, base>>

EndOffset ==
  /\ pc = "offset"
  /\ Emit(AddOffset([buf |-> linebuf, pos |-> 0], base + shown))
  /\ pc' = "done"
  /\ UNCHANGED <<size, base, shown>>

Terminated == pc = "done" /\ UNCHANGED vars

Next == ShowNothing \/ FullLine \/ LastLine \/ EndOffset \/ Terminated

Spec == Init /\ [][Next]_vars

-----------------------------------------------------------------------------
(* Properties.                                                             *)

(* Where the widths that are computed for a line put byte b of it.         *)
HalfAt(b) ==
  OffsetWidth + (b \div BytesPerGroup) * GroupWidth
    + ((b % BytesPerGroup) \div BytesPerColumn) * ColumnWidth
    + 2 * (b % BytesPerColumn) + 1
PlainAt(b) ==
  OffsetWidth + Groups * GroupWidth + b + (IF Frame THEN 2 ELSE 1)

(* Every byte is shown where the widths of the layout put it, in its line, *)
(* as two halves and in plain, behind the offset of that line; the last    *)
(* offset is that of the end of the input.  No line shows what an earlier  *)
(* one has left in the buffer, or what was in it at first, and none is     *)
(* longer than the width computed for it: "We also add padding empty       *)
(* columns or remaining parts".                                            *)
ShowsInput ==
  /\ \A i \in 0 .. shown - 1 :
       LET line == result[1 + i \div BytesPerLine]
           b    == i % BytesPerLine
       IN  /\ PlainAt(b) <= Len(line)
           /\ line[HalfAt(b)] = Half(i, 0) /\ line[HalfAt(b) + 1] = Half(i, 1)
           /\ line[PlainAt(b)] = Plain(i)
  /\ \A l \in DOMAIN result :
       /\ SubSeq(result[l], 1, 2 * OffsetSize)
            = OffsetDigits(base + Min({(l - 1) * BytesPerLine, size}))
       /\ Len(result[l]) <= LineWidth
       /\ \A c \in ToSet(result[l]) :
            /\ c # Undefined
            /\ c[1] \in {"half", "plain"} => c[2] \div BytesPerLine = l - 1
=============================================================================
