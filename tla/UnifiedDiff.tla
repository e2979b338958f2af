---------------------------- MODULE UnifiedDiff ----------------------------
(***************************************************************************)
(* Line diffs and unified diffs: packages/fs-engine/src/diff.ts.           *)
(*                                                                         *)
(* A text is the sequence of its lines.  A rendered diff is a sequence of  *)
(* diff lines: file headers, hunk headers and body lines, each body line   *)
(* being a marker and the line it carries.  What parseUnifiedDiff tells    *)
(* apart about the characters of a line is only how it begins, so two      *)
(* subsets of Line stand for the lines beginning with "--" and with "++".  *)
(* The final newline of a text and the wording of refusals are left out.   *)
(***************************************************************************)
EXTENDS Integers, Sequences, FiniteSets, SequencesExt, Selection

CONSTANTS
  Line,      \* the lines texts are made of
  DashLine,  \* those beginning with "--" (an SQL or Lua comment, a Markdown rule)
  PlusLine,  \* those beginning with "++"
  LcsGuard   \* LCS_GUARD: longer texts are diffed as a whole-file replacement

ASSUME LineAssumption ==
  /\ DashLine \subseteq Line
  /\ PlusLine \subseteq Line
  /\ LcsGuard \in Nat

Text == Seq(Line)
NoText == [ok |-> FALSE]
Wrote(text) == [ok |-> TRUE, text |-> text]

-----------------------------------------------------------------------------
(* The edit script: diffLines.                                             *)

Op(kind, line) == [kind |-> kind, line |-> line]
Ops(kind, text) == [i \in DOMAIN text |-> Op(kind, text[i])]

(* Length of the common prefix, then of the common suffix that is left.    *)
CommonHead(a, b) ==
  Max({n \in 0..Min({Len(a), Len(b)}) : \A k \in 1..n : a[k] = b[k]})

CommonTail(a, b) ==
  LET room == Min({Len(a), Len(b)}) - CommonHead(a, b)
  IN Max({n \in 0..room : \A k \in 1..n : a[Len(a) + 1 - k] = b[Len(b) + 1 - k]})

(* table[<<i, j>>]: the longest common subsequence of a from i, b from j.  *)
Cells(a, b) == (1..Len(a) + 1) \X (1..Len(b) + 1)

LcsTable(a, b) ==
  LET table[c \in Cells(a, b)] ==
        LET i == c[1]
            j == c[2]
        IN IF i > Len(a) \/ j > Len(b) THEN 0
           ELSE IF a[i] = b[j] THEN table[<<i + 1, j + 1>>] + 1
           ELSE Max({table[<<i + 1, j>>], table[<<i, j + 1>>]})
  IN table

(* Seeded bug: the shorter of the two subsequences is followed.            *)
PreferShorter(table, i, j) == table[<<i + 1, j>>] < table[<<i, j + 1>>]

(* On a tie the deletion comes first, as in the code.                      *)
PreferDelete(table, i, j) == table[<<i + 1, j>>] >= table[<<i, j + 1>>]

(* The script from each cell of the table on.                              *)
Walk(a, b) ==
  LET table == LcsTable(a, b)
      walk[c \in Cells(a, b)] ==
        LET i == c[1]
            j == c[2]
        IN IF i > Len(a) THEN Ops("insert", SubSeq(b, j, Len(b)))
           ELSE IF j > Len(b) THEN Ops("delete", SubSeq(a, i, Len(a)))
           ELSE IF a[i] = b[j] THEN <<Op("equal", a[i])>> \o walk[<<i + 1, j + 1>>]
           ELSE IF PreferDelete(table, i, j)
                THEN <<Op("delete", a[i])>> \o walk[<<i + 1, j>>]
           ELSE <<Op("insert", b[j])>> \o walk[<<i, j + 1>>]
  IN walk

Script(a, b) == Walk(a, b)[<<1, 1>>]

DiffLines(before, after) ==
  IF Len(before) > LcsGuard \/ Len(after) > LcsGuard
  THEN Ops("delete", before) \o Ops("insert", after)
  ELSE LET head == CommonHead(before, after)
           tail == CommonTail(before, after)
       IN Ops("equal", SubSeq(before, 1, head))
          \o Script(SubSeq(before, head + 1, Len(before) - tail),
                    SubSeq(after, head + 1, Len(after) - tail))
          \o Ops("equal", SubSeq(after, Len(after) - tail + 1, Len(after)))

-----------------------------------------------------------------------------
(* Hunks: groupIntoHunks and formatUnifiedDiff.                            *)

Marker == [equal |-> " ", delete |-> "-", insert |-> "+"]

(* The lines of the operations of some kinds: the old text's, the new's.    *)
Side(ops, kinds) ==
  Picked([i \in DOMAIN ops |-> ops[i].line], {i \in DOMAIN ops : ops[i].kind \in kinds})
OldSide(ops) == Side(ops, {"equal", "delete"})
NewSide(ops) == Side(ops, {"equal", "insert"})

(* A range of no lines is numbered by the line before it.                  *)
FirstLine(before, count) == IF count = 0 THEN before ELSE before + 1

HunkOver(ops, from, to) ==
  LET body == SubSeq(ops, from, to)
      ahead == SubSeq(ops, 1, from - 1)
      oldCount == Len(OldSide(body))
      newCount == Len(NewSide(body))
  IN [oldStart |-> FirstLine(Len(OldSide(ahead)), oldCount),
      oldLines |-> oldCount,
      newStart |-> FirstLine(Len(NewSide(ahead)), newCount),
      newLines |-> newCount,
      lines |-> [k \in DOMAIN body |-> [mark |-> Marker[body[k].kind], text |-> body[k].line]]]

(* Seeded bug: the context of two neighbouring changes may overlap.        *)
ApartByOneContext(i, j, context) == j - i > context

(* Changes at most 2 * context apart share a hunk.                         *)
Apart(i, j, context) == j - i > 2 * context

(* Where hunks begin to change the text, and their last changes.           *)
Changed(ops) == {i \in DOMAIN ops : ops[i].kind # "equal"}
Starts(ops, context) ==
  {i \in Changed(ops) : \A j \in Changed(ops) : j < i => Apart(j, i, context)}
LastChange(ops, context, i) ==
  Max({j \in Changed(ops) : \A s \in Starts(ops, context) : s > i => j < s})

(* The hunk of the changes from i on, with its context.                    *)
From(i, context) == Max({1, i - context})
To(ops, context, i) == Min({Len(ops), LastChange(ops, context, i) + context})

Hunks(ops, context) ==
  LET order == Picked([i \in DOMAIN ops |-> i], Starts(ops, context))
  IN [k \in DOMAIN order |->
        HunkOver(ops, From(order[k], context), To(ops, context, order[k]))]

FileHeader == [is |-> "file"]
HunkHeader(h) == [is |-> "hunk", oldStart |-> h.oldStart, oldLines |-> h.oldLines,
                  newStart |-> h.newStart, newLines |-> h.newLines]
BodyLine(l) == [is |-> "body", mark |-> l.mark, text |-> l.text]
Rendered(h) == <<HunkHeader(h)>> \o [k \in DOMAIN h.lines |-> BodyLine(h.lines[k])]

FormatUnifiedDiff(before, after, context) ==
  LET hunks == Hunks(DiffLines(before, after), context)
  IN IF hunks = <<>> THEN <<>>
     ELSE <<FileHeader, FileHeader>> \o FlattenSeq([k \in DOMAIN hunks |-> Rendered(hunks[k])])

-----------------------------------------------------------------------------
(* Reading a diff back: parseUnifiedDiff.  Whatever looks like a file      *)
(* header is skipped wherever it stands, a body line rendered "---..." or  *)
(* "+++..." included.                                                      *)

LooksLikeFileHeader(line) ==
  \/ line.is = "file"
  \/ line.mark = "-" /\ line.text \in DashLine
  \/ line.mark = "+" /\ line.text \in PlusLine

ReadLine(hunks, line) ==
  IF line.is = "hunk"
  THEN Append(hunks, [oldStart |-> line.oldStart, oldLines |-> line.oldLines,
                      newStart |-> line.newStart, newLines |-> line.newLines,
                      lines |-> <<>>])
  ELSE IF hunks = <<>> \/ LooksLikeFileHeader(line) THEN hunks
  ELSE [hunks EXCEPT ![Len(hunks)].lines =
          Append(@, [mark |-> line.mark, text |-> line.text])]

ParseUnifiedDiff(diff) == FoldLeft(ReadLine, <<>>, diff)

-----------------------------------------------------------------------------
(* Applying hunks to a text: applyUnifiedDiff.                             *)

(* Seeded bug: removed lines are counted off, not compared.                *)
ApplyLineTrusting(text, acc, line) ==
  IF line.mark = "+" THEN [acc EXCEPT !.out = Append(@, line.text)]
  ELSE IF acc.cursor >= Len(text) \/ (line.mark = " " /\ text[acc.cursor + 1] # line.text)
       THEN [acc EXCEPT !.ok = FALSE]
  ELSE [acc EXCEPT !.cursor = @ + 1,
                   !.out = IF line.mark = " " THEN Append(@, line.text) ELSE @]

(* cursor counts the lines of the text already consumed.                   *)
ApplyLine(text, acc, line) ==
  IF line.mark = "+" THEN [acc EXCEPT !.out = Append(@, line.text)]
  ELSE IF acc.cursor >= Len(text) \/ text[acc.cursor + 1] # line.text
       THEN [acc EXCEPT !.ok = FALSE]
  ELSE [acc EXCEPT !.cursor = @ + 1,
                   !.out = IF line.mark = " " THEN Append(@, line.text) ELSE @]

(* The hunk must start after the previous one and inside the text.         *)
HunkFits(text, acc, hunk) ==
  hunk.oldStart - 1 >= acc.cursor /\ hunk.oldStart - 1 <= Len(text)

(* Once a line has been refused the others change nothing.                 *)
ApplyLines(text, start, lines) ==
  LET Step(acc, line) == IF acc.ok THEN ApplyLine(text, acc, line) ELSE acc
  IN FoldLeft(Step, start, lines)

ApplyHunk(text, acc, hunk) ==
  IF ~acc.ok \/ ~HunkFits(text, acc, hunk) THEN [acc EXCEPT !.ok = FALSE]
  ELSE LET target == hunk.oldStart - 1
           moved == [acc EXCEPT !.out = @ \o SubSeq(text, acc.cursor + 1, target),
                                !.cursor = target]
       IN ApplyLines(text, moved, hunk.lines)

ApplyHunks(text, hunks) ==
  LET Step(acc, hunk) == ApplyHunk(text, acc, hunk)
  IN FoldLeft(Step, [ok |-> TRUE, out |-> <<>>, cursor |-> 0], hunks)

ApplyUnifiedDiff(text, hunks) ==
  LET end == ApplyHunks(text, hunks)
  IN IF hunks = <<>> \/ ~end.ok THEN NoText
     ELSE Wrote(end.out \o SubSeq(text, end.cursor + 1, Len(text)))
=============================================================================
