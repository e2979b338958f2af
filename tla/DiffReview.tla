----------------------------- MODULE DiffReview -----------------------------
(***************************************************************************)
(* The life of a unified diff: it is rendered for the reviewer from the    *)
(* text before and after a change (renderDiff and formatUnifiedDiff), read *)
(* back (parseUnifiedDiff) and applied to a text, which may have changed   *)
(* since (the "unified" operation of patch.ts, applyUnifiedDiff).          *)
(***************************************************************************)
EXTENDS UnifiedDiff

CONSTANTS
  MaxLines,  \* bound: texts of at most this many lines
  Contexts   \* the numbers of context lines diffs are rendered with

ASSUME ReviewAssumption == MaxLines \in Nat /\ Contexts \subseteq Nat

VARIABLES
  stage,    \* "written", "rendered", "parsed", "applied"
  before,   \* the text the change was computed from
  after,    \* the text it proposes
  context,  \* lines of context
  diff,     \* the rendered diff
  hunks,    \* what parsing it gave
  base,     \* the text it is applied to
  result    \* the outcome of applying it

reviewVars == <<stage, before, after, context, diff, hunks, base, result>>

Texts == BoundedSeq(Line, MaxLines)

ReviewInit ==
  /\ stage = "written"
  /\ before \in Texts
  /\ after \in Texts \ {before}
  /\ context \in Contexts
  /\ diff = <<>>
  /\ hunks = <<>>
  /\ base = before
  /\ result = NoText

Render ==
  /\ stage = "written"
  /\ stage' = "rendered"
  /\ diff' = FormatUnifiedDiff(before, after, context)
  /\ UNCHANGED <<before, after, context, hunks, base, result>>

Parse ==
  /\ stage = "rendered"
  /\ stage' = "parsed"
  /\ hunks' = ParseUnifiedDiff(diff)
  /\ UNCHANGED <<before, after, context, diff, base, result>>

Apply(text) ==
  /\ stage = "parsed"
  /\ stage' = "applied"
  /\ base' = text
  /\ result' = ApplyUnifiedDiff(text, hunks)
  /\ UNCHANGED <<before, after, context, diff, hunks>>

Done == stage = "applied" /\ UNCHANGED reviewVars

ReviewNext ==
  \/ Render
  \/ Parse
  \/ \E text \in Texts : Apply(text)
  \/ Done

ReviewSpec == ReviewInit /\ [][ReviewNext]_reviewVars

-----------------------------------------------------------------------------
ReviewTypeOK ==
  /\ stage \in {"written", "rendered", "parsed", "applied"}
  /\ {before, after, base} \subseteq Text
  /\ context \in Contexts
  /\ \A k \in DOMAIN hunks :
       /\ {hunks[k].oldStart, hunks[k].oldLines, hunks[k].newStart, hunks[k].newLines} \subseteq Nat
       /\ \A l \in DOMAIN hunks[k].lines :
            hunks[k].lines[l] \in [mark : {" ", "-", "+"}, text : Line]
  /\ result = NoText \/ result.text \in Text

(* The edit script behind every review diff is exact: without its          *)
(* insertions it spells the old text and without its deletions the new     *)
(* one.  Below the size guard it is also minimal: it keeps as many lines   *)
(* as the longest common subsequence, which trimming the common prefix and *)
(* suffix must not spoil (diffLines).                                      *)
Subsequences(s) == {Picked(s, S) : S \in SUBSET DOMAIN s}

LongestCommon(a, b) == Max({Len(s) : s \in Subsequences(a) \cap Subsequences(b)})

ScriptIsExactAndMinimal ==
  stage = "rendered" =>
    LET ops == DiffLines(before, after)
        kept == Side(ops, {"equal"})
    IN /\ OldSide(ops) = before
       /\ NewSide(ops) = after
       /\ Len(before) <= LcsGuard /\ Len(after) <= LcsGuard
            => Len(kept) = LongestCommon(before, after)

BodyText(hunk, marks) ==
  Picked([i \in DOMAIN hunk.lines |-> hunk.lines[i].text],
         {i \in DOMAIN hunk.lines : hunk.lines[i].mark \in marks})

(* A rendered diff applied to the text it was computed from reproduces the *)
(* proposed text (fs.test.ts: "a generated diff reapplies to produce the   *)
(* same result") whenever the format can carry the change: there is a line *)
(* of context, the old text is not empty, and no removed line begins with  *)
(* "--" nor an added one with "++".                                        *)
Carried ==
  LET ops == DiffLines(before, after)
  IN /\ context > 0
     /\ before # <<>>
     /\ \A i \in DOMAIN ops : /\ ops[i].kind = "delete" => ops[i].line \notin DashLine
                              /\ ops[i].kind = "insert" => ops[i].line \notin PlusLine

CarriedDiffReapplies ==
  (stage = "applied" /\ base = before /\ Carried) => result = Wrote(after)

(* A diff is never applied over lines it did not describe: if it went in,  *)
(* the text still held every line that each hunk shows or removes, and the *)
(* text outside the hunks is kept (applyUnifiedDiff: "context lines are    *)
(* verified rather than assumed").                                         *)
OnlyVerifiedLinesReplaced ==
  (stage = "applied" /\ result.ok) =>
    /\ \A k \in DOMAIN hunks :
         LET old == BodyText(hunks[k], {" ", "-"})
         IN SubSeq(base, hunks[k].oldStart, hunks[k].oldStart + Len(old) - 1) = old
    /\ Carried => Len(result.text) - Len(base) = Len(after) - Len(before)

(* What the comment on applyUnifiedDiff promises of a diff applied to the  *)
(* very text it was computed from: it is refused, or what it writes is what*)
(* it described.  (The engine refuses a result equal to the text itself.)  *)
NothingUndescribedIsWritten ==
  (stage = "applied" /\ base = before /\ result.ok /\ result.text # base)
    => result.text = after
=============================================================================
