---------------------------- MODULE MCPatchEngine ----------------------------
(* Two calls of the engine over two files, one of them also reachable      *)
(* under a second spelling, and patches that meet every check of stage().  *)
EXTENDS PatchEngine

CONSTANTS a, b, x, y, z, x2, out, c1, c2

MCLine == {a, b}
MCPath == {x, y, z}
MCSpelling == {x, y, z, x2, out}
MCResolves == [s \in MCSpelling |-> CASE s = x2 -> x [] s = out -> Refused [] OTHER -> s]
MCSecret == {z}
MCEdited == {<<a>>, <<a, a>>}

MCContent == BoundedSeq(MCLine, 2) \cup {Absent}

(* The calls are alike.                                                   *)
Alike == Permutations(Call)

(* The diff a reviewer is shown for turning <<a>> into <<b>>.              *)
AToB == FormatUnifiedDiff(<<a>>, <<b>>, 3)

MCPatch == {
  <<>>,
  <<FilePatch(x, Replace(<<b>>)), FilePatch(y, Edits(<<Anchored(a, <<b>>)>>))>>,
  <<FilePatch(x, Edits(<<AnchoredAll(a, <<b, a>>), Anchored(b, <<a>>)>>)), FilePatch(y, Delete)>>,
  <<FilePatch(y, Create(<<b>>)), HashedFilePatch(x2, Delete, <<a>>)>>,
  <<FilePatch(y, Unified(AToB))>>,
  <<HashedFilePatch(x, Replace(<<>>), <<a, a>>)>>,
  <<FilePatch(x, Delete), FilePatch(x2, Replace(<<b>>))>>,
  <<FilePatch(y, Delete), FilePatch(z, Replace(<<b>>))>>,
  <<FilePatch(y, Replace(<<b>>)), FilePatch(out, Create(<<b>>))>>,
  <<FilePatch(x, Delete), FilePatch(y, Delete), FilePatch(z, Delete)>>
}
=============================================================================
