---------------------------- MODULE MCPatchReview ----------------------------
(* Two patches over two files that may both touch one of them, and two     *)
(* requests in flight.                                                     *)
EXTENDS PatchReview

CONSTANTS a, b, x, y, p1, p2, h1, h2

MCLine == {a, b}
MCPath == {x, y}
MCResolves == [s \in MCPath |-> s]
MCEdited == {<<a>>}

MCProposal == {
  <<FilePatch(x, Edits(<<Anchored(a, <<b>>)>>)), FilePatch(y, Create(<<b>>))>>,
  <<FilePatch(x, Edits(<<AnchoredAll(a, <<a, b>>)>>))>>,
  <<HashedFilePatch(x, Delete, <<b>>)>>
}

(* Handlers are alike, and so are the ids.                                 *)
Alike == Permutations(Handler) \cup Permutations(PatchId)
=============================================================================
