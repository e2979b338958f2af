---------------------------- MODULE MCDiffReview ----------------------------
(* DiffReview over two lines, one of which begins with "--".               *)
EXTENDS DiffReview

CONSTANTS plain, dash

MCLine == {plain, dash}
MCDashLine == {dash}
MCContexts == 0..1
=============================================================================
