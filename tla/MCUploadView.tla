---------------------------- MODULE MCUploadView ----------------------------
(* UploadView with two images, or rows given by the page, and three        *)
(* uploaders, so that one row can be uploaded again twice over.            *)
EXTENDS UploadView

CONSTANTS i1, i2, u1, u2, u3
MCItem == {i1, i2}
MCOp == {u1, u2, u3}
Symmetric == Permutations(MCItem) \cup Permutations(MCOp)
=============================================================================
