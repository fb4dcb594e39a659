--------------------------- MODULE MCUploadQueue ---------------------------
(* UploadQueue on three uploaders, the last of which has, in the runs that *)
(* say so, a URL that NSURLConnection refuses.                             *)
EXTENDS UploadQueue, TLC

CONSTANTS u1, u2, u3
MCOp == {u1, u2, u3}
MCBadURL == {u3}
MCReplies == ReplyKinds
Symmetric == Permutations(MCOp)
=============================================================================
