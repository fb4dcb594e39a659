---------------------------- MODULE MCLazyImage ----------------------------
(* LazyImage with two URLs and one call of registerForName:. *)
EXTENDS LazyImage

CONSTANTS u, w, c
MCUrl == {u, w}
MCCall == {c}
=============================================================================
