------------------------------- MODULE Arrays -------------------------------
(***************************************************************************)
(* The one operation on a mutable array that the wallet's models share.    *)
(***************************************************************************)
EXTENDS Naturals, SequencesExt

(* The elements of s other than e, in their order: what removeObject:      *)
(* leaves, and what the loop of setDefaultAccount: copies.                 *)
Without(s, e) ==
  LET rest[i \in 0 .. Len(s)] ==
        IF i = 0 THEN << >>
        ELSE IF s[i] = e THEN rest[i - 1]
        ELSE Append(rest[i - 1], s[i])
  IN  rest[Len(s)]
=============================================================================
