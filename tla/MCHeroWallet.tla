---------------------------- MODULE MCHeroWallet ----------------------------
(* HeroWallet with three accounts. *)
EXTENDS HeroWallet

CONSTANTS a1, a2, a3
MCID == {a1, a2, a3}
Symmetric == Permutations(MCID)
=============================================================================
