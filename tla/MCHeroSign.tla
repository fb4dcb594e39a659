----------------------------- MODULE MCHeroSign -----------------------------
(* HeroSign with two accounts, two messages and two transactions. *)
EXTENDS HeroSign

CONSTANTS a, b, m1, m2, t1, t2
MCAcct == {a, b}
MCMsg == {m1, m2}
MCTx == {t1, t2}
Symmetric == Permutations(MCAcct) \cup Permutations(MCMsg) \cup Permutations(MCTx)
=============================================================================
