-------------------------- MODULE MCHeroController --------------------------
(* HeroController with three pages and two injected ones. *)
EXTENDS HeroController

CONSTANTS root, p, q, i, j
MCPage == {root, p, q}
MCInject == {i, j}
Symmetric == Permutations(MCInject) \cup Permutations({p, q})
=============================================================================
