--------------------------- MODULE MCHeroProvider ---------------------------
(* HeroProvider with pages that make three requests of different kinds.    *)
EXTENDS HeroProvider

CONSTANTS a, m, s1, s2, t
MCReads == {a}
MCSends == {s1, s2}
MCRaws == {t}
MCMessages == {m}
MCScripts == [n \in 0 .. 1 |-> IF n = 0 THEN {{s1, s2}, {a, t, m}} ELSE {{a}}]
=============================================================================
