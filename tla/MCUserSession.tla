--------------------------- MODULE MCUserSession ---------------------------
(* Two connections, a terminal channel and a proxy channel, and for each     *)
(* channel two objects, so that a second one can be created by mistake or    *)
(* after the first has been closed.                                          *)
EXTENDS UserSession, TLC

CONSTANTS h1, h2, t1, t2, p1, p2

MCHub == {h1, h2}
MCSession == {t1, t2, p1, p2}
MCChanOf == [s \in MCSession |-> IF s \in {t1, t2} THEN 1 ELSE 2]
MCSymmetry == {f @@ g @@ k : f \in Permutations(MCHub), g \in Permutations({t1, t2}),
                             k \in Permutations({p1, p2})}
=============================================================================
