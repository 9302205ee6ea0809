------------------------------ MODULE MCParts ------------------------------
(* Parts on a small instance of each.                                        *)
EXTENDS Parts, MCContext

\* The root engine and those below it.
MCDepthOf(e) == IF e = "root" THEN 0 ELSE 1
MCDepths == 0 .. 1
\* The second query matches every tool, the first the odd ones.
MCScore(q, t) == IF q = 1 THEN t % 2 ELSE 1
=============================================================================
