------------------------------ MODULE MCContext ------------------------------
(* Context, and segments() over more branches than a run of it closes.       *)
EXTENDS Context

\* Any blocks over n branches, as long as every branch has its own.
Coarse(n) == {[tier |-> t, from |-> f, first |-> f, last |-> f] : t \in Tiers \ {1}, f \in 0 .. n}
Ranges(n) == {b \in Coarse(n) : b.from % Size(b.tier) = 0 /\ b.from + Size(b.tier) <= n}
Fine(n) == {[tier |-> 1, from |-> f, first |-> f, last |-> f] : f \in 0 .. n - 1}

\* Whatever roll-ups are missing, what is shown tiles the branches.
ASSUME ShownTiles ==
    \A n \in 0 .. 9 : \A sealed \in SUBSET Ranges(n) : Tile(Shown(Fine(n) \union sealed, n), n)
=============================================================================
