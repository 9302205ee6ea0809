------------------------------ MODULE Staircase ------------------------------
(***************************************************************************)
(* The compaction blocks of one engine: Staircase and the roll-up calls of *)
(* _seal_rollups. A compaction adds the block of the branch it closes and  *)
(* then spends a limited number of calls on merging Fanout blocks of one   *)
(* tier into a block of the next; a call may give no usable reply. What is *)
(* shown is the branches in base Fanout, with the children of a range that *)
(* has no block.                                                           *)
(***************************************************************************)
EXTENDS Integers, FiniteSets, FiniteSetsExt, SequencesExt

CONSTANTS Fanout,       \* policy.compaction_fanout
          MaxAttempts,  \* policy.max_compaction_attempts
          MaxBranches   \* bound: branches one session closes

ASSUME StaircaseConstants ==
    /\ Fanout \in Nat /\ Fanout >= 2
    /\ MaxAttempts \in Nat \ {0}
    /\ MaxBranches \in Nat

VARIABLES blocks,    \* the blocks, as records of their tier, first branch and messages
          branches,  \* branch_count
          due,       \* ranges the pass over the unsealed ranges has not come to
          skipped,   \* ranges this compaction gave up
          left       \* roll-up calls this compaction may still make

stairVars == <<blocks, branches, due, skipped, left>>
----------------------------------------------------------------------------
\* A range of branches is a tier and the first branch: it is Size(tier) long.
Sizes[tier \in 1 .. MaxBranches + 2] == IF tier = 1 THEN 1 ELSE Fanout * Sizes[tier - 1]
Size(tier) == Sizes[tier]
Until(key) == key[2] + Size(key[1])
Children(key) ==
    {<<key[1] - 1, key[2] + i * Size(key[1] - 1)>> : i \in 0 .. Fanout - 1}

\* At most one tier per branch can have a complete range.
Tiers == 1 .. MaxBranches + 1
Keys == {<<b.tier, b.from>> : b \in blocks}
BlockAt(key) == CHOOSE b \in blocks : <<b.tier, b.from>> = key

\* Aligned ranges that have no block though all their children do.
Unsealed == {key \in (Tiers \ {1}) \X (0 .. branches) :
                /\ key[2] % Size(key[1]) = 0 /\ Until(key) <= branches
                /\ key \notin Keys /\ Children(key) \subseteq Keys}

\* Finest tier first, newest first within a tier.
Finer(key, other) ==
    key[1] < other[1] \/ (key[1] = other[1] /\ key[2] > other[2])
Soonest(keys) == CHOOSE key \in keys : \A other \in keys \ {key} : Finer(key, other)
----------------------------------------------------------------------------
\* What one tier contributes to n branches: the aligned ranges just older than the
\* finer tiers, by their first branches.
Aligned(tier, n) ==
    LET older == n - (n % Size(tier + 1))
        newer == n - (n % Size(tier))
    IN  [i \in 1 .. (newer - older) \div Size(tier) |-> older + (i - 1) * Size(tier)]

\* What stands for the ranges of a tier: their blocks, or where there is none what stands
\* for the children, oldest first. Every branch has a block of its own.
Row(bs, n, tier, finer) ==
    [from \in 0 .. n - Size(tier) |->
        IF \E b \in bs : <<b.tier, b.from>> = <<tier, from>>
        THEN <<CHOOSE b \in bs : <<b.tier, b.from>> = <<tier, from>>>>
        ELSE IF tier = 1 THEN <<>>
        ELSE FlattenSeq([i \in 1 .. Fanout |-> finer[from + (i - 1) * Size(tier - 1)]])]
Rows(bs, n) ==
    LET row[tier \in Tiers] == Row(bs, n, tier, IF tier = 1 THEN <<>> ELSE row[tier - 1])
    IN  row

\* segments(): coarsest tier first.
Shown(bs, n) ==
    LET tier(t) == FlattenSeq([k \in DOMAIN Aligned(t, n) |-> Rows(bs, n)[t][Aligned(t, n)[k]]])
    IN  FlattenSeq([i \in Tiers |-> tier(MaxBranches + 2 - i)])

Segments == Shown(blocks, branches)
----------------------------------------------------------------------------
StairInit ==
    /\ blocks = {} /\ branches = 0
    /\ due = {} /\ skipped = {} /\ left = 0

\* Between compactions no roll-up is on its way.
Settled == due = {} \/ left = 0

\* add_branch, and the first look at what can be rolled up.
AddBranch(first, last) ==
    /\ branches < MaxBranches
    /\ blocks' = blocks \union {[tier |-> 1, from |-> branches, first |-> first, last |-> last]}
    /\ branches' = branches + 1
    /\ skipped' = {}
    /\ left' = MaxAttempts
    /\ due' = Unsealed'

\* After the last range of a pass the unsealed ranges are looked at again.
Advance == due' = IF due \ {Soonest(due)} # {}
                      THEN due \ {Soonest(due)}
                      ELSE Unsealed' \ skipped'

\* The block of a roll-up spans its children.
Merged(key) ==
    LET parts == {BlockAt(child) : child \in Children(key)}
    IN  [tier |-> key[1], from |-> key[2],
         first |-> Min({b.first : b \in parts}), last |-> Max({b.last : b \in parts})]

\* A roll-up call gave a usable summary.
RollupSealed ==
    /\ ~Settled
    /\ left' = left - 1
    /\ blocks' = blocks \union {Merged(Soonest(due))}
    /\ UNCHANGED <<branches, skipped>>
    /\ Advance

\* An empty reply is sampled again while there are calls.
RollupEmpty ==
    /\ ~Settled
    /\ left > 1
    /\ left' = left - 1
    /\ UNCHANGED <<blocks, branches, due, skipped>>

\* The provider refused the call, or the last call gave an empty reply.
RollupSkipped ==
    /\ ~Settled
    /\ left' = left - 1
    /\ skipped' = skipped \union {Soonest(due)}
    /\ UNCHANGED <<blocks, branches>>
    /\ Advance

\* restore(): the blocks and the count of an earlier snapshot.
Restore(snapshot) ==
    /\ blocks' = snapshot.blocks
    /\ branches' = snapshot.branches
    /\ due' = {} /\ skipped' = {} /\ left' = 0
----------------------------------------------------------------------------
\* What is shown of n branches starts with the first, ends with the last, and neither
\* skips nor repeats one.
Tile(shown, n) ==
    LET until(i) == shown[i].from + Size(shown[i].tier)
    IN  IF n = 0 THEN shown = <<>>
        ELSE /\ Len(shown) > 0 /\ shown[1].from = 0 /\ until(Len(shown)) = n
             /\ \A i \in 1 .. Len(shown) - 1 : until(i) = shown[i + 1].from

\* The blocks shown cover every branch once, oldest first, whatever roll-ups failed or
\* were rolled back: coverage is never lost to a failed roll-up (segments()).
Tiled == Tile(Segments, branches)
=============================================================================
