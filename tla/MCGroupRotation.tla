-------------------------- MODULE MCGroupRotation --------------------------
(***************************************************************************)
(* Two platforms: one with two rotation groups and a landing group, the    *)
(* other with one group only.                                              *)
(***************************************************************************)
EXTENDS GroupRotation, TLC

CONSTANTS u1, u2, t1, t2, p1, p2, g1, g2, l1, q1, a1

MCPlatform == [g \in {g1, g2, l1, q1} |-> IF g = q1 THEN p2 ELSE p1]
\* The operators' requests next to each other, and runs next to rollbacks, to moves by hand
\* and to runs that are scoped to a platform.
MCLoads == {{"assign", "migrate", "key", "manual"}, {"auto", "rollback"},
            {"auto", "rollback", "manual"}, {"auto", "scoped"}}
MCLiveLoads == {{"auto", "again", "assign"}, {"auto", "again", "pool"}}
MCMaxRequests ==
    [l \in MCLoads \cup MCLiveLoads |-> IF l \cap {"manual", "rollback"} = {} THEN 1 ELSE 2]
MCMaxCrashes ==
    [l \in MCLoads \cup MCLiveLoads |-> IF {"rollback", "manual"} \subseteq l THEN 0 ELSE 1]
MCAccountPlatform == [a \in {a1} |-> p1]
Symmetry == Permutations(Threads) \cup Permutations({g1, g2})
=============================================================================
