----------------------------- MODULE Placements -----------------------------
(***************************************************************************)
(* Rebalances of ProxyPlacement one after the other, from every placement  *)
(* of the accounts (direct = parked), with any set of proxies eligible and *)
(* pins of at most MaxPins accounts.  A step is _rebalance_locked with     *)
(* every one of its moves succeeding; a second one may follow it.          *)
(***************************************************************************)
EXTENDS ProxyPlacement, Sequences

CONSTANT MaxPins

Nodes == {ProxyOrder[i] : i \in DOMAIN ProxyOrder}
Placeable == {AccountOrder[i] : i \in DOMAIN AccountOrder}

\* Listings name everything once.
ASSUME ListingsAssumption ==
    /\ ProxyOrder \in Seq(Nodes)
    /\ \A i, j \in DOMAIN ProxyOrder : ProxyOrder[i] = ProxyOrder[j] => i = j
    /\ AccountOrder \in Seq(Placeable)
    /\ \A i, j \in DOMAIN AccountOrder : AccountOrder[i] = AccountOrder[j] => i = j
    /\ Direct \notin Nodes
    /\ MaxPins \in Nat

VARIABLES
    eligible,   \* the eligible proxies of this input
    where,      \* the proxy of each participating account
    home,       \* the pins onto eligible proxies
    rebalances  \* rebalances applied so far, at most 2

placementVars == <<eligible, where, home, rebalances>>

PlannedMoves == Moves(eligible, Placeable, where, home)

PlacementInit ==
    /\ eligible \in SUBSET Nodes
    /\ where \in [Placeable -> Nodes \cup {Direct}]
    /\ \E D \in {S \in SUBSET Placeable : Cardinality(S) <= MaxPins} :
            home \in [D -> eligible]
    /\ rebalances = 0

PlacementNext ==
    /\ rebalances < 2
    /\ where' = Placed(PlannedMoves, where)
    /\ rebalances' = rebalances + 1
    /\ UNCHANGED <<eligible, home>>

-----------------------------------------------------------------------------
On(f, p) == {a \in Placeable : f[a] = p}
Even(f) == \A p, q \in eligible : Cardinality(On(f, p)) <= Cardinality(On(f, q)) + 1

(***************************************************************************)
(* A run leaves nobody behind: the free seats are always enough for the    *)
(* pool, so every participating account ends on an eligible proxy, and on  *)
(* the one it is pinned to if that is eligible; without any eligible proxy *)
(* everybody ends direct (_rebalance_locked, the deficit loop and the      *)
(* total-outage branch).                                                   *)
(***************************************************************************)
EverybodyPlaced ==
    rebalances > 0 =>
        \A a \in Placeable :
            /\ IF eligible = {} THEN where[a] = Direct ELSE where[a] \in eligible
            /\ a \in DOMAIN home => where[a] = home[a]

(***************************************************************************)
(* The even split: as long as no proxy has more pins than its even share,  *)
(* the loads of two eligible proxies differ by at most one after a run.    *)
(***************************************************************************)
EvenSplit ==
    /\ rebalances > 0 /\ eligible # {}
    /\ \A p \in eligible : Cardinality(Pinned(Placeable, home, p))
                               <= Cardinality(Placeable) \div Cardinality(eligible)
    => Even(where)

(***************************************************************************)
(* Minimal movement: without pins no even placement on the eligible        *)
(* proxies can be reached with fewer moves than the run plans.  The        *)
(* reference is the minimum over every placement.                          *)
(***************************************************************************)
MinimalMovement ==
    rebalances = 0 /\ eligible # {} /\ DOMAIN home = {} =>
        \A f \in [Placeable -> eligible] :
            Even(f) => Cardinality(PlannedMoves) <=
                           Cardinality({a \in Placeable : f[a] # where[a]})
=============================================================================
