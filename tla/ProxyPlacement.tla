--------------------------- MODULE ProxyPlacement ---------------------------
(***************************************************************************)
(* The placement arithmetic of ProxyHealthService._rebalance_locked: which *)
(* account goes to which proxy, given what one run has read.  Constant     *)
(* level only, so that the state machine of ProxyRebalance, and the proofs *)
(* about it, use exactly what Placements checks on every small input.      *)
(*                                                                         *)
(* A run is described by                                                   *)
(*   E     the set of eligible proxies                                     *)
(*   A     the set of participating accounts: on a proxy, or parked        *)
(*   where the proxy each of them is on, or Direct                         *)
(*   home  for the accounts pinned onto an eligible proxy, that proxy      *)
(* Lists are sets whose elements have a pair of numbers, the key they are  *)
(* ordered by.                                                             *)
(***************************************************************************)
EXTENDS Integers, FiniteSets

CONSTANTS
    ProxyOrder,      \* the order list_proxies returns the proxies in
    AccountOrder,    \* the order list_openai_accounts returns the accounts in
    Direct           \* proxy_id None: the account connects directly

Min2(x, y) == IF x <= y THEN x ELSE y
Max2(x, y) == IF x >= y THEN x ELSE y

Position(order, x) == CHOOSE i \in DOMAIN order : order[i] = x

Precedes(u, v) == u[1] < v[1] \/ (u[1] = v[1] /\ u[2] < v[2])

\* How many keys of K come before k.
Rank(K, k) == Cardinality({l \in K : Precedes(l, k)})

-----------------------------------------------------------------------------
(* Caps.                                                                   *)

Pinned(A, home, p) == {a \in A \cap DOMAIN home : home[a] = p}

\* The accounts on p that are free to move.
Current(A, where, home, p) == {a \in A \ DOMAIN home : where[a] = p}

Load(A, where, home, p) ==
    Cardinality(Current(A, where, home, p)) + Cardinality(Pinned(A, home, p))

\* Mutation of CapKey: the sort without reverse=True.
CapKeyAscending(A, where, home, p) ==
    <<Load(A, where, home, p), Position(ProxyOrder, p)>>

\* The stable sort by descending load.
CapKey(A, where, home, p) == <<-Load(A, where, home, p), Position(ProxyOrder, p)>>

CapRank(E, A, where, home, p) ==
    Rank({CapKey(A, where, home, q) : q \in E}, CapKey(A, where, home, p))

\* The even share of an eligible proxy ...
Share(E, A, where, home, p) ==
    LET base == Cardinality(A) \div Cardinality(E)
        remainder == Cardinality(A) % Cardinality(E)
    IN  IF CapRank(E, A, where, home, p) < remainder THEN base + 1 ELSE base

\* ... and its cap, which is never below its pins.
Cap(E, A, where, home, p) ==
    Max2(Share(E, A, where, home, p), Cardinality(Pinned(A, home, p)))

FreeCap(E, A, where, home, p) ==
    Cap(E, A, where, home, p) - Cardinality(Pinned(A, home, p))

-----------------------------------------------------------------------------
(* Who moves, and where to.                                                *)

\* The pool's order: parked accounts, accounts stranded on a proxy that is not eligible,
\* then each proxy's surplus; and among those the order of the listing.
Turn(E, where, a) ==
    <<IF where[a] = Direct THEN -1 ELSE IF where[a] \in E THEN Position(ProxyOrder, where[a])
                                        ELSE 0,
      Position(AccountOrder, a)>>

TurnIn(S, E, where, a) == Rank({Turn(E, where, b) : b \in S}, Turn(E, where, a))

\* The first accounts on a proxy stay, as many as it has a free cap for.
Surplus(E, A, where, home, p) ==
    LET here == Current(A, where, home, p)
    IN  {a \in here : TurnIn(here, E, where, a) >= FreeCap(E, A, where, home, p)}

Homeless(E, A, where, home) == {a \in A \ DOMAIN home : where[a] \notin E}

\* The accounts to be placed.
Pool(E, A, where, home) ==
    Homeless(E, A, where, home) \cup UNION {Surplus(E, A, where, home, p) : p \in E}

\* How many accounts a proxy keeps, its pins included.
Kept(E, A, where, home, p) ==
    Cardinality(Pinned(A, home, p))
    + Min2(Cardinality(Current(A, where, home, p)), FreeCap(E, A, where, home, p))

\* The seats that are free: those of a proxy are numbered from 1 to its cap.
Slots(E, A, where, home) ==
    UNION {{p} \X ((Kept(E, A, where, home, p) + 1)..Cap(E, A, where, home, p)) : p \in E}

\* Proxy by proxy.
SlotKey(s) == <<Position(ProxyOrder, s[1]), s[2]>>
SlotRank(slots, s) == Rank({SlotKey(t) : t \in slots}, SlotKey(s))

Move(a, to) == [account |-> a, to |-> to]

\* Pinned accounts that are not where their pin says go there.
PinMoves(A, where, home) ==
    {Move(a, home[a]) : a \in {b \in A \cap DOMAIN home : where[b] # home[b]}}

\* The n-th account of the pool takes the n-th free seat.
PoolMoves(E, A, where, home) ==
    LET pool == Pool(E, A, where, home)
        slots == Slots(E, A, where, home)
    IN  {m \in [account : A, to : E] :
            /\ m.account \in pool
            /\ \E s \in slots : /\ m.to = s[1]
                                /\ SlotRank(slots, s) = TurnIn(pool, E, where, m.account)}

\* With no eligible proxy every proxied account falls back to direct.
OutageMoves(A, where) == {Move(a, Direct) : a \in {b \in A : where[b] # Direct}}

Moves(E, A, where, home) ==
    IF E = {} THEN OutageMoves(A, where)
    ELSE PinMoves(A, where, home) \cup PoolMoves(E, A, where, home)

\* Where everybody is once every move of a run has succeeded.
Placed(moves, where) ==
    [a \in DOMAIN where |->
        IF \E m \in moves : m.account = a
        THEN (CHOOSE m \in moves : m.account = a).to
        ELSE where[a]]
=============================================================================
