--------------------------- MODULE ProxyRebalance ---------------------------
(***************************************************************************)
(* ProxyHealthService (src/app/services/proxy_health.py): rebalancing the  *)
(* upstream accounts over the upstream proxies, pinning, and parking the   *)
(* accounts that are forced to a direct connection by a total outage.      *)
(*                                                                         *)
(* Every operation runs under _operation_lock, so at most one is in flight *)
(* and one program counter is enough; but each reads upstream and the      *)
(* store once and then acts call by call, while operators edit accounts    *)
(* and proxies upstream without the lock, calls fail, answers are lost,    *)
(* and the process crashes.  Here the verdicts on the proxies (dead) change*)
(* arbitrarily between operations; ProxyHealth composes this module with   *)
(* the prober that computes them.                                          *)
(***************************************************************************)
EXTENDS Integers, Sequences, FiniteSets, SequencesExt

CONSTANTS
    Proxies,        \* proxy ids
    Accounts,       \* account ids
    ProxyOrder,     \* the order list_proxies returns them in
    AccountOrder,   \* the order list_openai_accounts returns them in
    Direct,         \* proxy_id None
    Gone,           \* the account no longer exists upstream
    NoPin           \* no pin record for the account

ASSUME RebalanceAssumption ==
    /\ Direct \notin Proxies /\ Gone \notin Proxies /\ NoPin \notin Proxies
    /\ Gone # Direct
    /\ IsFiniteSet(Proxies) /\ IsFiniteSet(Accounts)
    /\ ProxyOrder \in Seq(Proxies) /\ AccountOrder \in Seq(Accounts)

INSTANCE ProxyPlacement

VARIABLES
    \* Upstream.
    proxyStatus,    \* "active", "disabled" or "absent", per proxy
    accountProxy,   \* the proxy of each account, Direct or Gone
    \* The store.
    dead,           \* proxies whose stored health state says "dead"
    parked,         \* accounts with a parked record
    pins,           \* the pin record of each account
    \* The operation that holds the lock.
    pc,             \* its next step; "idle" when the lock is free
    dryRun,         \* the run is a dry run
    seenProxies,    \* proxyStatus as the run read it
    seenParked,     \* parked as the run read it
    todo,           \* moves it has planned and not attempted
    move,           \* the move, or the pin, it is making
    \* History: how each account came to be direct.
    directBy        \* "no" on a proxy, "never", "operator" or "sidecar"

upstream == <<proxyStatus, accountProxy>>
store == <<dead, parked, pins>>
locals == <<pc, dryRun, seenProxies, seenParked, todo, move>>
vars == <<upstream, store, locals, directBy>>

ProxyStatus == {"active", "disabled", "absent"}
Place == Proxies \cup {Direct}
MoveRecord == [account : Accounts, to : Place]
NoMove == [account |-> NoPin, to |-> Direct]

TypeOK ==
    /\ proxyStatus \in [Proxies -> ProxyStatus]
    /\ accountProxy \in [Accounts -> Place \cup {Gone}]
    /\ dead \in SUBSET Proxies
    /\ parked \in SUBSET Accounts
    /\ pins \in [Accounts -> Proxies \cup {NoPin}]
    /\ pc \in {"idle", "listed", "moving", "apply", "unpark",
               "pin", "pinUnpark", "pinSave"}
    /\ dryRun \in BOOLEAN
    /\ seenProxies \in [Proxies -> ProxyStatus]
    /\ seenParked \in SUBSET Accounts
    /\ todo \in SUBSET MoveRecord
    /\ move \in MoveRecord \cup {NoMove}
    /\ pc \in {"apply", "unpark"} => move \in MoveRecord
    /\ pc \in {"pin", "pinUnpark", "pinSave"} =>
           move \in [account : Accounts, to : Proxies]
    /\ directBy \in [Accounts -> {"no", "never", "operator", "sidecar"}]

NoLocals ==
    /\ pc' = "idle"
    /\ dryRun' = FALSE
    /\ seenProxies' = [p \in Proxies |-> "absent"]
    /\ seenParked' = {}
    /\ todo' = {}
    /\ move' = NoMove

Init ==
    /\ proxyStatus \in [Proxies -> {"active", "disabled"}]
    /\ accountProxy \in [Accounts -> Place]
    /\ dead = {}
    /\ parked = {}
    /\ pins \in [Accounts -> Proxies \cup {NoPin}]
    /\ \A a \in Accounts : pins[a] \in {NoPin, accountProxy[a]}
    /\ pc = "idle"
    /\ dryRun = FALSE
    /\ seenProxies = [p \in Proxies |-> "absent"]
    /\ seenParked = {}
    /\ todo = {}
    /\ move = NoMove
    /\ directBy = [a \in Accounts |->
                      IF accountProxy[a] = Direct THEN "never" ELSE "no"]

-----------------------------------------------------------------------------
(* What a run computes from what it has read.                              *)

\* unknown counts as eligible: only a dead verdict or the proxy's own status
\* excludes it.
Eligible == {p \in Proxies \ dead : seenProxies[p] = "active"}

Known == {a \in Accounts : accountProxy[a] # Gone}
Proxied == {a \in Known : accountProxy[a] # Direct}

\* Mutation of ParkedDirect: every direct account joins the pool.
EveryDirect == {a \in Known : accountProxy[a] = Direct}

\* Direct accounts take part only if they are parked.
ParkedDirect == {a \in Known \cap parked : accountProxy[a] = Direct}
Participants == Proxied \cup ParkedDirect

\* Mutation of Home: the pin of a parked account is not looked at.
HomeOfProxied == [a \in {b \in Proxied : pins[b] \in Eligible} |-> pins[a]]

\* Pins onto an eligible proxy; any other pinned account joins the even split.
Home == [a \in {b \in Participants : pins[b] \in Eligible} |-> pins[a]]

Plan == Moves(Eligible, Participants, accountProxy, Home)

\* Records a run that is not a dry run drops: parked records of accounts that are
\* on a proxy or gone, pins of accounts that are gone or onto proxies that are.
StaleParked == IF dryRun THEN {} ELSE parked \cap (Proxied \cup (Accounts \ Known))
StalePins ==
    IF dryRun THEN {}
    ELSE {a \in Accounts : /\ pins[a] # NoPin
                           /\ a \notin Known \/ seenProxies[pins[a]] = "absent"}

-----------------------------------------------------------------------------
(* Rebalancing.                                                            *)

\* try_rebalance, or rebalance at the end of a probe tick: list_proxies answered.
StartRebalance(dry) ==
    /\ pc = "idle"
    /\ pc' = "listed"
    /\ dryRun' = dry
    /\ seenProxies' = proxyStatus
    /\ UNCHANGED <<upstream, store, seenParked, todo, move, directBy>>

\* A later read raises: the run is recorded as failed, or its exception ends it.
ReadFails ==
    /\ pc = "listed"
    /\ NoLocals
    /\ UNCHANGED <<upstream, store, directBy>>

DropStale(staleParked, stalePins) ==
    /\ parked' = parked \ staleParked
    /\ pins' = [a \in Accounts |-> IF a \in stalePins THEN NoPin ELSE pins[a]]

\* A delete raises midway: some of the stale records are gone, the run is over.
CleanupFails ==
    /\ pc = "listed"
    /\ \E P \in SUBSET StaleParked, Q \in SUBSET StalePins : DropStale(P, Q)
    /\ NoLocals
    /\ UNCHANGED <<upstream, dead, directBy>>

\* Nothing to move (noop), or a dry run: moves are reported, none is made.
PlanNothing ==
    /\ pc = "listed"
    /\ dryRun \/ Plan = {}
    /\ DropStale(StaleParked, StalePins)
    /\ NoLocals
    /\ UNCHANGED <<upstream, dead, directBy>>

PlanMoves ==
    /\ pc = "listed"
    /\ ~dryRun /\ Plan # {}
    /\ DropStale(StaleParked, StalePins)
    /\ pc' = "moving"
    /\ todo' = Plan
    /\ seenParked' = parked
    /\ seenProxies' = [p \in Proxies |-> "absent"]     \* not used any more
    /\ UNCHANGED <<upstream, dead, dryRun, move, directBy>>

\* Mutation of BeginMove: the upstream call comes first, nothing is parked before.
BeginMoveUnparked(m) ==
    /\ pc = "moving" /\ m \in todo
    /\ pc' = "apply"
    /\ move' = m
    /\ todo' = todo \ {m}
    /\ UNCHANGED <<upstream, store, dryRun, seenProxies, seenParked, directBy>>

\* One iteration of the move loop starts.  An account that falls back to direct
\* is parked before the upstream call.  Moves are attempted in any order.
BeginMove(m) ==
    /\ pc = "moving" /\ m \in todo
    /\ parked' = IF m.to = Direct THEN parked \cup {m.account} ELSE parked
    /\ pc' = "apply"
    /\ move' = m
    /\ todo' = todo \ {m}
    /\ UNCHANGED <<upstream, dead, pins, dryRun, seenProxies, seenParked, directBy>>

\* The parked record cannot be stored: the move is recorded as failed.
ParkFails(m) ==
    /\ pc = "moving" /\ m \in todo /\ m.to = Direct
    /\ todo' = todo \ {m}
    /\ UNCHANGED <<upstream, store, pc, dryRun, seenProxies, seenParked, move, directBy>>

\* Upstream carries out set_account_proxy(a, p) on an account it still has.
SetAccountProxy(a, p) ==
    /\ accountProxy[a] # Gone
    /\ accountProxy' = [accountProxy EXCEPT ![a] = p]
    /\ directBy' = [directBy EXCEPT ![a] = IF p = Direct THEN "sidecar" ELSE "no"]

NextMove == pc' = "moving" /\ move' = NoMove

\* The call succeeds.  Back on a proxy, the account's parked record is dropped next.
ApplyMove ==
    /\ pc = "apply"
    /\ SetAccountProxy(move.account, move.to)
    /\ IF move.to # Direct /\ move.account \in seenParked
       THEN pc' = "unpark" /\ UNCHANGED move
       ELSE NextMove
    /\ UNCHANGED <<proxyStatus, store, dryRun, seenProxies, seenParked, todo>>

\* Upstream carries out the call but the answer is lost: recorded as failed.
MoveAnswerLost ==
    /\ pc = "apply"
    /\ SetAccountProxy(move.account, move.to)
    /\ NextMove
    /\ UNCHANGED <<proxyStatus, store, dryRun, seenProxies, seenParked, todo>>

MoveFails ==
    /\ pc = "apply"
    /\ NextMove
    /\ UNCHANGED <<upstream, store, dryRun, seenProxies, seenParked, todo, directBy>>

Unpark ==
    /\ pc = "unpark"
    /\ parked' = parked \ {move.account}
    /\ NextMove
    /\ UNCHANGED <<upstream, dead, pins, dryRun, seenProxies, seenParked, todo, directBy>>

UnparkFails ==
    /\ pc = "unpark"
    /\ NextMove
    /\ UNCHANGED <<upstream, store, dryRun, seenProxies, seenParked, todo, directBy>>

EndRun ==
    /\ pc = "moving" /\ todo = {}
    /\ NoLocals
    /\ UNCHANGED <<upstream, store, directBy>>

-----------------------------------------------------------------------------
(* Pins.                                                                   *)

\* pin_account has checked that the proxy and the account exist.
StartPin(a, p) ==
    /\ pc = "idle"
    /\ proxyStatus[p] # "absent" /\ accountProxy[a] # Gone
    /\ pc' = "pin"
    /\ move' = Move(a, p)
    /\ UNCHANGED <<upstream, store, dryRun, seenProxies, seenParked, todo, directBy>>

PinApply ==
    /\ pc = "pin"
    /\ SetAccountProxy(move.account, move.to)
    /\ pc' = "pinUnpark"
    /\ UNCHANGED <<proxyStatus, store, dryRun, seenProxies, seenParked, todo, move>>

\* The call raises, carried out by upstream or not: nothing is stored.
PinAnswerLost ==
    /\ pc = "pin"
    /\ SetAccountProxy(move.account, move.to)
    /\ NoLocals
    /\ UNCHANGED <<proxyStatus, store>>

PinUnpark ==
    /\ pc = "pinUnpark"
    /\ parked' = parked \ {move.account}
    /\ pc' = "pinSave"
    /\ UNCHANGED <<upstream, dead, pins, dryRun, seenProxies, seenParked, todo, move, directBy>>

PinSave ==
    /\ pc = "pinSave"
    /\ pins' = [pins EXCEPT ![move.account] = move.to]
    /\ NoLocals
    /\ UNCHANGED <<upstream, dead, parked, directBy>>

Unpin(a) ==
    /\ pc = "idle" /\ pins[a] # NoPin
    /\ pins' = [pins EXCEPT ![a] = NoPin]
    /\ UNCHANGED <<upstream, dead, parked, locals, directBy>>

\* The process dies, or a storage call of pin_account raises; what is stored stays.
Crash ==
    /\ pc # "idle"
    /\ NoLocals
    /\ UNCHANGED <<upstream, store, directBy>>

-----------------------------------------------------------------------------
(* What happens around the service.                                        *)

\* Mutation of ProbeVerdicts: the probe does not take the lock.
ProbeVerdictsUnlocked ==
    /\ dead' \in SUBSET Proxies
    /\ UNCHANGED <<upstream, parked, pins, locals, directBy>>

\* A probe stores new verdicts; it holds the lock, so never during an operation.
ProbeVerdicts ==
    /\ pc = "idle"
    /\ dead' \in SUBSET Proxies
    /\ UNCHANGED <<upstream, parked, pins, locals, directBy>>

\* An operator edits an account upstream, without the lock.
OperatorAssign(a, place) ==
    /\ accountProxy[a] \notin {place, Gone}
    /\ place # Direct => proxyStatus[place] # "absent"
    /\ accountProxy' = [accountProxy EXCEPT ![a] = place]
    /\ directBy' = [directBy EXCEPT ![a] = IF place = Direct THEN "operator" ELSE "no"]
    /\ UNCHANGED <<proxyStatus, store, locals>>

OperatorRemovesAccount(a) ==
    /\ accountProxy[a] # Gone
    /\ accountProxy' = [accountProxy EXCEPT ![a] = Gone]
    /\ directBy' = [directBy EXCEPT ![a] = "no"]
    /\ UNCHANGED <<proxyStatus, store, locals>>

\* A proxy is enabled, disabled or deleted upstream; accounts keep naming it.
OperatorSetsProxy(p, status) ==
    /\ proxyStatus[p] \notin {status, "absent"}
    /\ proxyStatus' = [proxyStatus EXCEPT ![p] = status]
    /\ UNCHANGED <<accountProxy, store, locals, directBy>>

Rebalancing ==
    \/ \E dry \in BOOLEAN : StartRebalance(dry)
    \/ ReadFails \/ CleanupFails \/ PlanNothing \/ PlanMoves
    \/ \E m \in todo : BeginMove(m) \/ ParkFails(m)
    \/ ApplyMove \/ MoveAnswerLost \/ MoveFails
    \/ Unpark \/ UnparkFails \/ EndRun

Pinning ==
    \/ \E a \in Accounts, p \in Proxies : StartPin(a, p)
    \/ PinApply \/ PinAnswerLost \/ PinUnpark \/ PinSave
    \/ \E a \in Accounts : Unpin(a)

Environment ==
    \/ Crash
    \/ ProbeVerdicts
    \/ \E a \in Accounts, place \in Place : OperatorAssign(a, place)
    \/ \E a \in Accounts : OperatorRemovesAccount(a)
    \/ \E p \in Proxies, status \in ProxyStatus : OperatorSetsProxy(p, status)

Next == Rebalancing \/ Pinning \/ Environment

Spec == Init /\ [][Next]_vars

-----------------------------------------------------------------------------
(***************************************************************************)
(* Parking is crash-safe: whatever fails, crashes or is edited meanwhile,  *)
(* an account that the sidecar has forced to a direct connection has a     *)
(* parked record until it is back on a proxy.  Without one it would be     *)
(* taken for a genuinely direct account and stay direct for ever (the      *)
(* comment "Park BEFORE the upstream move", _rebalance_locked).            *)
(***************************************************************************)
ForcedIsParked == \A a \in Accounts : directBy[a] = "sidecar" => a \in parked

(***************************************************************************)
(* "Accounts that never had a proxy are never touched" (class docstring):  *)
(* no run ever plans or makes a move of an account that has been direct    *)
(* since before the sidecar knew it.                                       *)
(***************************************************************************)
NeverProxiedNeverMoved ==
    /\ \A m \in todo : directBy[m.account] # "never"
    /\ pc = "apply" => directBy[move.account] # "never"

(***************************************************************************)
(* A run never moves an account onto a proxy that is dead at the moment of *)
(* the call, although the verdicts were read when the run started: the     *)
(* lock keeps them from changing under it.                                 *)
(***************************************************************************)
MoveTargetNotDead == pc = "apply" => move.to \notin dead

(***************************************************************************)
(* Pinned accounts are excluded from the even split while their proxy is   *)
(* eligible (ProxyAccountPin): whatever move a run plans for such an       *)
(* account takes it to its pinned proxy - parked ones included.            *)
(***************************************************************************)
PinsRespected ==
    [][pc = "listed" =>
           \A m \in todo' : pins[m.account] \in Eligible => m.to = pins[m.account]
      ]_vars
=============================================================================
