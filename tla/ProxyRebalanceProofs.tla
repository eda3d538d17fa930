------------------------ MODULE ProxyRebalanceProofs ------------------------
(***************************************************************************)
(* Proofs about ProxyRebalance, for any sets of proxies and accounts.      *)
(***************************************************************************)
EXTENDS ProxyRebalance, TLAPS

-----------------------------------------------------------------------------
(* What a run plans.                                                       *)

\* Every planned move is of a participating account, to a proxy or to direct, and
\* an account goes to direct only if it is on a proxy.
LEMMA PlanType ==
    ASSUME TypeOK
    PROVE  /\ Plan \in SUBSET MoveRecord
           /\ \A m \in Plan : m.account \in Participants
           /\ \A m \in Plan : m.to \notin dead
  <1>1. Home \in [DOMAIN Home -> Eligible] /\ Eligible \subseteq Proxies \ dead
    BY DEF Home, Eligible
  <1>2. Participants \subseteq Accounts
    BY DEF Participants, Proxied, ParkedDirect, Known
  <1>3. ASSUME NEW m \in PinMoves(Participants, accountProxy, Home)
        PROVE  m.account \in Participants /\ m.to \in Eligible /\ m \in MoveRecord
    BY <1>1, <1>2, <1>3 DEF PinMoves, Move, MoveRecord, Place
  <1>4. ASSUME NEW m \in PoolMoves(Eligible, Participants, accountProxy, Home)
        PROVE  m.account \in Participants /\ m.to \in Eligible /\ m \in MoveRecord
    BY <1>1, <1>2, <1>4 DEF PoolMoves, MoveRecord, Place
  <1>5. ASSUME NEW m \in OutageMoves(Participants, accountProxy)
        PROVE  m.account \in Participants /\ m.to = Direct /\ m \in MoveRecord
    BY <1>2, <1>5 DEF OutageMoves, Move, MoveRecord, Place
  <1>6. Direct \notin dead
    BY RebalanceAssumption DEF TypeOK
  <1>7. QED
    BY <1>1, <1>3, <1>4, <1>5, <1>6 DEF Plan, Moves

-----------------------------------------------------------------------------
(* Type correctness.                                                       *)

USE RebalanceAssumption

LEMMA InitType == Init => TypeOK
  <1> SUFFICES ASSUME Init PROVE TypeOK
    OBVIOUS
  <1>1. directBy \in [Accounts -> {"no", "never", "operator", "sidecar"}]
    BY DEF Init
  <1>2. proxyStatus \in [Proxies -> ProxyStatus] /\ seenProxies \in [Proxies -> ProxyStatus]
    BY DEF Init, ProxyStatus
  <1>3. accountProxy \in [Accounts -> Place \cup {Gone}]
    BY DEF Init
  <1>4. QED
    BY <1>1, <1>2, <1>3 DEF Init, TypeOK

LEMMA RebalancingType == TypeOK /\ Rebalancing => TypeOK'
  <1> SUFFICES ASSUME TypeOK, Rebalancing PROVE TypeOK'
    OBVIOUS
  <1> USE DEF TypeOK, upstream, store, Place, ProxyStatus
  <1>1. ASSUME NEW dry \in BOOLEAN, StartRebalance(dry) PROVE TypeOK'
    BY <1>1 DEF StartRebalance
  <1>2. CASE ReadFails
    BY <1>2 DEF ReadFails, NoLocals
  <1>3. CASE CleanupFails
    <2>1. PICK P \in SUBSET StaleParked, Q \in SUBSET StalePins : DropStale(P, Q)
      BY <1>3 DEF CleanupFails
    <2>2. QED
      BY <1>3, <2>1 DEF CleanupFails, DropStale, NoLocals
  <1>4. CASE PlanNothing
    BY <1>4 DEF PlanNothing, DropStale, NoLocals
  <1>5. CASE PlanMoves
    BY <1>5, PlanType DEF PlanMoves, DropStale
  <1>6. ASSUME NEW m \in todo, BeginMove(m) PROVE TypeOK'
    BY <1>6 DEF BeginMove, MoveRecord
  <1>7. ASSUME NEW m \in todo, ParkFails(m) PROVE TypeOK'
    BY <1>7 DEF ParkFails
  <1>8. CASE ApplyMove
    BY <1>8 DEF ApplyMove, SetAccountProxy, NextMove, MoveRecord, NoMove
  <1>9. CASE MoveAnswerLost
    BY <1>9 DEF MoveAnswerLost, SetAccountProxy, NextMove, MoveRecord, NoMove
  <1>10. CASE MoveFails
    BY <1>10 DEF MoveFails, NextMove
  <1>11. CASE Unpark
    BY <1>11 DEF Unpark, NextMove
  <1>12. CASE UnparkFails
    BY <1>12 DEF UnparkFails, NextMove
  <1>13. CASE EndRun
    BY <1>13 DEF EndRun, NoLocals
  <1>14. QED
    BY <1>1, <1>2, <1>3, <1>4, <1>5, <1>6, <1>7, <1>8, <1>9, <1>10, <1>11,
       <1>12, <1>13 DEF Rebalancing

LEMMA PinningType == TypeOK /\ Pinning => TypeOK'
  <1> SUFFICES ASSUME TypeOK, Pinning PROVE TypeOK'
    OBVIOUS
  <1> USE DEF TypeOK, upstream, store, Place, ProxyStatus
  <1>1. ASSUME NEW a \in Accounts, NEW p \in Proxies, StartPin(a, p) PROVE TypeOK'
    BY <1>1 DEF StartPin, Move, MoveRecord
  <1>2. CASE PinApply
    BY <1>2 DEF PinApply, SetAccountProxy, MoveRecord, NoMove
  <1>3. CASE PinAnswerLost
    BY <1>3 DEF PinAnswerLost, SetAccountProxy, NoLocals, MoveRecord, NoMove
  <1>4. CASE PinUnpark
    BY <1>4 DEF PinUnpark
  <1>5. CASE PinSave
    BY <1>5 DEF PinSave, NoLocals, MoveRecord, NoMove
  <1>6. ASSUME NEW a \in Accounts, Unpin(a) PROVE TypeOK'
    BY <1>6 DEF Unpin, locals
  <1>7. QED
    BY <1>1, <1>2, <1>3, <1>4, <1>5, <1>6 DEF Pinning

LEMMA EnvironmentType == TypeOK /\ Environment => TypeOK'
  <1> SUFFICES ASSUME TypeOK, Environment PROVE TypeOK'
    OBVIOUS
  <1> USE DEF TypeOK, upstream, store, locals, Place, ProxyStatus
  <1>1. CASE Crash
    BY <1>1 DEF Crash, NoLocals
  <1>2. CASE ProbeVerdicts
    BY <1>2 DEF ProbeVerdicts
  <1>3. ASSUME NEW a \in Accounts, NEW place \in Place, OperatorAssign(a, place)
        PROVE  TypeOK'
    BY <1>3 DEF OperatorAssign
  <1>4. ASSUME NEW a \in Accounts, OperatorRemovesAccount(a) PROVE TypeOK'
    BY <1>4 DEF OperatorRemovesAccount
  <1>5. ASSUME NEW p \in Proxies, NEW status \in ProxyStatus,
               OperatorSetsProxy(p, status)
        PROVE  TypeOK'
    BY <1>5 DEF OperatorSetsProxy
  <1>6. QED
    BY <1>1, <1>2, <1>3, <1>4, <1>5 DEF Environment

\* Every variable keeps its type, so in particular no plan ever names an account or
\* a place that does not exist.
THEOREM TypeCorrect == Spec => []TypeOK
  <1>1. TypeOK /\ UNCHANGED vars => TypeOK'
    BY DEF TypeOK, vars, upstream, store, locals
  <1>2. TypeOK /\ [Next]_vars => TypeOK'
    BY <1>1, RebalancingType, PinningType, EnvironmentType DEF Next
  <1>3. QED
    BY InitType, <1>2, PTL DEF Spec

-----------------------------------------------------------------------------
(***************************************************************************)
(* The inductive invariant behind the three safety invariants.  Parking:   *)
(* an account is parked from just before the call that makes it direct     *)
(* (ForcingIsParked) until after it has been given a proxy again           *)
(* (UnparkingIsProxied), and the clean-up of stale records only meets      *)
(* accounts that are on a proxy, which a forced account is not             *)
(* (HistoryIsDirect).  Never proxied: such an account is direct and never  *)
(* parked, so no plan contains it.  Verdicts: moves exist only during a    *)
(* run, and no probe stores verdicts during one.                           *)
(***************************************************************************)
ForcingIsParked == pc = "apply" /\ move.to = Direct => move.account \in parked

UnparkingIsProxied ==
    pc \in {"unpark", "pinUnpark"} => directBy[move.account] # "sidecar"

HistoryIsDirect ==
    \A a \in Accounts : /\ directBy[a] \in {"never", "sidecar"} => accountProxy[a] = Direct
                        /\ directBy[a] = "never" => a \notin parked

MovesOnlyInRun == pc \notin {"moving", "apply", "unpark"} => todo = {}

TodoNotDead == \A m \in todo : m.to \notin dead

IInv ==
    /\ TypeOK
    /\ ForcedIsParked /\ ForcingIsParked /\ UnparkingIsProxied
    /\ HistoryIsDirect /\ NeverProxiedNeverMoved
    /\ MovesOnlyInRun /\ TodoNotDead /\ MoveTargetNotDead

LEMMA InitIInv == Init => IInv
  <1> SUFFICES ASSUME Init PROVE IInv
    OBVIOUS
  <1>1. TypeOK
    BY InitType
  <1>2. \A a \in Accounts : directBy[a] \in {"never", "no"}
                            /\ (directBy[a] = "never" => accountProxy[a] = Direct)
    BY DEF Init
  <1>3. QED
    BY <1>1, <1>2 DEF Init, IInv, ForcedIsParked, ForcingIsParked, UnparkingIsProxied,
       HistoryIsDirect, NeverProxiedNeverMoved, MovesOnlyInRun, TodoNotDead,
       MoveTargetNotDead

\* An account that takes part in a run is on a proxy, or is direct and parked.
LEMMA PlanNotNever ==
    ASSUME IInv
    PROVE  \A m \in Plan : directBy[m.account] # "never"
  <1>1. \A a \in Participants : directBy[a] # "never"
    BY DEF IInv, TypeOK, HistoryIsDirect, Participants, Proxied, ParkedDirect, Known
  <1>2. TypeOK
    BY DEF IInv
  <1>3. QED
    BY <1>1, <1>2, PlanType

LEMMA RebalancingIInv == IInv /\ Rebalancing => IInv'
  <1> SUFFICES ASSUME IInv, Rebalancing PROVE IInv'
    OBVIOUS
  <1>0. TypeOK'
    BY RebalancingType DEF IInv
  <1> USE <1>0 DEF upstream, store
  <1> USE DEF IInv, TypeOK, ForcedIsParked, ForcingIsParked, UnparkingIsProxied,
          HistoryIsDirect, NeverProxiedNeverMoved, MovesOnlyInRun, TodoNotDead,
          MoveTargetNotDead
  <1>1. ASSUME NEW dry \in BOOLEAN, StartRebalance(dry) PROVE IInv'
    BY <1>1 DEF StartRebalance
  <1>2. CASE ReadFails
    BY <1>2 DEF ReadFails, NoLocals
  <1>3. StaleParked \subseteq {a \in parked : accountProxy[a] # Direct}
    BY DEF StaleParked, Proxied, Known
  <1>4. ASSUME NEW P \in SUBSET StaleParked, NEW Q \in SUBSET StalePins, DropStale(P, Q)
        PROVE  /\ \A a \in Accounts : directBy[a] = "sidecar" => a \in parked'
               /\ \A a \in Accounts : directBy[a] = "never" => a \notin parked'
    BY <1>3, <1>4 DEF DropStale
  <1>5. CASE CleanupFails
    <2>1. PICK P \in SUBSET StaleParked, Q \in SUBSET StalePins : DropStale(P, Q)
      BY <1>5 DEF CleanupFails
    <2>2. QED
      BY <1>4, <1>5, <2>1 DEF CleanupFails, NoLocals
  <1>6. CASE PlanNothing
    BY <1>4, <1>6 DEF PlanNothing, NoLocals
  <1>7. CASE PlanMoves
    <2>1. \A m \in Plan : directBy[m.account] # "never" /\ m.to \notin dead
      BY PlanNotNever, PlanType
    <2>2. QED
      BY <1>4, <1>7, <2>1 DEF PlanMoves
  <1>8. ASSUME NEW m \in todo, BeginMove(m) PROVE IInv'
    BY <1>8 DEF BeginMove, MoveRecord
  <1>9. ASSUME NEW m \in todo, ParkFails(m) PROVE IInv'
    BY <1>9 DEF ParkFails
  <1>10. CASE ApplyMove
    BY <1>10 DEF ApplyMove, SetAccountProxy, NextMove, MoveRecord, NoMove
  <1>11. CASE MoveAnswerLost
    BY <1>11 DEF MoveAnswerLost, SetAccountProxy, NextMove, MoveRecord, NoMove
  <1>12. CASE MoveFails
    BY <1>12 DEF MoveFails, NextMove
  <1>13. CASE Unpark
    BY <1>13 DEF Unpark, NextMove
  <1>14. CASE UnparkFails
    BY <1>14 DEF UnparkFails, NextMove
  <1>15. CASE EndRun
    BY <1>15 DEF EndRun, NoLocals
  <1>16. QED
    BY <1>1, <1>2, <1>5, <1>6, <1>7, <1>8, <1>9, <1>10, <1>11, <1>12, <1>13,
       <1>14, <1>15 DEF Rebalancing

LEMMA PinningIInv == IInv /\ Pinning => IInv'
  <1> SUFFICES ASSUME IInv, Pinning PROVE IInv'
    OBVIOUS
  <1>0. TypeOK'
    BY PinningType DEF IInv
  <1> USE <1>0 DEF upstream, store
  <1> USE DEF IInv, TypeOK, ForcedIsParked, ForcingIsParked, UnparkingIsProxied,
          HistoryIsDirect, NeverProxiedNeverMoved, MovesOnlyInRun, TodoNotDead,
          MoveTargetNotDead
  <1>1. ASSUME NEW a \in Accounts, NEW p \in Proxies, StartPin(a, p) PROVE IInv'
    BY <1>1 DEF StartPin
  <1>2. CASE PinApply
    BY <1>2 DEF PinApply, SetAccountProxy
  <1>3. CASE PinAnswerLost
    BY <1>3 DEF PinAnswerLost, SetAccountProxy, NoLocals
  <1>4. CASE PinUnpark
    BY <1>4 DEF PinUnpark
  <1>5. CASE PinSave
    BY <1>5 DEF PinSave, NoLocals
  <1>6. ASSUME NEW a \in Accounts, Unpin(a) PROVE IInv'
    BY <1>6 DEF Unpin, locals
  <1>7. QED
    BY <1>1, <1>2, <1>3, <1>4, <1>5, <1>6 DEF Pinning

LEMMA EnvironmentIInv == IInv /\ Environment => IInv'
  <1> SUFFICES ASSUME IInv, Environment PROVE IInv'
    OBVIOUS
  <1>0. TypeOK'
    BY EnvironmentType DEF IInv
  <1> USE <1>0 DEF upstream, store, locals
  <1> USE DEF IInv, TypeOK, ForcedIsParked, ForcingIsParked, UnparkingIsProxied,
          HistoryIsDirect, NeverProxiedNeverMoved, MovesOnlyInRun, TodoNotDead,
          MoveTargetNotDead
  <1>1. CASE Crash
    BY <1>1 DEF Crash, NoLocals
  <1>2. CASE ProbeVerdicts
    BY <1>2 DEF ProbeVerdicts
  <1>3. ASSUME NEW a \in Accounts, NEW place \in Place, OperatorAssign(a, place)
        PROVE  IInv'
    BY <1>3 DEF OperatorAssign, Place, MoveRecord
  <1>4. ASSUME NEW a \in Accounts, OperatorRemovesAccount(a) PROVE IInv'
    BY <1>4 DEF OperatorRemovesAccount, MoveRecord
  <1>5. ASSUME NEW p \in Proxies, NEW status \in ProxyStatus,
               OperatorSetsProxy(p, status)
        PROVE  IInv'
    BY <1>5 DEF OperatorSetsProxy
  <1>6. QED
    BY <1>1, <1>2, <1>3, <1>4, <1>5 DEF Environment

LEMMA IInvInductive == Spec => []IInv
  <1>1. IInv /\ UNCHANGED vars => IInv'
    BY DEF IInv, TypeOK, ForcedIsParked, ForcingIsParked, UnparkingIsProxied,
           HistoryIsDirect, NeverProxiedNeverMoved, MovesOnlyInRun, TodoNotDead,
           MoveTargetNotDead, vars, upstream, store, locals
  <1>2. IInv /\ [Next]_vars => IInv'
    BY <1>1, RebalancingIInv, PinningIInv, EnvironmentIInv DEF Next
  <1>3. QED
    BY InitIInv, <1>2, PTL DEF Spec

\* Parking is crash-safe: an account forced to direct always has a parked record.
THEOREM ParkingCrashSafe == Spec => []ForcedIsParked
  <1>1. IInv => ForcedIsParked
    BY DEF IInv
  <1>2. QED
    BY <1>1, IInvInductive, PTL

\* Accounts that never had a proxy are never planned for, and never moved.
THEOREM NeverProxiedSafe == Spec => []NeverProxiedNeverMoved
  <1>1. IInv => NeverProxiedNeverMoved
    BY DEF IInv
  <1>2. QED
    BY <1>1, IInvInductive, PTL

\* No run moves an account onto a proxy that is dead at that moment.
THEOREM MovesAvoidDead == Spec => []MoveTargetNotDead
  <1>1. IInv => MoveTargetNotDead
    BY DEF IInv
  <1>2. QED
    BY <1>1, IInvInductive, PTL

-----------------------------------------------------------------------------
(* Pins.                                                                   *)

\* A pin onto an eligible proxy is among those that the placement goes by.
LEMMA PlanFollowsPins ==
    ASSUME TypeOK
    PROVE  \A m \in Plan : pins[m.account] \in Eligible => m.to = pins[m.account]
  <1> SUFFICES ASSUME NEW m \in Plan, pins[m.account] \in Eligible
               PROVE  m.to = pins[m.account]
    OBVIOUS
  <1>1. m.account \in Participants
    BY PlanType
  <1>2. m.account \in DOMAIN Home /\ Home[m.account] = pins[m.account]
    BY <1>1 DEF Home
  <1>3. CASE m \in PinMoves(Participants, accountProxy, Home)
    BY <1>2, <1>3 DEF PinMoves, Move
  <1>4. m \notin PoolMoves(Eligible, Participants, accountProxy, Home)
    BY <1>2 DEF PoolMoves, Pool, Homeless, Surplus, Current
  <1>5. QED
    BY <1>3, <1>4 DEF Plan, Moves

LEMMA StepFollowsPins ==
    IInv /\ [Next]_vars =>
        [pc = "listed" =>
             \A m \in todo' : pins[m.account] \in Eligible => m.to = pins[m.account]]_vars
  <1> SUFFICES ASSUME IInv, Next, pc = "listed"
               PROVE  \A m \in todo' : pins[m.account] \in Eligible => m.to = pins[m.account]
    OBVIOUS
  <1>1. todo = {}
    BY DEF IInv, MovesOnlyInRun
  <1>2. CASE PlanMoves
    BY <1>2, PlanFollowsPins DEF PlanMoves, IInv
  <1>3. CASE ReadFails \/ CleanupFails \/ PlanNothing \/ Crash
    BY <1>3 DEF ReadFails, CleanupFails, PlanNothing, Crash, NoLocals
  <1>4. CASE \/ \E a \in Accounts, place \in Place : OperatorAssign(a, place)
             \/ \E a \in Accounts : OperatorRemovesAccount(a)
             \/ \E p \in Proxies, status \in ProxyStatus : OperatorSetsProxy(p, status)
    BY <1>1, <1>4 DEF OperatorAssign, OperatorRemovesAccount, OperatorSetsProxy, locals
  <1>5. ~Pinning /\ ~ProbeVerdicts
    BY DEF Pinning, StartPin, PinApply, PinAnswerLost, PinUnpark, PinSave, Unpin, ProbeVerdicts
  <1>6. Rebalancing => ReadFails \/ CleanupFails \/ PlanNothing \/ PlanMoves
    BY DEF Rebalancing, StartRebalance, BeginMove, ParkFails, ApplyMove, MoveAnswerLost,
           MoveFails, Unpark, UnparkFails, EndRun
  <1>7. QED
    BY <1>2, <1>3, <1>4, <1>5, <1>6 DEF Next, Environment

\* Every move that a run plans for an account pinned onto an eligible proxy takes it there.
THEOREM PinsAreRespected == Spec => PinsRespected
  BY IInvInductive, StepFollowsPins, PTL DEF Spec, PinsRespected
=============================================================================
