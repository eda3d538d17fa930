------------------------- MODULE ProxyHealthProofs -------------------------
(***************************************************************************)
(* ProxyHealth implements both ProxyRebalance and ProxyProbe, for any sets *)
(* of proxies and accounts and any thresholds: a step of the service is a  *)
(* step of the rebalance, or it leaves the variables of the rebalance, the *)
(* dead verdicts among them, as they are; and likewise for the prober.     *)
(***************************************************************************)
EXTENDS ProxyHealth, TLAPS

\* Who holds the lock: a tick never does while an operation of the rebalance does,
\* nor does anybody else between a tick and the rebalance it has found due.
LockInv ==
    /\ step # "idle" => pc = "idle" /\ ~due
    /\ due => step = "idle" /\ pc = "idle"

USE DEF rebalanceVars, probeVars

\* What an operation of the rebalance does once it has begun.
ContinueSteps ==
    \/ Rebalance!ReadFails \/ Rebalance!CleanupFails
    \/ Rebalance!PlanNothing \/ Rebalance!PlanMoves
    \/ \E m \in todo : Rebalance!BeginMove(m) \/ Rebalance!ParkFails(m)
    \/ Rebalance!ApplyMove \/ Rebalance!MoveAnswerLost \/ Rebalance!MoveFails
    \/ Rebalance!Unpark \/ Rebalance!UnparkFails \/ Rebalance!EndRun

PinSteps ==
    \/ Rebalance!PinApply \/ Rebalance!PinAnswerLost
    \/ Rebalance!PinUnpark \/ Rebalance!PinSave

LEMMA ContinueHolds == ContinueSteps => pc # "idle"
  BY DEF ContinueSteps, Rebalance!ReadFails, Rebalance!CleanupFails, Rebalance!PlanNothing,
         Rebalance!PlanMoves, Rebalance!BeginMove, Rebalance!ParkFails, Rebalance!ApplyMove,
         Rebalance!MoveAnswerLost, Rebalance!MoveFails, Rebalance!Unpark,
         Rebalance!UnparkFails, Rebalance!EndRun

LEMMA PinHolds == PinSteps => pc # "idle"
  BY DEF PinSteps, Rebalance!PinApply, Rebalance!PinAnswerLost, Rebalance!PinUnpark,
         Rebalance!PinSave

\* No step of the prober touches pc, and those of a tick are made by the lock's holder.
LEMMA TickHolds ==
    /\ SaveStates => step = "saving" /\ UNCHANGED <<step, rebalanceVars, due>>
    /\ EndTick => step = "saving" /\ step' = "idle" /\ UNCHANGED rebalanceVars
  <1>1. SaveStates => step = "saving" /\ UNCHANGED <<step, rebalanceVars, due>>
    BY DEF SaveStates, Probe!SaveState, Probe!ForgetState
  <1>2. EndTick => step = "saving" /\ step' = "idle" /\ UNCHANGED rebalanceVars
    BY DEF EndTick, Probe!SaveSamples, Probe!SamplesFail, Probe!StatesSaved,
           Probe!NoOperation
  <1>3. QED
    BY <1>1, <1>2

-----------------------------------------------------------------------------
(* The lock.                                                               *)

LEMMA InitLock == Init => LockInv
  BY DEF Init, LockInv, Rebalance!Init

LEMMA NextLock == LockInv /\ [Next]_vars => LockInv'
  <1> SUFFICES ASSUME LockInv, [Next]_vars PROVE LockInv'
    OBVIOUS
  <1> USE DEF LockInv
  <1>1. CASE StartTick
    BY <1>1 DEF StartTick, LockFree
  <1>2. CASE SaveStates
    BY <1>2, TickHolds
  <1>3. CASE EndTick
    BY <1>3, TickHolds
  <1>4. CASE StartDueRebalance
    BY <1>4 DEF StartDueRebalance
  <1>5. CASE DueRebalanceFails
    BY <1>5 DEF DueRebalanceFails
  <1>6. CASE ContinueRebalance
    <2>1. ContinueSteps /\ UNCHANGED <<probeVars, due>>
      BY <1>6 DEF ContinueRebalance, ContinueSteps
    <2>2. QED
      BY <2>1, ContinueHolds
  <1>7. CASE ContinuePinning
    <2>1. PinSteps /\ UNCHANGED <<probeVars, due>>
      BY <1>7 DEF ContinuePinning, PinSteps
    <2>2. QED
      BY <2>1, PinHolds
  <1>8. CASE ClearDeleted
    BY <1>8 DEF ClearDeleted, LockFree, Probe!ClearSample, Probe!ClearSampleFails,
                Probe!NoOperation
  <1>9. CASE ManualRebalance
    BY <1>9 DEF ManualRebalance, LockFree
  <1>10. CASE StartPinning
    BY <1>10 DEF StartPinning, LockFree
  <1>11. CASE EditAccount
    BY <1>11 DEF EditAccount, Rebalance!OperatorAssign, Rebalance!OperatorRemovesAccount,
                 Rebalance!locals
  <1>12. CASE EditProxy
    BY <1>12 DEF EditProxy, Rebalance!OperatorSetsProxy, Rebalance!locals,
                 Probe!DeleteProxy, Probe!DeletedElsewhere
  <1>13. CASE Crash
    BY <1>13 DEF Crash, Probe!Crash, Probe!NoOperation, Rebalance!Crash, Rebalance!NoLocals
  <1>14. CASE UNCHANGED vars
    BY <1>14 DEF vars
  <1>15. QED
    BY <1>1, <1>2, <1>3, <1>4, <1>5, <1>6, <1>7, <1>8, <1>9, <1>10, <1>11, <1>12,
       <1>13, <1>14 DEF Next, OperatorStep

-----------------------------------------------------------------------------
(* As the rebalance sees it.                                               *)

LEMMA InitMaps == Init => Rebalance!Init
  BY DEF Init

\* Verdicts that are not touched are seen by the rebalance as they were.
LEMMA SameStatesSameDead == UNCHANGED <<states, rebalanceVars>> => UNCHANGED Rebalance!vars
  BY DEF Dead, Rebalance!vars, Rebalance!upstream, Rebalance!store, Rebalance!locals

\* A step that stores verdicts while nobody rebalances is the abstract prober's.
LEMMA VerdictsMap ==
    ASSUME pc = "idle", UNCHANGED rebalanceVars
    PROVE  Rebalance!ProbeVerdicts
  <1>1. Dead' \in SUBSET Proxies
    BY DEF Dead
  <1>2. QED
    BY <1>1 DEF Rebalance!ProbeVerdicts, Rebalance!upstream, Rebalance!locals

LEMMA NextMaps == LockInv /\ [Next]_vars => [Rebalance!Next]_Rebalance!vars
  <1> SUFFICES ASSUME LockInv, [Next]_vars PROVE [Rebalance!Next]_Rebalance!vars
    OBVIOUS
  <1>1. CASE StartTick
    <2>1. UNCHANGED <<states, rebalanceVars>>
      BY <1>1 DEF StartTick, Probe!StartProbe
    <2>2. QED
      BY <2>1, SameStatesSameDead
  <1>2. CASE SaveStates
    <2>1. pc = "idle" /\ UNCHANGED rebalanceVars
      BY <1>2, TickHolds DEF LockInv
    <2>2. QED
      BY <2>1, VerdictsMap DEF Rebalance!Next, Rebalance!Environment
  <1>3. CASE EndTick
    <2>1. UNCHANGED <<states, rebalanceVars>>
      BY <1>3 DEF EndTick, Probe!SaveSamples, Probe!SamplesFail
    <2>2. QED
      BY <2>1, SameStatesSameDead
  <1>4. CASE StartDueRebalance
    BY <1>4 DEF StartDueRebalance, Rebalance!Next, Rebalance!Rebalancing
  <1>5. CASE DueRebalanceFails
    BY <1>5, SameStatesSameDead DEF DueRebalanceFails
  <1>6. CASE ContinueRebalance
    BY <1>6 DEF ContinueRebalance, Rebalance!Next, Rebalance!Rebalancing
  <1>7. CASE ContinuePinning
    BY <1>7 DEF ContinuePinning, Rebalance!Next, Rebalance!Pinning
  <1>8. CASE ClearDeleted
    <2>1. CASE LockFree /\ \E p \in Proxies : Probe!ClearState(p)
      <3>1. pc = "idle" /\ UNCHANGED rebalanceVars
        BY <1>8, <2>1 DEF ClearDeleted, LockFree
      <3>2. QED
        BY <3>1, VerdictsMap DEF Rebalance!Next, Rebalance!Environment
    <2>2. CASE Probe!ClearSample \/ Probe!ClearSampleFails
      <3>1. UNCHANGED <<states, rebalanceVars>>
        BY <1>8, <2>2 DEF ClearDeleted, Probe!ClearSample, Probe!ClearSampleFails
      <3>2. QED
        BY <3>1, SameStatesSameDead
    <2>3. QED
      BY <1>8, <2>1, <2>2 DEF ClearDeleted
  <1>9. CASE ManualRebalance
    BY <1>9 DEF ManualRebalance, Rebalance!Next, Rebalance!Rebalancing
  <1>10. CASE StartPinning
    BY <1>10 DEF StartPinning, Rebalance!Next, Rebalance!Pinning
  <1>11. CASE EditAccount
    BY <1>11 DEF EditAccount, Rebalance!Next, Rebalance!Environment
  <1>12. CASE EditProxy
    BY <1>12 DEF EditProxy, Rebalance!Next, Rebalance!Environment, Rebalance!ProxyStatus
  <1>13. CASE Crash
    <2>1. CASE UNCHANGED <<rebalanceVars, due>> /\ Probe!Crash
      <3>1. UNCHANGED <<states, rebalanceVars>>
        BY <2>1 DEF Probe!Crash
      <3>2. QED
        BY <3>1, SameStatesSameDead
    <2>2. CASE Rebalance!Crash
      BY <2>2 DEF Rebalance!Next, Rebalance!Environment
    <2>3. QED
      BY <1>13, <2>1, <2>2 DEF Crash
  <1>14. CASE UNCHANGED vars
    BY <1>14, SameStatesSameDead DEF vars
  <1>15. QED
    BY <1>1, <1>2, <1>3, <1>4, <1>5, <1>6, <1>7, <1>8, <1>9, <1>10, <1>11, <1>12,
       <1>13, <1>14 DEF Next, OperatorStep

(***************************************************************************)
(* As a rebalance or a pin sees it, verdicts change only while no other    *)
(* operation is under way: _operation_lock is held from the first call of  *)
(* a tick to the end of the rebalance the tick finds due, whichever of the *)
(* two crashes, fails or is overtaken by an operator's edit.               *)
(***************************************************************************)
THEOREM LockSerialises == Spec => RebalanceSpec
  <1>1. Init => LockInv
    BY InitLock
  <1>2. LockInv /\ [Next]_vars => LockInv'
    BY NextLock
  <1>3. Init => Rebalance!Init
    BY InitMaps
  <1>4. LockInv /\ [Next]_vars => [Rebalance!Next]_Rebalance!vars
    BY NextMaps
  <1>5. QED
    BY <1>1, <1>2, <1>3, <1>4, PTL DEF Spec, RebalanceSpec, Rebalance!Spec

-----------------------------------------------------------------------------
(* As the prober sees it.                                                  *)

LEMMA InitMapsToProbe == Init => Probe!Init
  <1> SUFFICES ASSUME Init PROVE Probe!Init
    OBVIOUS
  <1>1. Listed = Proxies
    BY DEF Init, Rebalance!Init, Listed
  <1>2. QED
    BY <1>1 DEF Init, Probe!Init

\* Proxies that are neither added nor deleted are listed as they were.
LEMMA SameProxiesSameListed == UNCHANGED <<proxyStatus, probeVars>> => UNCHANGED Probe!vars
  BY DEF Listed, Probe!vars

\* An operation of the rebalance leaves the proxies themselves alone.
LEMMA OperationsKeepProxies ==
    ContinueSteps \/ PinSteps \/ Rebalance!Crash => UNCHANGED proxyStatus
  BY DEF ContinueSteps, PinSteps, Rebalance!ReadFails, Rebalance!CleanupFails,
         Rebalance!PlanNothing, Rebalance!PlanMoves, Rebalance!BeginMove,
         Rebalance!ParkFails, Rebalance!ApplyMove, Rebalance!MoveAnswerLost,
         Rebalance!MoveFails, Rebalance!Unpark, Rebalance!UnparkFails, Rebalance!EndRun,
         Rebalance!PinApply, Rebalance!PinAnswerLost, Rebalance!PinUnpark,
         Rebalance!PinSave, Rebalance!Crash, Rebalance!upstream

LEMMA NextMapsToProbe ==
    ASSUME proxyStatus \in [Proxies -> Rebalance!ProxyStatus], [Next]_vars
    PROVE  [Probe!Next]_Probe!vars
  <1>1. CASE StartTick
    BY <1>1 DEF StartTick, Probe!Next, Probe!Ticking
  <1>2. CASE SaveStates
    BY <1>2 DEF SaveStates, Probe!Next, Probe!Ticking
  <1>3. CASE EndTick
    BY <1>3 DEF EndTick, Probe!Next, Probe!Ticking
  <1>4. CASE StartDueRebalance
    BY <1>4, SameProxiesSameListed
       DEF StartDueRebalance, Rebalance!StartRebalance, Rebalance!upstream
  <1>5. CASE DueRebalanceFails
    BY <1>5, SameProxiesSameListed DEF DueRebalanceFails
  <1>6. CASE ContinueRebalance
    <2>1. ContinueSteps /\ UNCHANGED probeVars
      BY <1>6 DEF ContinueRebalance, ContinueSteps
    <2>2. QED
      BY <2>1, OperationsKeepProxies, SameProxiesSameListed
  <1>7. CASE ContinuePinning
    <2>1. PinSteps /\ UNCHANGED probeVars
      BY <1>7 DEF ContinuePinning, PinSteps
    <2>2. QED
      BY <2>1, OperationsKeepProxies, SameProxiesSameListed
  <1>8. CASE ClearDeleted
    BY <1>8 DEF ClearDeleted, Probe!Next, Probe!Deleting
  <1>9. CASE ManualRebalance
    BY <1>9, SameProxiesSameListed
       DEF ManualRebalance, Rebalance!StartRebalance, Rebalance!upstream
  <1>10. CASE StartPinning
    BY <1>10, SameProxiesSameListed
       DEF StartPinning, Rebalance!StartPin, Rebalance!Unpin, Rebalance!upstream
  <1>11. CASE EditAccount
    BY <1>11, SameProxiesSameListed
       DEF EditAccount, Rebalance!OperatorAssign, Rebalance!OperatorRemovesAccount
  <1>12. CASE EditProxy
    <2>1. PICK p \in Proxies :
              \/ /\ \E status \in {"active", "disabled"} :
                        Rebalance!OperatorSetsProxy(p, status)
                 /\ UNCHANGED probeVars
              \/ Probe!DeleteProxy(p) \/ Probe!DeletedElsewhere(p)
      BY <1>12 DEF EditProxy
    <2>2. CASE Probe!DeleteProxy(p) \/ Probe!DeletedElsewhere(p)
      BY <2>2 DEF Probe!Next, Probe!Deleting
    <2>3. CASE /\ \E status \in {"active", "disabled"} :
                       Rebalance!OperatorSetsProxy(p, status)
               /\ UNCHANGED probeVars
      <3>1. Listed' = Listed
        BY <2>3 DEF Rebalance!OperatorSetsProxy, Listed, Rebalance!ProxyStatus
      <3>2. QED
        BY <2>3, <3>1 DEF Probe!vars
    <2>4. QED
      BY <2>1, <2>2, <2>3
  <1>13. CASE Crash
    <2>1. CASE Probe!Crash
      BY <2>1 DEF Probe!Next
    <2>2. CASE UNCHANGED probeVars /\ Rebalance!Crash
      BY <2>2, OperationsKeepProxies, SameProxiesSameListed
    <2>3. QED
      BY <1>13, <2>1, <2>2 DEF Crash
  <1>14. CASE UNCHANGED vars
    BY <1>14, SameProxiesSameListed DEF vars
  <1>15. QED
    BY <1>1, <1>2, <1>3, <1>4, <1>5, <1>6, <1>7, <1>8, <1>9, <1>10, <1>11, <1>12,
       <1>13, <1>14 DEF Next, OperatorStep

LEMMA InitStatus == Init => proxyStatus \in [Proxies -> Rebalance!ProxyStatus]
  BY DEF Init, Rebalance!Init, Rebalance!ProxyStatus

LEMMA NextStatus ==
    ASSUME proxyStatus \in [Proxies -> Rebalance!ProxyStatus], [Next]_vars
    PROVE  proxyStatus' \in [Proxies -> Rebalance!ProxyStatus]
  <1>1. CASE UNCHANGED proxyStatus
    BY <1>1
  <1>2. CASE EditProxy
    BY <1>2 DEF EditProxy, Rebalance!OperatorSetsProxy, Rebalance!ProxyStatus
  <1>3. CASE ContinueRebalance \/ ContinuePinning \/ Crash
    <2>1. ContinueSteps \/ PinSteps \/ Rebalance!Crash \/ UNCHANGED proxyStatus
      BY <1>3 DEF ContinueRebalance, ContinuePinning, Crash, ContinueSteps, PinSteps
    <2>2. QED
      BY <2>1, OperationsKeepProxies
  <1>4. QED
    BY <1>1, <1>2, <1>3
       DEF Next, OperatorStep, vars, StartTick, SaveStates, EndTick, StartDueRebalance,
           DueRebalanceFails, ClearDeleted, ManualRebalance, StartPinning, EditAccount,
           Rebalance!StartRebalance, Rebalance!StartPin, Rebalance!Unpin,
           Rebalance!OperatorAssign, Rebalance!OperatorRemovesAccount, Rebalance!upstream

(***************************************************************************)
(* Rebalances, pins and the operators' edits do not disturb the probes:    *)
(* what the prober promises of verdicts and alerts (Hysteresis,            *)
(* ClearedStaysCleared) it promises in the service as a whole.             *)
(***************************************************************************)
THEOREM ProbesUndisturbed == Spec => Probe!Spec
  <1> DEFINE Status == proxyStatus \in [Proxies -> Rebalance!ProxyStatus]
  <1>1. Init => Status
    BY InitStatus
  <1>2. Status /\ [Next]_vars => Status'
    BY NextStatus
  <1>3. Init => Probe!Init
    BY InitMapsToProbe
  <1>4. Status /\ [Next]_vars => [Probe!Next]_Probe!vars
    BY NextMapsToProbe
  <1> HIDE DEF Status
  <1>5. QED
    BY <1>1, <1>2, <1>3, <1>4, PTL DEF Spec, Probe!Spec
=============================================================================
