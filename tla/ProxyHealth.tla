---------------------------- MODULE ProxyHealth ----------------------------
(***************************************************************************)
(* ProxyHealthService as a whole: the probe ticks of ProxyProbe and the    *)
(* rebalances and pins of ProxyRebalance, over one store, one upstream and *)
(* one _operation_lock.  A tick decides at its end whether a rebalance is  *)
(* due and runs it without giving up the lock.                             *)
(***************************************************************************)
EXTENDS Integers, Sequences, FiniteSets

CONSTANTS
    Proxies, FailureThreshold, RecoveryThreshold, Whitelisted,
    Accounts, ProxyOrder, AccountOrder, Direct, Gone, NoPin,
    AutoMove,       \* the setting auto_move_enabled
    Edits           \* what operators do: a subset of {"account", "proxy", "pin"}

VARIABLES
    \* Of ProxyProbe.
    states, alert, allDown, clearing,
    step, outcomes, unsaved, vanished, recovered, streak, cleared,
    \* Of ProxyRebalance.
    proxyStatus, accountProxy, parked, pins,
    pc, dryRun, seenProxies, seenParked, todo, move, directBy,
    \* The tick has found that a rebalance is due; it still holds the lock.
    due

Listed == {p \in Proxies : proxyStatus[p] # "absent"}
Dead == {p \in Proxies : states[p].health = "dead"}

Probe == INSTANCE ProxyProbe WITH listed <- Listed
Rebalance == INSTANCE ProxyRebalance WITH dead <- Dead

probeVars == <<states, alert, allDown, clearing,
               step, outcomes, unsaved, vanished, recovered, streak, cleared>>
rebalanceVars == <<proxyStatus, accountProxy, parked, pins,
                   pc, dryRun, seenProxies, seenParked, todo, move, directBy>>
vars == <<probeVars, rebalanceVars, due>>

Init ==
    /\ states = [p \in Proxies |-> Probe!NoState]
    /\ Rebalance!Init
    /\ alert = {}
    /\ allDown = FALSE
    /\ clearing = {}
    /\ step = "idle"
    /\ outcomes = [p \in {} |-> Probe!NoState]
    /\ unsaved = {}
    /\ vanished = {}
    /\ recovered = FALSE
    /\ streak = [p \in Proxies |-> 0]
    /\ cleared = {}
    /\ due = FALSE

\* Mutation of LockFree: a tick waiting to rebalance has let go of the lock.
LockFreeBeforeRebalance == step = "idle" /\ pc = "idle"

LockFree == step = "idle" /\ pc = "idle" /\ ~due

-----------------------------------------------------------------------------
(* Ticks.                                                                  *)

StartTick ==
    /\ LockFree
    /\ UNCHANGED rebalanceVars
    /\ \E obs \in [Listed -> Probe!Observation] : Probe!StartProbe(obs)
    /\ UNCHANGED due

SaveStates ==
    /\ UNCHANGED rebalanceVars
    /\ \E p \in Proxies : Probe!SaveState(p) \/ Probe!ForgetState(p)
    /\ UNCHANGED due

\* Mutation of RebalanceDue: dead proxies count only once all are dead.
RebalanceDueAllDown ==
    /\ AutoMove
    /\ \/ recovered
       \/ \A p \in DOMAIN outcomes : outcomes[p].health = "dead"
       \/ parked # {} /\ \E p \in DOMAIN outcomes : outcomes[p].health = "healthy"

\* Mutation of RebalanceDue: parked accounts wait for the next transition.
RebalanceDueUnlessParked ==
    AutoMove /\ (recovered \/ \E p \in DOMAIN outcomes : outcomes[p].health = "dead")

\* A proxy has died or recovered in this tick, or is dead, or accounts are parked
\* although a proxy is healthy.
RebalanceDue ==
    /\ AutoMove
    /\ \/ recovered
       \/ \E p \in DOMAIN outcomes : outcomes[p].health = "dead"
       \/ parked # {} /\ \E p \in DOMAIN outcomes : outcomes[p].health = "healthy"

\* The samples are stored, or not, and the tick rebalances if that is due.
EndTick ==
    /\ due' = RebalanceDue
    /\ UNCHANGED rebalanceVars
    /\ Probe!SaveSamples \/ Probe!SamplesFail

StartDueRebalance ==
    /\ due
    /\ due' = FALSE
    /\ UNCHANGED probeVars
    /\ Rebalance!StartRebalance(FALSE)

\* list_proxies raises: the run is recorded as failed and the tick is over.
DueRebalanceFails ==
    /\ due
    /\ due' = FALSE
    /\ UNCHANGED <<probeVars, rebalanceVars>>

-----------------------------------------------------------------------------
(* Runs and pins.                                                          *)

\* The panel's rebalance button, dry run or not.
ManualRebalance ==
    /\ LockFree
    /\ UNCHANGED probeVars
    /\ \E dry \in BOOLEAN : Rebalance!StartRebalance(dry)
    /\ UNCHANGED due

ContinueRebalance ==
    /\ UNCHANGED probeVars
    /\ \/ Rebalance!ReadFails \/ Rebalance!CleanupFails
       \/ Rebalance!PlanNothing \/ Rebalance!PlanMoves
       \/ \E m \in todo : Rebalance!BeginMove(m) \/ Rebalance!ParkFails(m)
       \/ Rebalance!ApplyMove \/ Rebalance!MoveAnswerLost \/ Rebalance!MoveFails
       \/ Rebalance!Unpark \/ Rebalance!UnparkFails \/ Rebalance!EndRun
    /\ UNCHANGED due

StartPinning ==
    /\ LockFree /\ "pin" \in Edits
    /\ UNCHANGED probeVars
    /\ \/ \E a \in Accounts, p \in Proxies : Rebalance!StartPin(a, p)
       \/ \E a \in Accounts : Rebalance!Unpin(a)
    /\ UNCHANGED due

ContinuePinning ==
    /\ UNCHANGED probeVars
    /\ \/ Rebalance!PinApply \/ Rebalance!PinAnswerLost
       \/ Rebalance!PinUnpark \/ Rebalance!PinSave
    /\ UNCHANGED due

-----------------------------------------------------------------------------
(* Operators and crashes.                                                  *)

EditAccount ==
    /\ "account" \in Edits
    /\ UNCHANGED probeVars
    /\ \/ \E a \in Accounts, place \in Rebalance!Place : Rebalance!OperatorAssign(a, place)
       \/ \E a \in Accounts : Rebalance!OperatorRemovesAccount(a)
    /\ UNCHANGED due

\* Disabled or enabled, or deleted, through the panel or not.
EditProxy ==
    /\ "proxy" \in Edits
    /\ UNCHANGED states
    /\ \E p \in Proxies :
           \/ /\ \E status \in {"active", "disabled"} : Rebalance!OperatorSetsProxy(p, status)
              /\ UNCHANGED probeVars
           \/ /\ Rebalance!OperatorSetsProxy(p, "absent")
              /\ Probe!DeleteProxy(p) \/ Probe!DeletedElsewhere(p)
    /\ UNCHANGED due

ClearDeleted ==
    /\ UNCHANGED <<rebalanceVars, due>>
    /\ \/ LockFree /\ \E p \in Proxies : Probe!ClearState(p)
       \/ Probe!ClearSample \/ Probe!ClearSampleFails

Crash ==
    \/ UNCHANGED <<rebalanceVars, due>> /\ Probe!Crash
    \/ UNCHANGED <<probeVars, due>> /\ Rebalance!Crash

\* A crash that no step of the service going its way looks like.
CrashMidway == Crash /\ ~(EndTick \/ ContinueRebalance \/ ContinuePinning \/ ClearDeleted)

OperatorStep == ManualRebalance \/ StartPinning \/ EditAccount \/ EditProxy

Next ==
    \/ StartTick \/ SaveStates \/ EndTick \/ StartDueRebalance \/ DueRebalanceFails
    \/ ContinueRebalance \/ ContinuePinning \/ ClearDeleted
    \/ OperatorStep \/ Crash

Spec == Init /\ [][Next]_vars

\* The scheduler starts tick after tick and whoever holds the lock goes on (every
\* call has a timeout); a call that is made again and again is answered some day;
\* crashes and the requests of the operators stop some day.
Fairness ==
    /\ WF_vars(StartTick)
    /\ WF_vars(SaveStates)
    /\ WF_vars(EndTick)
    /\ WF_vars(StartDueRebalance \/ DueRebalanceFails)
    /\ WF_vars(ContinueRebalance)
    /\ WF_vars(ContinuePinning)
    /\ WF_vars(ClearDeleted)
    /\ SF_vars(StartDueRebalance)
    /\ SF_vars(UNCHANGED <<probeVars, due>>
               /\ (Rebalance!PlanNothing \/ Rebalance!PlanMoves))
    /\ \A a \in Accounts :
          /\ SF_vars(ContinueRebalance /\ pc = "moving" /\ pc' = "apply" /\ move'.account = a)
          /\ SF_vars(ContinueRebalance /\ pc = "apply" /\ move.account = a
                     /\ Rebalance!ApplyMove)
    /\ <>[][~CrashMidway]_vars
    /\ <>[][~OperatorStep]_vars

FairSpec == Spec /\ Fairness

-----------------------------------------------------------------------------
(***************************************************************************)
(* Holding the lock from a tick's first call to the end of the rebalance it*)
(* finds due serialises what it must: as a rebalance or a pin sees it,     *)
(* verdicts change only while none is under way, so the service behaves as *)
(* ProxyRebalance says (and inherits what is proved of it).                *)
(***************************************************************************)
RebalanceSpec == Rebalance!Spec

(***************************************************************************)
(* Accounts are moved off a dead proxy although moves fail, answers are    *)
(* lost and the process crashes: every tick that sees a dead proxy tries   *)
(* again (the comment on the trigger in _probe_once_locked).               *)
(***************************************************************************)
DeadProxiesAreLeft ==
    \A a \in Accounts, p \in Proxies :
        (p \in Dead \cap Listed /\ accountProxy[a] = p)
            ~> (accountProxy[a] # p \/ p \notin Dead \cap Listed)

HealthyExists == \E p \in Proxies : proxyStatus[p] = "active" /\ states[p].health = "healthy"

(***************************************************************************)
(* Accounts parked on a direct connection return to a proxy once one is    *)
(* healthy and stays so, and their parked records do not outlive that      *)
(* (class docstring: "re-proxied once a proxy recovers").                  *)
(***************************************************************************)
ParkedReturn ==
    \A a \in Accounts :
        /\ (a \in parked /\ accountProxy[a] = Direct /\ HealthyExists)
               ~> (accountProxy[a] # Direct \/ ~HealthyExists)
        /\ (a \in parked /\ accountProxy[a] # Direct /\ HealthyExists)
               ~> (a \notin parked \/ accountProxy[a] = Direct \/ ~HealthyExists)

(***************************************************************************)
(* What the comment on pin_target in _rebalance_locked says: "the surviving*)
(* pin record sends it home once the proxy recovers" (proxy_health.py:575).*)
(* Does not hold when the one move of the recovery tick fails: nothing is  *)
(* dead or parked any more, so no later tick tries again.                  *)
(***************************************************************************)
PinnedReturnHome ==
    \A a \in Accounts, p \in Proxies :
        (/\ pins[a] = p /\ accountProxy[a] \in Proxies \ {p}
         /\ proxyStatus[p] = "active" /\ states[p].health = "healthy")
            ~> \/ accountProxy[a] = p \/ pins[a] # p \/ accountProxy[a] \notin Proxies
               \/ proxyStatus[p] # "active" \/ states[p].health # "healthy"
=============================================================================
