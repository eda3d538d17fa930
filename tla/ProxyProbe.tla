----------------------------- MODULE ProxyProbe -----------------------------
(***************************************************************************)
(* ProxyHealthService._probe_once_locked and clear_proxy_state: the verdict*)
(* on each proxy with its hysteresis, how a tick persists the verdicts and *)
(* the alert samples one call after the other, and how the traces of a     *)
(* deleted proxy are removed.  Ticks hold _operation_lock from start to    *)
(* end; proxies are deleted upstream without it.                           *)
(***************************************************************************)
EXTENDS Integers, FiniteSets

CONSTANTS
    Proxies,            \* proxy ids; upstream never reuses one
    FailureThreshold,
    RecoveryThreshold,
    Whitelisted         \* proxies whose death raises no alert

ProbeAssumption ==
    /\ FailureThreshold \in Nat \ {0}
    /\ RecoveryThreshold \in Nat \ {0}
    /\ Whitelisted \subseteq Proxies

VARIABLES
    listed,      \* proxies that exist upstream
    states,      \* the stored health state of each proxy, or NoState
    alert,       \* proxies whose latest proxy_unreachable sample is 1
    allDown,     \* the latest proxy_all_down sample
    clearing,    \* proxies deleted through the panel, traces not yet cleared
    \* The operation that holds the lock.
    step,        \* its next step; "idle" when there is none
    outcomes,    \* the new states a tick has computed, per probed proxy
    unsaved,     \* the probed proxies whose new state is not stored yet
    vanished,    \* the proxies that had a state and are no longer listed
    recovered,   \* in this tick a proxy has come back from the dead
    \* History.
    streak,      \* per proxy, the latest run of equal stored verdicts: n good, -n bad
    cleared      \* proxies whose traces clear_proxy_state has removed

vars == <<listed, states, alert, allDown, clearing,
          step, outcomes, unsaved, vanished, recovered, streak, cleared>>

NoState == [health |-> "none", fails |-> 0, succs |-> 0, failing |-> FALSE]
State == [health : {"unknown", "healthy", "dead"}, fails : Nat, succs : Nat,
          failing : BOOLEAN]

\* What one probe observes: a failed connectivity test; or a success, its latency
\* under the bound or not, and the quality check's verdict on the critical targets,
\* "none" when it is not due or its request fails.
Observation ==
    [test : {TRUE}, fast : BOOLEAN, quality : {"none", "pass", "fail"}]
    \cup [test : {FALSE}, fast : {FALSE}, quality : {"none"}]

TypeOK ==
    /\ listed \in SUBSET Proxies
    /\ states \in [Proxies -> State \cup {NoState}]
    /\ alert \in SUBSET Proxies
    /\ allDown \in BOOLEAN
    /\ clearing \in SUBSET Proxies
    /\ step \in {"idle", "saving", "clearSample"}
    /\ DOMAIN outcomes \in SUBSET Proxies
    /\ \A p \in DOMAIN outcomes : outcomes[p] \in State
    /\ unsaved \in SUBSET DOMAIN outcomes
    /\ vanished \in SUBSET Proxies
    /\ recovered \in BOOLEAN
    /\ streak \in [Proxies -> Int]
    /\ cleared \in SUBSET Proxies

NoOperation ==
    /\ step' = "idle"
    /\ outcomes' = [p \in {} |-> NoState]
    /\ unsaved' = {}
    /\ vanished' = {}
    /\ recovered' = FALSE

Init ==
    /\ listed = Proxies
    /\ states = [p \in Proxies |-> NoState]
    /\ alert = {}
    /\ allDown = FALSE
    /\ clearing = {}
    /\ step = "idle"
    /\ outcomes = [p \in {} |-> NoState]
    /\ unsaved = {}
    /\ vanished = {}
    /\ recovered = FALSE
    /\ streak = [p \in Proxies |-> 0]
    /\ cleared = {}

-----------------------------------------------------------------------------
(* The verdict on one proxy.                                               *)

Capped(n, bound) == IF n < bound THEN n ELSE bound

\* A proxy without a stored state starts as unknown.
Stored(p) == IF states[p] = NoState THEN [NoState EXCEPT !.health = "unknown"]
             ELSE states[p]

\* A failing critical target is remembered until a quality check passes it.
Failing(s, o) == IF o.test /\ o.quality # "none" THEN o.quality = "fail" ELSE s.failing
Good(s, o) == o.test /\ o.fast /\ ~Failing(s, o)

\* Mutation of NextHealth: one good round is enough to come back from the dead.
NextHealthHasty(health, fails, succs) ==
    CASE health = "dead" -> IF succs > 0 THEN "healthy" ELSE "dead"
      [] health = "healthy" -> IF fails >= FailureThreshold THEN "dead" ELSE "healthy"
      [] OTHER -> IF succs > 0 THEN "healthy"
                  ELSE IF fails >= FailureThreshold THEN "dead" ELSE "unknown"

\* Leaving healthy or dead needs a full streak; the first success settles unknown.
NextHealth(health, fails, succs) ==
    CASE health = "dead" -> IF succs >= RecoveryThreshold THEN "healthy" ELSE "dead"
      [] health = "healthy" -> IF fails >= FailureThreshold THEN "dead" ELSE "healthy"
      [] OTHER -> IF succs > 0 THEN "healthy"
                  ELSE IF fails >= FailureThreshold THEN "dead" ELSE "unknown"

\* The state after a probe.  Counters beyond their threshold make no difference.
Probed(s, o) ==
    LET good == Good(s, o)
        fails == IF good THEN 0 ELSE Capped(s.fails + 1, FailureThreshold)
        succs == IF good THEN Capped(s.succs + 1, RecoveryThreshold) ELSE 0
    IN  [health |-> NextHealth(s.health, fails, succs),
         fails |-> fails, succs |-> succs, failing |-> Failing(s, o)]

Bound == IF FailureThreshold > RecoveryThreshold THEN FailureThreshold ELSE RecoveryThreshold
Lengthened(n, good) ==
    IF good THEN IF n > 0 THEN Capped(n + 1, Bound) ELSE 1
    ELSE IF n < 0 THEN -Capped(1 - n, Bound) ELSE -1

-----------------------------------------------------------------------------
(* A tick.                                                                 *)

\* The proxies are listed and probed; states read before are used throughout.
StartProbe(obs) ==
    /\ step = "idle"
    /\ step' = "saving"
    /\ outcomes' = [p \in listed |-> Probed(Stored(p), obs[p])]
    /\ unsaved' = listed
    /\ vanished' = {p \in Proxies \ listed : states[p] # NoState}
    /\ recovered' = \E p \in listed : /\ states[p].health = "dead"
                                      /\ outcomes'[p].health = "healthy"
    /\ UNCHANGED <<listed, states, alert, allDown, clearing, streak, cleared>>

\* The probed proxies' states are stored, one by one.  A verdict that is lost before
\* this call never counted.
SaveState(p) ==
    /\ step = "saving" /\ p \in unsaved
    /\ states' = [states EXCEPT ![p] = outcomes[p]]
    /\ streak' = [streak EXCEPT ![p] = Lengthened(@, outcomes[p].succs > 0)]
    /\ unsaved' = unsaved \ {p}
    /\ UNCHANGED <<listed, alert, allDown, clearing, step, outcomes, vanished,
                   recovered, cleared>>

\* The states of proxies that are no longer listed are deleted, one by one.
ForgetState(p) ==
    /\ step = "saving" /\ unsaved = {} /\ states[p] # NoState
    /\ p \in vanished
    /\ states' = [states EXCEPT ![p] = NoState]
    /\ UNCHANGED <<listed, alert, allDown, clearing, step, outcomes, unsaved,
                   vanished, recovered, streak, cleared>>

StatesSaved ==
    /\ step = "saving" /\ unsaved = {}
    /\ \A p \in vanished : states[p] = NoState

Dead == {p \in DOMAIN outcomes : outcomes[p].health = "dead"}

\* Mutation of SaveSamples: only the samples that fire are stored.
SaveFiringSamples ==
    /\ StatesSaved
    /\ alert' = alert \cup (Dead \ Whitelisted)
    /\ allDown' = (DOMAIN outcomes # {} /\ Dead = DOMAIN outcomes)
    /\ NoOperation
    /\ UNCHANGED <<listed, states, clearing, streak, cleared>>

\* All samples of the tick are stored by one call: the level of every probed proxy,
\* 0 for the vanished ones, and whether every proxy is down.
SaveSamples ==
    /\ StatesSaved
    /\ alert' = (alert \ (DOMAIN outcomes \cup vanished)) \cup (Dead \ Whitelisted)
    /\ allDown' = (DOMAIN outcomes # {} /\ Dead = DOMAIN outcomes)
    /\ NoOperation
    /\ UNCHANGED <<listed, states, clearing, streak, cleared>>

\* That call raises: logged, and the tick goes on without it.
SamplesFail ==
    /\ StatesSaved
    /\ NoOperation
    /\ UNCHANGED <<listed, states, alert, allDown, clearing, streak, cleared>>

-----------------------------------------------------------------------------
(* Deletion.                                                               *)

\* The panel's handler has deleted the proxy upstream; it waits for the lock.
DeleteProxy(p) ==
    /\ p \in listed
    /\ listed' = listed \ {p}
    /\ clearing' = clearing \cup {p}
    /\ UNCHANGED <<states, alert, allDown, step, outcomes, unsaved, vanished,
                   recovered, streak, cleared>>

\* Somebody else deletes it upstream, or the panel's call fails after all.
DeletedElsewhere(p) ==
    /\ p \in listed
    /\ listed' = listed \ {p}
    /\ UNCHANGED <<states, alert, allDown, clearing, step, outcomes, unsaved,
                   vanished, recovered, streak, cleared>>

\* Mutation of ClearState: the lock is not taken and everything is done at once.
ClearStateUnlocked(p) ==
    /\ p \in clearing
    /\ states' = [states EXCEPT ![p] = NoState]
    /\ alert' = alert \ {p}
    /\ clearing' = clearing \ {p}
    /\ cleared' = cleared \cup {p}
    /\ UNCHANGED <<listed, allDown, step, outcomes, unsaved, vanished, recovered, streak>>

\* clear_proxy_state gets the lock and deletes the stored state ...
ClearState(p) ==
    /\ step = "idle" /\ p \in clearing
    /\ states' = [states EXCEPT ![p] = NoState]
    /\ step' = "clearSample"
    /\ vanished' = {p}
    /\ clearing' = clearing \ {p}
    /\ UNCHANGED <<listed, alert, allDown, outcomes, unsaved, recovered, streak, cleared>>

\* ... then stores a sample that ends the alert ...
ClearSample ==
    /\ step = "clearSample"
    /\ alert' = alert \ vanished
    /\ cleared' = cleared \cup vanished
    /\ NoOperation
    /\ UNCHANGED <<listed, states, allDown, clearing, streak>>

\* ... unless the store raises, which is logged and swallowed.
ClearSampleFails ==
    /\ step = "clearSample"
    /\ NoOperation
    /\ UNCHANGED <<listed, states, alert, allDown, clearing, streak, cleared>>

\* The process dies (requests waiting for the lock die with it), or a storage call
\* that is not guarded raises and ends the tick.
Crash ==
    /\ step # "idle" \/ clearing # {}
    /\ NoOperation
    /\ clearing' \in {clearing, {}}
    /\ UNCHANGED <<listed, states, alert, allDown, streak, cleared>>

Ticking ==
    \/ \E obs \in [listed -> Observation] : StartProbe(obs)
    \/ \E p \in Proxies : SaveState(p) \/ ForgetState(p)
    \/ SaveSamples \/ SamplesFail

Deleting ==
    \/ \E p \in Proxies : DeleteProxy(p) \/ DeletedElsewhere(p) \/ ClearState(p)
    \/ ClearSample \/ ClearSampleFails

Next == Ticking \/ Deleting \/ Crash

Spec == Init /\ [][Next]_vars

\* A crash that no step of an operation going its way looks like.
CrashMidway == Crash /\ ~(SaveSamples \/ SamplesFail \/ ClearSample \/ ClearSampleFails)

\* The scheduler's loop starts a tick again and again and a tick carries on once
\* started; the store does not refuse the samples for ever, nor does the process
\* crash for ever.
Fairness ==
    /\ WF_vars(\E obs \in [listed -> Observation] : StartProbe(obs))
    /\ WF_vars(\E p \in Proxies : SaveState(p) \/ ForgetState(p))
    /\ WF_vars(ClearSample \/ ClearSampleFails)
    /\ WF_vars(SaveSamples \/ SamplesFail)
    /\ SF_vars(SaveSamples)
    /\ <>[][~CrashMidway]_vars

FairSpec == Spec /\ Fairness

-----------------------------------------------------------------------------
(***************************************************************************)
(* Hysteresis: a proxy is declared dead only after FailureThreshold bad    *)
(* verdicts in a row, and comes back only after RecoveryThreshold good ones*)
(* in a row.  Rounds that a crash cut short before the proxy's state was   *)
(* stored do not count, and must not leave half of a count behind.         *)
(***************************************************************************)
Hysteresis ==
    [][\A p \in Proxies :
           /\ states[p].health # "dead" /\ states'[p].health = "dead"
                  => streak'[p] <= -FailureThreshold
           /\ states[p].health = "dead" /\ states'[p].health = "healthy"
                  => streak'[p] >= RecoveryThreshold
      ]_vars

(***************************************************************************)
(* Once clear_proxy_state has run to its end for a proxy deleted through   *)
(* the panel, nothing of the proxy comes back: no health state, no alert,  *)
(* even if a tick was probing it when it was deleted (the handler's comment*)
(* in main.py:2303, "so a firing proxy_unreachable alert recovers").       *)
(***************************************************************************)
ClearedStaysCleared == \A p \in cleared : states[p] = NoState /\ p \notin alert

(***************************************************************************)
(* The alert follows the verdict although samples are lost: a proxy that   *)
(* stays dead gets its alert, one that is no longer dead loses it, since   *)
(* every tick stores the level and not the edge.                           *)
(***************************************************************************)
AlertFollowsVerdict ==
    \A p \in Proxies \ Whitelisted :
        /\ states[p].health = "dead"
               ~> (p \in alert \/ states[p].health # "dead" \/ p \notin listed)
        /\ (p \in alert /\ states[p].health # "dead")
               ~> (p \notin alert \/ states[p].health = "dead" \/ p \notin listed)
=============================================================================
